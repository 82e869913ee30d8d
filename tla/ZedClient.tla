------------------------------- MODULE ZedClient -------------------------------
(* The zed client (another repository: external), modelled as the acceptance   *)
(* harnesses of src/scripts use it, and the ways it may break its word.        *)
EXTENDS ZedMachine

Command(do, p, h, arg) == [do |-> do, p |-> p, h |-> h, arg |-> arg, mode |-> "link", out |-> p,
                           first |-> <<>>, wired |-> FALSE, subs |-> FALSE]
Copied(c)           == [c EXCEPT !.mode = "copy"]
Wired(c)            == [c EXCEPT !.wired = TRUE]         \* with adapter files
Recursing(c)        == [c EXCEPT !.subs = TRUE]          \* with --git-submodules, or the variable
Install(p, h)       == Command("install", p, h, {})
Solve(p, h, first)  == [Install(p, h) EXCEPT !.first = first]
Frozen(p, h)        == Command("frozen", p, h, {})
Add(p, h, x)        == Command("add", p, h, {x})
Remove(p, h, x)     == Command("remove", p, h, {x})
Uninstall(p, names) == Command("uninstall", p, p, names)
Fetch(p, h, o)      == [Command("fetch", p, h, {}) EXCEPT !.out = o]
Publish(s)          == Command("publish", s, s, {})
Rehearse(s)         == Command("rehearse", s, s, {})     \* plan, r2g, publish --dry-run
Pack(s, o)          == [Command("pack", s, s, {}) EXCEPT !.out = o]
Yank(x)             == Command("yank", x, x, {x})
Unyank(x)           == Command("unyank", x, x, {x})
Overtake(p)         == Command("overtake", p, p, {})
Graph(answer, o)    == [Command("graph", answer, o, {}) EXCEPT !.out = o]
Use(p, h)           == Command("use", p, h, {})          \* the consumer's own program
Export(do, p, h, o) == [Command(do, p, h, {}) EXCEPT !.out = o]
Push(p, o, tag, options) == [Command("push", p, tag, options) EXCEPT !.out = o]
Global(do, p, h, b, x) == [Command(do, p, h, {x}) EXCEPT !.out = b]
Task(tool, task, options) == Command("task", task, tool, options)
Ask(tool, query)    == Command("query", query, tool, {})
Restore(p, h, sources) == [Command("route", p, h, {}) EXCEPT !.first = sources]
Begin(p, terminal)  == Command("init", p, p, terminal)
Environs(do, p, o)  == [Command(do, p, p, {}) EXCEPT !.out = o]
NativeInstall(p, h, manager, consents) == [Command("native", p, h, consents) EXCEPT !.mode = manager]

-----------------------------------------------------------------------------
(* Resolution.  A solution has one version of everything the roots need, none  *)
(* of them yanked or barred by another; the newest versions of the packages in *)
(* first decide, in that order.                                                *)
Artifacts(w) == {<<e.pkg, e.body>> : e \in At(w, Registry)}
Closure(w, roots) ==
    LET E == At(w, Registry)
        c[n \in 0..Cardinality(E)] ==
            IF n = 0 THEN roots ELSE UNION {C \cup UNION {e.needs : e \in {x \in E : x.pkg \in C}} : C \in {c[n - 1]}}
    IN  c[Cardinality(E)]
Solutions(w, roots) ==
    LET E == {e \in At(w, Registry) : e.pkg \in Closure(w, roots) \ At(w, Yanked)}
    IN  {S \in SUBSET E : /\ \A e, f \in S : (e # f => e.pkg # f.pkg) /\ <<f.pkg, f.ver>> \notin e.bars
                          /\ {e.pkg : e \in S} = roots \cup UNION {e.needs : e \in S}}
Version(S, n) == (CHOOSE e \in S : e.pkg = n).ver
Preferred(solutions, first) ==
    LET best[i \in 0..Len(first)] ==
            IF i = 0 THEN solutions
            ELSE UNION {{S \in B : \A T \in B : Version(S, first[i]) >= Version(T, first[i])} : B \in {best[i - 1]}}
    IN  CHOOSE S \in best[Len(first)] : TRUE
(* Members of a project's own workspace are not resolved through the registry. *)
Local(w, p) == {m \in At(w, Members(p)) : m[1] \in At(w, Manifest(p))}
Foreign(w, p, roots) == roots \ {m[1] : m \in Local(w, p)}
Unfetchable(w) == At(w, Missing) \cup At(w, Corrupt)

(* Submodules: those that are packages, the whole tree checked out, a tree that*)
(* is not the recorded one.                                                    *)
Adoptable(w, s) == {<<g.pkg, g.body>> : g \in {x \in At(w, Gitlinks(s)) : x.kind = "zed"}}
Recorded(w, s) == {<<g.path, g.body>> : g \in At(w, Gitlinks(s))}
Synced(w, c) == IF c.subs THEN Put(w, Vendor(c.p), Recorded(w, c.p)) ELSE w
Drifted(w, s) == ~(At(w, Vendor(s)) \subseteq Recorded(w, s))

(* An install resolves and says how many packages that are, prefetches what the*)
(* home lacks under a lock file for each and only then replaces the project; a *)
(* failing one may have cached some of the good artifacts, and a search may    *)
(* have downloaded newer candidates of a root it then rejected.                *)
Installed(w, c, want, got) ==
    LET there == want \cup Local(w, c.p)
        w2 == Put(Put(Put(w, Lock(c.p), want), Modules(c.p), Materialized(there, c.mode)),
                  Cache(c.h), At(w, Cache(c.h)) \cup got)
    IN  Synced(IF c.wired THEN Put(w2, Wiring(c.p), {<<a[1], "wired">> : a \in there}) ELSE w2, c)
Saying(r, want) == [r EXCEPT !.said = IF want = {} THEN {} ELSE {Cardinality(want)}]
Downloading(w, c, new) == Put(w, Locks(c.h), At(w, Locks(c.h)) \cup new)
Installing(w, c, want, tried) ==
    LET new == want \ At(w, Cache(c.h))
        all(x) == new \cup (x \ At(w, Cache(c.h)))
    IN
    IF \A a \in new : a[1] \notin Unfetchable(w)
    THEN {Saying(Result(TRUE, Installed(Downloading(w, c, all(x)), c, want, want \cup x), Cardinality(all(x))), want) :
             x \in SUBSET tried}
    ELSE {Result(FALSE, Put(w, Cache(c.h), At(w, Cache(c.h)) \cup got), Cardinality(got)) :
             got \in SUBSET {a \in new : a[1] \notin Unfetchable(w)}}
Pairs(T) == {<<e.pkg, e.body>> : e \in T}
Proposed(w, c, roots) ==
    LET wanted == Foreign(w, c.p, roots)
        solutions == Solutions(w, wanted)
        S == Preferred(solutions, c.first)
        newer == {e \in At(w, Registry) : e.pkg \in wanted /\ e.ver > Version(S, e.pkg)}
    IN  IF solutions = {} THEN {Result(FALSE, w, 0)}
        ELSE {[r EXCEPT !.w = IF r.ok THEN Put(@, Manifest(c.p), roots) ELSE @] : r \in Installing(w, c, Pairs(S), Pairs(newer))}
Direct(w, c) == Foreign(w, c.p, At(w, Manifest(c.p)))
Solvable(w, c) == Solutions(w, Direct(w, c)) # {}
Chosen(w, c) == IF Solvable(w, c) THEN Pairs(Preferred(Solutions(w, Direct(w, c)), c.first)) ELSE {}
Known(w, p) == At(w, Lock(p)) \subseteq Artifacts(w) \cup Adoptable(w, p)
Replayable(w, c) ==
    /\ Known(w, c.p)
    /\ At(w, Members(c.p)) # {} => Foreign(w, c.p, At(w, Manifest(c.p))) \subseteq {a[1] : a \in At(w, Lock(c.p))}
    /\ c.subs => Adoptable(w, c.p) = At(w, Lock(c.p)) /\ ~Drifted(w, c.p)
Replayed(w, c) == IF Replayable(w, c) THEN Installing(w, c, At(w, Lock(c.p)), {}) ELSE {Result(FALSE, w, 0)}

(* A takeover adopts the submodules that are packages, all of them or none.    *)
Overtaken(w, c) ==
    LET sound == c.subs /\ Adoptable(w, c.p) # {} /\ \A g \in At(w, Gitlinks(c.p)) : g.kind \in {"zed", "plain"}
        names == {a[1] : a \in Adoptable(w, c.p)}
    IN  {IF sound
         THEN Result(TRUE, Put(Put(Put(Put(Synced(w, c), Manifest(c.p), At(w, Manifest(c.p)) \cup names),
                                       Lock(c.p), Adoptable(w, c.p)),
                                   Modules(c.p), Materialized(Adoptable(w, c.p), c.mode)),
                               Members(c.p), {<<n, "c1">> : n \in names}), 0)
         ELSE Result(FALSE, Synced(w, c), 0)}

-----------------------------------------------------------------------------
(* Publication and packing.  The same identity with other bytes is refused.  A *)
(* package holds its files but the excluded ones; an included submodule must be*)
(* checked out as recorded.                                                    *)
Archive(w, s) == {<<e.pkg, e.body>> : e \in At(w, Source(s))}
Left(w, s) == IF At(w, Ignored(s)) = {} THEN Archive(w, s) ELSE {}
Deciding(rules) == CHOOSE r \in rules : \A q \in rules : q.turn <= r.turn
LeftOut(w, s) == {f \in At(w, Files(s)) : \E by \in {"manifest", "ignore"} :
                    LET rules == {r \in At(w, Rules(s)) : r.by = by /\ r.file = f} IN rules # {} /\ ~Deciding(rules).neg}
Warnings(w, s) == IF {r.by : r \in At(w, Rules(s))} = {"manifest", "ignore"} THEN 1 ELSE 0
Embedded(w, s) == {g \in At(w, Gitlinks(s)) : g.path \notin At(w, Excluded(s))}
Packable(w, s) == /\ At(w, Source(s)) # {}
                  /\ \A g \in Embedded(w, s) : <<g.path, g.body>> \in At(w, Vendor(s))
                  /\ "broken" \notin {r.file : r \in At(w, Rules(s))}
Packed(w, s) == Archive(w, s) \cup {<<f, "file">> : f \in At(w, Files(s)) \ LeftOut(w, s)}
                              \cup {<<g.path, g.body>> : g \in Embedded(w, s)}
Publishable(w, s) == /\ Packable(w, s)
                     /\ \A e \in At(w, Source(s)), r \in At(w, Registry) : e.pkg = r.pkg /\ e.ver = r.ver => e = r

(* A program runs when what it needs is there: in the project, or in the home  *)
(* its links lead to.                                                          *)
Runs(w, c) == \A a \in At(w, Lock(c.p)) : \/ AreThere({a}, Trees \ Linky, At(w, Modules(c.p)))
                                          \/ /\ AreThere({a}, Linky, At(w, Modules(c.p)))
                                             /\ a \in At(w, Cache(c.h))

(* A graph of what a forge answers: whole, cut short, or leading elsewhere.    *)
Whole == {<<"state", "complete">>, <<"cycle", "a-b">>, <<"edge", "root-a">>, <<"pin", "shared">>}
Drawn(answer) == CASE answer = "whole" -> Whole
                   [] answer = "cut"   -> {<<"state", "partial">>, <<"failure", "truncated">>}
                   [] OTHER            -> {}
Graphed(w, c) == {Result(c.p = "whole", Put(Put(w, Out(c.out), Drawn(c.p)), Requests, At(w, Requests) \cup {<<"token", "path">>}), 0)}

Outcomes(c, w) ==
    CASE c.do = "install"   -> Proposed(w, c, At(w, Manifest(c.p)))
      [] c.do = "add"       -> Proposed(w, c, At(w, Manifest(c.p)) \cup c.arg)
      [] c.do = "remove"    -> Proposed(w, c, At(w, Manifest(c.p)) \ c.arg)
      [] c.do = "frozen"    -> Replayed(w, c)
      [] c.do = "uninstall" -> AcceptedIf(TRUE, w, Put(Put(w, Modules(c.p), {a \in At(w, Modules(c.p)) : a[1] \notin c.arg}),
                                                       Wiring(c.p), {a \in At(w, Wiring(c.p)) : a[1] \notin c.arg}))
      [] c.do = "fetch"     -> AcceptedIf(/\ At(w, Out(c.out)) = {} /\ At(w, Unwritable(c.out)) = {}
                                             /\ Lock(c.p) \in DOMAIN w /\ Known(w, c.p),
                                          w, Put(w, Out(c.out), {Index} \cup At(w, Lock(c.p))))
      [] c.do = "publish"   -> AcceptedIf(Publishable(w, c.p), w,
                                          Put(Put(w, Registry, At(w, Registry) \cup At(w, Source(c.p))),
                                              Checkout(c.p), At(w, Checkout(c.p)) \cup Left(w, c.p)))
      [] c.do = "rehearse"  -> AcceptedIf(Publishable(w, c.p), w, w)
      [] c.do = "pack"      -> {[r EXCEPT !.n = Warnings(w, c.p)] :
                                  r \in AcceptedIf(Packable(w, c.p), w, Put(w, Out(c.out), Packed(w, c.p)))}
      [] c.do = "yank"      -> AcceptedIf(TRUE, w, Put(w, Yanked, At(w, Yanked) \cup c.arg))
      [] c.do = "unyank"    -> AcceptedIf(TRUE, w, Put(w, Yanked, At(w, Yanked) \ c.arg))
      [] c.do = "overtake"  -> Overtaken(w, c)
      [] c.do = "graph"     -> Graphed(w, c)
      [] c.do = "use"       -> AcceptedIf(Runs(w, c), w, w)
      [] c.do \in Exports   -> ExportOutcomes(w, c)
      [] c.do \in Machine   -> MachineOutcomes(w, c)

-----------------------------------------------------------------------------
(* The ways a client may break its word once: do half of an effect (loses), or *)
(* touch what it must leave alone (gains), or report another result.           *)
Installs == {"install", "add", "remove", "frozen"}
Loses(c, r) ==
    CASE c.do = "frozen" /\ r.ok           -> {Modules(c.p), Wiring(c.p), Vendor(c.p), Locks(c.h)}
      [] c.do \in Installs /\ r.ok         -> {Lock(c.p), Modules(c.p), Wiring(c.p), Vendor(c.p), Locks(c.h)}
      [] c.do \in Installs /\ ~r.ok        -> {Modules(c.p), Lock(c.p)}
      [] c.do = "overtake"                 -> {Manifest(c.p), Lock(c.p), Modules(c.p), Members(c.p), Vendor(c.p)}
      [] c.do \in {"fetch", "pack", "graph"} -> {Out(c.out)}
      [] c.do = "publish"                  -> {Registry}
      [] c.do = "yank"                     -> {Yanked}
      [] c.do = "uninstall"                -> {Modules(c.p), Lock(c.p)}
      [] c.do \in Exports                  -> ExportLoses(c, r.ok)
      [] c.do \in Machine                  -> MachineLoses(c, r.ok)
      [] OTHER                             -> {}
Gains(c, r) ==
    CASE c.do = "frozen" /\ r.ok           -> {Lock(c.p), Staging(c.p), Partial(c.h), Vendor(c.p)}
      [] c.do \in Installs /\ r.ok         -> {Staging(c.p), Partial(c.h), Vendor(c.p)}
      [] c.do \in Installs /\ ~r.ok        -> {Lock(c.p), Modules(c.p), Staging(c.p), Partial(c.h), Cache(c.h)}
      [] c.do = "overtake"                 -> {Manifest(c.p), Lock(c.p), Modules(c.p), Staging(c.p)}
      [] c.do = "uninstall"                -> {Modules(c.p), Lock(c.p), Manifest(c.p), Wiring(c.p)}
      [] c.do = "fetch"                    -> {Out(c.out), Temps, Lock(c.p), Modules(c.p), Cache(c.h)}
      [] c.do = "pack"                     -> {Out(c.out), Checkout(c.p)}
      [] c.do = "graph"                    -> {Out(c.out), Requests}
      [] c.do \in {"publish", "rehearse"}  -> {Registry, Checkout(c.p)}
      [] c.do \in Exports                  -> ExportGains(c, r.ok)
      [] c.do \in Machine                  -> MachineGains(c, r.ok)
      [] OTHER                             -> {}

(* What turns up where it should not: for modules one of the packages the      *)
(* command is about, for a cache what could not be fetched, for a package what *)
(* it leaves out, for a graph an edge nobody declared or a secret.             *)
Wanted(c, w) == CASE c.do = "uninstall" -> c.arg
                  [] c.do = "overtake"  -> {g.pkg : g \in At(w, Gitlinks(c.p))}
                  [] OTHER              -> Closure(w, Foreign(w, c.p, At(w, Manifest(c.p))))
Strays(c, w, l) ==
    IF c.do \in Exports THEN ExportStrays(c, w, l) ELSE
    IF c.do \in Machine THEN MachineStrays(c, l) ELSE
    CASE l[1] = "modules" -> {<<x, "v1", c.mode>> : x \in Wanted(c, w)}
      [] l[1] = "cache"   -> {<<x, "bad">> : x \in Unfetchable(w) \cap Wanted(c, w)}
      [] l[1] = "wiring"  -> IF c.wired THEN {<<x, "wired">> : x \in Wanted(c, w)} ELSE {}
      [] l[1] = "vendor"  -> Recorded(w, c.p)
      [] l[1] = "manifest" -> {"another"}
      [] l[1] = "out" /\ c.do = "graph" -> {<<"edge", "pin">>, <<"edge", "root-shared">>, <<"secret", "token">>}
      [] l = Requests     -> {<<"anonymous", "path">>, <<"token", "secret">>}
      [] l[1] = "out" /\ At(w, Files(c.p)) # {}    -> {<<f, "file">> : f \in LeftOut(w, c.p)}
      [] l[1] = "out" /\ At(w, Gitlinks(c.p)) # {} -> {<<".git", "file">>}
      [] l = Registry     -> {Entry("junk", 1, "junk", {})}
      [] OTHER            -> {Junk}

(* A package may also be materialized otherwise than was asked for. *)
Instead(mode) == IF mode = "link" THEN {"copy", "shared", "astray"} ELSE {"link", "shared", "mixed"}
Swapped(c, r) ==
    IF c.do \in Installs /\ r.ok
    THEN {[r |-> [r EXCEPT !.w = Put(@, Modules(c.p), (At(@, Modules(c.p)) \ {x}) \cup {<<x[1], x[2], m>>})],
           what |-> <<c.do, TRUE, m, "modules">>] : x \in At(r.w, Modules(c.p)), m \in Instead(c.mode)}
    ELSE {}

Counting == Installs \cup {"layout", "bundle", "owned", "push", "drop", "task", "init"}
Broken(c, r) ==
    UNION {{[r |-> [r EXCEPT !.w = Put(@, l, At(@, l) \ {x})], what |-> <<c.do, r.ok, "loses", l[1]>>] :
               x \in At(r.w, l)} : l \in Loses(c, r)}
    \cup UNION {{[r |-> [r EXCEPT !.w = Put(@, l, At(@, l) \cup {x})], what |-> <<c.do, r.ok, "gains", l[1]>>] :
               x \in Strays(c, r.w, l) \ At(r.w, l)} : l \in Gains(c, r)}
    \cup Swapped(c, r)
    \cup {[r |-> [r EXCEPT !.ok = ~@], what |-> <<c.do, r.ok, "reports", "status">>] : x \in {c.do} \ {"use"}}
    \cup {[r |-> [r EXCEPT !.n = @ + 1], what |-> <<c.do, r.ok, "reports", "downloads">>] :
             x \in {y \in {c.do} : r.ok /\ y \in Counting}}
    \cup {[r |-> [r EXCEPT !.said = {0}], what |-> <<c.do, r.ok, "reports", "packages">>] :
             x \in {y \in {c.do} : r.ok /\ y \in Installs}}

(* Commands in turn: every one must end well, and downloads add up. *)
Joined(r, q) == [ok |-> r.ok /\ q.ok, w |-> q.w, n |-> r.n + q.n, said |-> r.said \cup q.said]
Clean(cs, w) ==
    LET f[i \in 0..Len(cs)] ==
            IF i = 0 THEN {Result(TRUE, w, 0)}
            ELSE UNION {{Joined(r, q) : q \in Outcomes(cs[i], r.w)} : r \in f[i - 1]}
    IN  f[Len(cs)]
Faulty(cs, w) ==
    LET now(i) == UNION {UNION {{[r |-> Joined(r, b.r), what |-> b.what] : b \in Broken(cs[i], q)} :
                                   q \in Outcomes(cs[i], r.w)} : r \in Clean(SubSeq(cs, 1, i - 1), w)}
        f[i \in 0..Len(cs)] ==
            IF i = 0 THEN {}
            ELSE now(i) \cup UNION {{[b EXCEPT !.r = Joined(b.r, q)] : q \in Outcomes(cs[i], b.r.w)} : b \in f[i - 1]}
    IN  f[Len(cs)]
=============================================================================
