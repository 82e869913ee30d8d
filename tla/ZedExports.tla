------------------------------ MODULE ZedExports ------------------------------
(* The commands of the zed client (external) that carry a project elsewhere: an*)
(* OCI layout and its push, a Nix bundle, a mise file, and an install that runs *)
(* the host's package manager and the hooks of packages.                       *)
EXTENDS AcceptanceSteps

Result(ok, w, n) == [ok |-> ok, w |-> w, n |-> n, said |-> {}]
AcceptedIf(ok, w, w2) == {IF ok THEN Result(TRUE, w2, 0) ELSE Result(FALSE, w, 0)}

Exports == {"print", "realise", "layout", "bundle", "owned", "check", "push", "native"}
(* What a command reports to have done. *)
Unneeded == 0
Created  == 1
Replaced == 2

(* An export renders the plan and the lock, which must answer the manifest;    *)
(* what is there and is not its own rendering stays.  A mise file has a record *)
(* of the plan it came from.                                                   *)
Rendered(w, p) == {Index} \cup At(w, Plan(p)) \cup At(w, Lock(p))
Exportable(w, c) == /\ c.arg \cap {"unknown", "latest", "digest", "untargeted", "unlocked"} = {}
                    /\ \A x \in At(w, Plan(c.p)) : x[1] \notin {"secret", "build"}
                    /\ At(w, Lock(c.p)) = {<<n, "v1">> : n \in At(w, Manifest(c.p))}
Vacant(w, c) == At(w, Out(c.out)) = {} /\ At(w, Unwritable(c.out)) = {}
Current(w, c) == At(w, Out(c.out)) = Rendered(w, c.p)
Record(c) == {<<c.p, "digest">>}
Owned(w, c) == At(w, Owner(c.out)) = Record(c)
Render(w, c) == Put(w, Out(c.out), Rendered(w, c.p))
Exported(w, c, renewable, w2) ==
    {CASE Exportable(w, c) /\ Vacant(w, c)             -> Result(TRUE, w2, Created)
       [] Exportable(w, c) /\ renewable /\ Current(w, c) -> Result(TRUE, w, Unneeded)
       [] OTHER                                   -> Result(FALSE, w, 0)}

(* A push moves a tag only where nothing else is, or with consent. *)
Pushable(w, c) == /\ "auth" \in c.arg /\ "remote" \notin c.arg
                  /\ Junk \notin At(w, Out(c.out))
                  /\ At(w, Tag(c.h)) \in {{}, At(w, Out(c.out))} \/ "replace" \in c.arg
Pushed(w, c) ==
    {IF Pushable(w, c)
     THEN Result(TRUE, Put(w, Tag(c.h), At(w, Out(c.out))),
                 CASE At(w, Tag(c.h)) = {}                 -> Created
                   [] At(w, Tag(c.h)) = At(w, Out(c.out)) -> Unneeded
                   [] OTHER                               -> Replaced)
     ELSE Result(FALSE, w, 0)}

(* Hooks run once for a package, a manager and a home, then their result comes *)
(* from the cache; the manager is asked in every transaction, by Nix never.    *)
Consents == {"deps", "hooks", "build"}
Lifecycle == {<<"1", "pre">>, <<"2", "build">>, <<"3", "post">>}
BuiltFor(c) == {<<"native-a", c.mode>>}
Native(w, c) ==
    LET hooked == IF BuiltFor(c) \subseteq At(w, Cache(c.h)) THEN At(w, Hooks(c.p)) ELSE Lifecycle
        calls == At(w, Calls(c.p))
    IN  AcceptedIf(Consents \subseteq c.arg /\ (c.mode = "nix" => "provided" \in c.arg), w,
                   Put(Put(Put(Put(w, Hooks(c.p), hooked), Cache(c.h), At(w, Cache(c.h)) \cup BuiltFor(c)),
                           Modules(c.p), Materialized({<<"native-a", "v1">>, <<"native-b", "v1">>}, "copy")),
                       Calls(c.p), IF c.mode = "nix" THEN calls ELSE calls \cup {Cardinality(calls) + 1}))

ExportOutcomes(w, c) ==
    CASE c.do = "print"  -> AcceptedIf(Exportable(w, c), w, Put(w, Shown(c.out), Rendered(w, c.p)))
      [] c.do = "realise" -> AcceptedIf(Current(w, c), w, w)
      [] c.do = "layout" -> Exported(w, c, FALSE, Render(w, c))
      [] c.do = "bundle" -> Exported(w, c, TRUE, Render(w, c))
      [] c.do = "owned"  -> Exported(w, c, Owned(w, c), Put(Render(w, c), Owner(c.out), Record(c)))
      [] c.do = "check"  -> AcceptedIf(Owned(w, c) /\ Current(w, c), w, w)
      [] c.do = "push"   -> Pushed(w, c)
      [] c.do = "native" -> Native(w, c)

-----------------------------------------------------------------------------
(* How an export may break its word. *)
ExportLoses(c, ok) ==
    CASE c.do = "print"                -> {Shown(c.out)}
      [] c.do \in {"layout", "bundle"} -> {Out(c.out)}
      [] c.do = "owned"                -> {Out(c.out), Owner(c.out)}
      [] c.do = "push"                 -> {Tag(c.h)}
      [] c.do = "native"               -> IF ok THEN {Modules(c.p), Hooks(c.p), Calls(c.p), Cache(c.h)} ELSE {}
      [] OTHER                         -> {}
ExportGains(c, ok) ==
    CASE c.do \in {"layout", "bundle"}          -> {Out(c.out), Checkout(c.p), Cache(c.h)}
      [] c.do = "print"                         -> {Shown(c.out), Checkout(c.p), Requests}
      [] c.do = "realise"                       -> {Out(c.out)}
      [] c.do \in {"owned", "check"}            -> {Out(c.out), Owner(c.out), Plan(c.p)}
      [] c.do = "push"                          -> {Tag(c.h), Checkout(c.p), Temps, Requests}
      [] c.do = "native"                        -> {Hooks(c.p), Calls(c.p)} \cup IF ok THEN {Cache(c.h)} ELSE {Modules(c.p)}
ExportStrays(c, w, l) ==
    CASE l = Requests     -> {<<"printed", "password">>, <<"opened", "credentials">>}
      [] l[1] = "calls"   -> {Cardinality(At(w, l)) + 1}
      [] l[1] = "hooks"   -> {<<"1", "pre">>, <<"4", "pre">>}
      [] l[1] = "cache" /\ c.do = "native" -> {<<"native-a", "written to">>}
      [] l[1] = "modules" -> {<<"native-a", "v1", "copy">>}
      [] OTHER            -> {Junk}
=============================================================================
