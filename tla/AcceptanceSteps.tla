---------------------------- MODULE AcceptanceSteps ----------------------------
(* What the acceptance harnesses of src/scripts are written with: the places   *)
(* they prepare and look at, and the steps of a script.  A world maps locations*)
(* to sets; what is absent is the empty set.                                   *)
EXTENDS Naturals, FiniteSets, Sequences, TLC

Registry    == <<"registry", "all">>     \* entries, see Entry
Missing     == <<"missing", "all">>      \* packages whose artifact is deleted
Corrupt     == <<"corrupt", "all">>      \* packages whose artifact is damaged
Yanked      == <<"yanked", "all">>
Source(s)   == <<"source", s>>           \* the entries a checkout publishes
Checkout(s) == <<"checkout", s>>         \* untracked files git status reports
Ignored(s)  == <<"ignored", s>>          \* whether the checkout ignores the archives publish leaves
Manifest(p) == <<"manifest", p>>         \* direct dependencies
Lock(p)     == <<"lock", p>>             \* artifacts <<pkg, body>>
Modules(p)  == <<"modules", p>>
Staging(p)  == <<"staging", p>>
Cache(h)    == <<"cache", h>>
Partial(h)  == <<"partial", h>>          \* unfinished downloads in the cache
Locks(h)    == <<"locks", h>>            \* artifacts with a lock file in the home
Out(o)      == <<"out", o>>              \* an output directory
Unwritable(o) == <<"unwritable", o>>     \* an output whose parent is missing or no plain directory
Temps       == <<"temps", "all">>        \* temporary directories beside the outputs
Wiring(p)   == <<"wiring", p>>           \* packages the adapter files of a project mention
Members(p)  == <<"members", p>>          \* entries of the workspace a project belongs to
Gitlinks(s) == <<"gitlinks", s>>         \* submodules a checkout records, see Gitlink
Vendor(s)   == <<"vendor", s>>           \* submodules checked out: <<path, body>>
Excluded(s) == <<"excluded", s>>         \* submodule paths a package leaves out
Files(s)    == <<"files", s>>            \* files of a checkout
Rules(s)    == <<"rules", s>>            \* its exclusion rules, see Rule
Requests    == <<"requests", "all">>     \* secrets sent, printed or read: <<what, where>>
Plan(p)     == <<"plan", p>>             \* what an export of a project renders
Shown(o)    == <<"shown", o>>            \* what a command printed
Owner(o)    == <<"owner", o>>            \* the record of the plan an output came from
Tag(t)      == <<"tag", t>>              \* what a tag of an OCI registry stands for
Calls(p)    == <<"calls", p>>            \* runs of the host's package manager, numbered
Hooks(p)    == <<"hooks", p>>            \* the package's own code that has run, in order
Bin(b)      == <<"bin", b>>             \* a directory for commands: <<name, whose>>
Served(s)   == <<"served", s>>          \* artifacts a source of downloads has
Route(o)    == <<"route", o>>           \* requests a server has logged: <<source, position>>
Tally       == <<"tally", "all">>        \* downloads a harness has added up

Entry(n, ver, body, needs) == [pkg |-> n, ver |-> ver, body |-> body, needs |-> needs, bars |-> {}]
Gitlink(path, pkg, kind) == [path |-> path, pkg |-> pkg, body |-> "c1", kind |-> kind]
Rule(by, turn, file, neg) == [by |-> by, turn |-> turn, file |-> file, neg |-> neg]

At(w, l) == IF l \in DOMAIN w THEN w[l] ELSE {}
Put(w, l, v) == (l :> v) @@ w
Junk  == <<"junk", "junk">>
Index == <<"index", "index">>

(* Steps of a script: what the harness edits, the commands it runs in turn or  *)
(* at once, how they must end, how many downloads they may report together and *)
(* how many packages each, what it then looks at and what it remembers.        *)
AnyCount == {}
Blank == [edits |-> <<>>, calls |-> <<>>, atonce |-> FALSE, ok |-> TRUE, count |-> AnyCount, said |-> AnyCount,
          tally |-> FALSE, looks |-> {}, keep |-> {}]
Accept(c, looks)        == [Blank EXCEPT !.calls = <<c>>, !.looks = looks]
Fetching(c, n, looks)   == [Accept(c, looks) EXCEPT !.count = n]
Summed(c, names, n, looks) == [Fetching(c, n, looks) EXCEPT !.said = {{Cardinality(names)}}]
Silent(c, looks)        == [Fetching(c, {0}, looks) EXCEPT !.said = {{}}]     \* no word of downloads
InTurn(cs)              == [Blank EXCEPT !.calls = cs]
Together(cs, names, n, looks) ==
    [Blank EXCEPT !.calls = cs, !.atonce = TRUE, !.count = n, !.said = {{Cardinality(names)}}, !.looks = looks]
Refuse(c, looks)        == [Accept(c, looks) EXCEPT !.ok = FALSE]
Edit(es)                == [Blank EXCEPT !.edits = es]
Look(looks)             == [Blank EXCEPT !.looks = looks]
Keep(ls)                == [Blank EXCEPT !.keep = ls]

Set(l, v)   == [op |-> "set", loc |-> l, val |-> v, src |-> l]
Plus(l, v)  == [op |-> "plus", loc |-> l, val |-> v, src |-> l]
Minus(l, v) == [op |-> "minus", loc |-> l, val |-> v, src |-> l]
Copy(l, m)  == [op |-> "copy", loc |-> l, val |-> {}, src |-> m]

Edited(w, e) == Put(w, e.loc, CASE e.op = "set"   -> e.val
                                [] e.op = "plus"  -> At(w, e.loc) \cup e.val
                                [] e.op = "minus" -> At(w, e.loc) \ e.val
                                [] e.op = "copy"  -> At(w, e.src))
AllEdited(w, es) ==
    LET f[i \in 0..Len(es)] == IF i = 0 THEN {w} ELSE {Edited(v, es[i]) : v \in f[i - 1]} IN f[Len(es)]

(* A package is a link to the store, or to another place with the same content *)
(* there; or a tree of files of its own, shared with the store, or with links. *)
Materialized(want, mode) == {<<a[1], a[2], mode>> : a \in want}
Links == {"link", "astray"}
Trees == {"copy", "shared", "mixed"}
Linky == {"link", "astray", "mixed"}

(* A look: its form, where, what is expected there, another place. *)
Exactly(l, v) == <<"exactly", l, v, l>>
Has(l, v)     == <<"has", l, v, l>>
Lacks(l, v)   == <<"lacks", l, v, l>>         \* by package name
Size(l, v)    == <<"size", l, v, l>>
Same(l)       == <<"same", l, {}, l>>         \* as remembered
Alike(l, m)   == <<"alike", l, {}, m>>
Within(l, v)  == <<"within", l, v, l>>
Beyond(l, v)  == <<"beyond", l, v, l>>        \* something else than v is there
Absent(l)     == Exactly(l, {})
Some(l)       == Beyond(l, {})
Unlike(l, v)  == <<"unlike", l, v, l>>        \* nothing of v is there
Named(l, v)   == <<"named", l, v, l>>         \* by package name
Titled(l, v)  == <<"titled", l, v, l>>        \* by name, and no other
Differ(l, m)  == <<"differ", l, {}, m>>
Linking(l, m) == <<"linking", l, {}, m>>      \* every artifact of m is linked at l
LinksTo(l, v) == <<"links", l, v, l>>         \* every artifact of v is a link
TreesOf(l, v) == <<"trees", l, v, l>>         \* every artifact of v is a tree
Unlinked(l)   == <<"unlinked", l, {}, l>>     \* no link anywhere
Aimed(l, v, m)  == <<"aimed", l, v, m>>       \* the packages v lead to the same places as at m
StillAimed(l, v) == <<"still", l, v, l>>      \* the same as remembered
Spent(v)      == <<"spent", Tally, v, Tally>> \* the downloads are as many as the artifacts in v

AreThere(want, modes, here) == \A a \in want : \E m \in modes : <<a[1], a[2], m>> \in here
Of(names, here) == {a \in here : a[1] \in names}
Holds(k, w, kept) ==
    LET here == At(w, k[2]) IN
    CASE k[1] = "exactly" -> here = k[3]
      [] k[1] = "has"     -> k[3] \subseteq here
      [] k[1] = "lacks"   -> \A a \in here : a[1] \notin k[3]
      [] k[1] = "within"  -> here \subseteq k[3]
      [] k[1] = "beyond"  -> ~(here \subseteq k[3])
      [] k[1] = "size"    -> Cardinality(here) = Cardinality(k[3])
      [] k[1] = "same"    -> here = At(kept, k[2])
      [] k[1] = "alike"   -> here = At(w, k[4])
      [] k[1] = "differ"  -> here # At(w, k[4])
      [] k[1] = "titled"  -> {a[1] : a \in here} = k[3]
      [] k[1] = "unlike"  -> here \cap k[3] = {}
      [] k[1] = "named"   -> k[3] \subseteq {a[1] : a \in here}
      [] k[1] = "linking" -> AreThere(At(w, k[4]), Links, here)
      [] k[1] = "links"   -> AreThere(k[3], Links, here)
      [] k[1] = "trees"   -> AreThere(k[3], Trees, here)
      [] k[1] = "unlinked" -> \A a \in here : a[3] \notin Linky
      [] k[1] = "aimed"   -> Of(k[3], here) = Of(k[3], At(w, k[4]))
      [] k[1] = "still"   -> Of(k[3], here) = Of(k[3], At(kept, k[2]))
      [] k[1] = "spent"   -> here = {Cardinality(UNION {At(w, l) : l \in k[3]})}
=============================================================================
