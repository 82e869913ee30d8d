---------------------------- MODULE InstallScripts ----------------------------
(* The scripts of install_recovery_matrix.py, recursive_installs.py and        *)
(* recursive_installs_stress.py.                                               *)
EXTENDS ZedClient

(* The assertions these harnesses share. *)
Locked(names) == {<<n, "v1">> : n \in names}
LockIs(p, names) == Titled(Lock(p), names)
Linked(p, names) == LinksTo(Modules(p), Locked(names))
Copies(p, names) == {TreesOf(Modules(p), Locked(names)), Unlinked(Modules(p))}
NotThere(p, names) == Lacks(Modules(p), names)
LeaksAllowed(p) == Has(Staging(p), {})
NoLeaks(p) == Absent(Staging(p))
NoCacheStaging(h) == Absent(Partial(h))
ArtifactHome(h, names) == {Size(Cache(h), names), Size(Locks(h), names), NoCacheStaging(h)}
ExactlyOne == {1}
AtLeastOne == 1..9

(* write_package and publish, for every package of a graph, leaves first. *)
Published(order, graph) ==
    [i \in 1..Len(order) |->
        [Accept(Publish(order[i]), {}) EXCEPT
            !.edits = <<Set(Source(order[i]), {Entry(order[i], 1, "v1", graph[order[i]])})>>]]

-----------------------------------------------------------------------------
(* install_recovery_matrix.py *)
Base == {"leaf-a", "leaf-b", "root"}
Leaves == {"leaf-a", "leaf-b"}
BaseGraph == [n \in Base |-> IF n = "root" THEN Leaves ELSE {}]
Same1 == "same-project"
Again == Install(Same1, "shared")

(* Two processes install the same project at once and share every download;    *)
(* each says that it resolved all three packages.                              *)
SameProject ==
    Published(<<"leaf-a", "leaf-b", "root">>, BaseGraph) \o
    <<[Together(<<Again, Again>>, Base, {Cardinality(Base)},
                {LockIs(Same1, Base), Linked(Same1, Base), NoLeaks(Same1), NoCacheStaging("shared")})
          EXCEPT !.edits = <<Set(Manifest(Same1), {"root"})>>, !.keep = {Lock(Same1), Manifest(Same1), Modules(Same1)}]>>

(* Warm installs, a broken link and two uninstalls, each repaired from the lock. *)
Restored(looks) == Summed(Frozen(Same1, "shared"), Base, {0}, looks \cup {Linked(Same1, Base)})
Repairs ==
    <<Summed(Again, Base, {0}, {Same(Lock(Same1)), Linked(Same1, Base), StillAimed(Modules(Same1), Base)}),
      [Restored({Same(Lock(Same1))}) EXCEPT !.edits = <<Minus(Modules(Same1), {<<"leaf-a", "v1", "link">>})>>],
      Accept(Uninstall(Same1, {"root"}), {NotThere(Same1, {"root"}), Linked(Same1, Leaves), Same(Lock(Same1))}),
      Restored({}),
      Accept(Uninstall(Same1, Base), {NotThere(Same1, Base), Same(Lock(Same1)), Same(Manifest(Same1))}),
      Restored({})>>

CopyMode ==
    <<[Summed(Copied(Install("copied", "copy")), Base, {Cardinality(Base)}, {LockIs("copied", Base)} \cup Copies("copied", Base))
          EXCEPT !.edits = <<Set(Manifest("copied"), {"root"})>>, !.keep = {Lock("copied")}],
      Summed(Copied(Frozen("copied", "copy")), Base, {0}, {Same(Lock("copied"))} \cup Copies("copied", Base))>>

(* A lock whose first digest was replaced, and one with its first package twice. *)
Spoiled(p, spoil) ==
    [Edit(<<Set(Manifest(p), {"root"}), Copy(Lock(p), Lock(Same1))>> \o spoil) EXCEPT !.keep = {Lock(p)}]
Untouched(p) == {Same(Lock(p)), NotThere(p, Base), NoLeaks(p)}
SpoiledLocks ==
    <<Spoiled("tampered", <<Minus(Lock("tampered"), {<<"leaf-a", "v1">>}), Plus(Lock("tampered"), {<<"leaf-a", "0">>})>>),
      Refuse(Frozen("tampered", "tamper"), Untouched("tampered") \cup {NoCacheStaging("tamper")}),
      Spoiled("doubled", <<Plus(Lock("doubled"), {<<"leaf-a", "again">>})>>),
      Refuse(Frozen("doubled", "duplicate"), Untouched("doubled"))>>

(* A new dependency whose artifact is gone must not damage the installed graph. *)
MissingArtifact ==
    Published(<<"extra">>, [extra |-> {}]) \o
    <<[Look({Linked(Same1, Base)}) EXCEPT !.keep = {Modules(Same1)}],
      [Refuse(Again, {Same(Lock(Same1)), Linked(Same1, Base), StillAimed(Modules(Same1), Base), NotThere(Same1, {"extra"}),
                      NoLeaks(Same1), NoCacheStaging("shared"), Lacks(Cache("shared"), {"extra"})})
          EXCEPT !.edits = <<Set(Missing, {"extra"}), Set(Manifest(Same1), {"root", "extra"})>>],
      [Summed(Again, Base \cup {"extra"}, {1},
              {LockIs(Same1, Base \cup {"extra"}), Linked(Same1, Base \cup {"extra"}), NoCacheStaging("shared")})
          EXCEPT !.edits = <<Set(Missing, {})>>]>>

(* A damaged artifact fails before the project changes; the retry downloads at *)
(* least it, and whatever the first attempt had not cached.                    *)
CorruptArtifact ==
    <<[Refuse(Install("damaged", "corrupt"),
              {Absent(Lock("damaged")), NotThere("damaged", Base), NoLeaks("damaged"), NoCacheStaging("corrupt"),
               Lacks(Cache("corrupt"), {"leaf-b"})})
          EXCEPT !.edits = <<Set(Manifest("damaged"), {"root"}), Set(Corrupt, {"leaf-b"})>>],
      [Summed(Install("damaged", "corrupt"), Base, AtLeastOne,
              {LockIs("damaged", Base), Linked("damaged", Base), NoCacheStaging("corrupt")})
          EXCEPT !.edits = <<Set(Corrupt, {})>>]>>

RecoveryMatrix == SameProject \o Repairs \o CopyMode \o SpoiledLocks \o MissingArtifact \o CorruptArtifact

-----------------------------------------------------------------------------
(* recursive_installs.py: a diamond, two consumers of one home, add, remove. *)
Diamond == {"leaf", "left", "right", "root"}
DiamondGraph == [leaf |-> {}, left |-> {"leaf"}, right |-> {"leaf"}, root |-> {"left", "right"}]
Consumed(p, names, roots) == {Exactly(Manifest(p), roots), LockIs(p, names), Linked(p, names)}

TwoConsumers ==
    Published(<<"leaf", "left", "right", "root">>, DiamondGraph) \o
    <<[Together(<<Install("a", "shared"), Install("b", "shared")>>, Diamond, {Cardinality(Diamond)},
                Consumed("a", Diamond, {"root"}) \cup Consumed("b", Diamond, {"root"})
                \cup {Aimed(Modules("b"), Diamond, Modules("a"))} \cup ArtifactHome("shared", Diamond))
          EXCEPT !.edits = <<Set(Manifest("a"), {"root"}), Set(Manifest("b"), {"root"})>>]>>

AddAndRemove ==
    <<Summed(Add("added", "add", "root"), Diamond, {Cardinality(Diamond)},
             Consumed("added", Diamond, {"root"}) \cup ArtifactHome("add", Diamond)),
      [Summed(Remove("removed", "remove", "root"), {"left", "leaf"}, {2},
              Consumed("removed", {"left", "leaf"}, {"left"}) \cup {NotThere("removed", {"root", "right"})}
              \cup ArtifactHome("remove", {"left", "leaf"}))
          EXCEPT !.edits = <<Set(Manifest("removed"), {"root", "left"})>>]>>

RecursiveInstalls == TwoConsumers \o AddAndRemove

-----------------------------------------------------------------------------
(* recursive_installs_stress.py: four consumers at once (two leaves stand for  *)
(* its twelve), then the lock alone in a project without a manifest.           *)
Wide == Base
Four == <<"c0", "c1", "c2", "c3">>
FourConsumers ==
    Published(<<"leaf-a", "leaf-b", "root">>, BaseGraph) \o
    <<[Together([i \in 1..4 |-> Install(Four[i], "shared")], Wide, {Cardinality(Wide)},
                UNION {Consumed(Four[i], Wide, {"root"}) \cup {Aimed(Modules(Four[i]), Wide, Modules("c0"))} : i \in 1..4}
                \cup ArtifactHome("shared", Wide))
          EXCEPT !.edits = [i \in 1..4 |-> Set(Manifest(Four[i]), {"root"})]]>>

LockOnly ==
    <<[Edit(<<Copy(Lock("frozen"), Lock("c0"))>>) EXCEPT !.keep = {Lock("frozen")}],
      Summed(Frozen("frozen", "frozen"), Wide, {Cardinality(Wide)},
             {Absent(Manifest("frozen")), Same(Lock("frozen")), LockIs("frozen", Wide), Linked("frozen", Wide)}
             \cup ArtifactHome("frozen", Wide)),
      Summed(Frozen("frozen", "frozen"), Wide, {0}, {Same(Lock("frozen"))})>>

RecursiveStress == FourConsumers \o LockOnly
=============================================================================
