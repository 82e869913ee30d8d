---------------------------- MODULE ConsumerScripts ----------------------------
(* The scripts of complete_constraint_solver.py and org_app_installs.py.       *)
EXTENDS ArtifactScripts

(* complete_constraint_solver.py: versions are ranked 1, 2, ...; a requirement *)
(* is what it bars. *)
Package(n, ver, needs, bars) == [Entry(n, ver, ToString(ver), needs) EXCEPT !.bars = bars]
Plain(n, ver) == Package(n, ver, {}, {})
Catalogue ==
    <<Plain("shared", 1), Plain("shared", 2), Package("left", 1, {"shared"}, {}),
      Package("right", 1, {"shared"}, {<<"shared", 2>>, <<"shared", 3>>}),
      Plain("x", 1), Plain("x", 2),
      Package("a", 1, {"x"}, {<<"x", 2>>}), Package("a", 2, {"x"}, {<<"x", 1>>}),
      Package("b", 1, {"x"}, {<<"x", 1>>}), Package("b", 2, {"x"}, {<<"x", 2>>}),
      Plain("stale", 1), Plain("stale", 2), Plain("obsolete", 1), Plain("replacement", 1),
      Package("chooser", 1, {"replacement", "stale"}, {<<"stale", 1>>}),
      Package("chooser", 2, {"obsolete", "stale"}, {<<"stale", 2>>}),
      Package("force", 1, {"stale"}, {<<"stale", 1>>}),
      Plain("unsat", 1), Plain("unsat", 2),
      Package("unsat-left", 1, {"unsat"}, {<<"unsat", 2>>}), Package("unsat-right", 1, {"unsat"}, {<<"unsat", 1>>}),
      Package("cycle-a", 1, {"cycle-b"}, {}), Package("cycle-b", 1, {"cycle-a"}, {})>>
Catalogued == [InTurn([i \in 1..Len(Catalogue) |-> Publish(i)])
                  EXCEPT !.edits = [i \in 1..Len(Catalogue) |-> Set(Source(i), {Catalogue[i]})]]

Pinned(p, want) == {Exactly(Lock(p), want), LinksTo(Modules(p), want)}
Solved(p, first, n, want, looks) ==
    [Fetching(Solve(p, p, first), n, Pinned(p, want) \cup looks) EXCEPT !.edits = <<Set(Manifest(p), {first[1], first[Len(first)]})>>]

(* Overlapping ranges have one solution whatever the declaration order, found  *)
(* without downloading anything else; a lock stays what it is when a newer     *)
(* version would do.                                                           *)
Overlap == {<<"left", "1">>, <<"right", "1">>, <<"shared", "1">>}
Overlapping ==
    <<[Solved("overlap-a", <<"left", "right">>, {3}, Overlap, {}) EXCEPT !.said = {{3}}],
      [Solved("overlap-b", <<"right", "left">>, {3}, Overlap, {Alike(Lock("overlap-a"), Lock("overlap-b"))})
          EXCEPT !.said = {{3}}, !.keep = {Lock("overlap-a"), Modules("overlap-a")}],
      Summed(Frozen("overlap-a", "overlap-a"), Overlap, {0},
             {Same(Lock("overlap-a")), LinksTo(Modules("overlap-a"), Overlap), StillAimed(Modules("overlap-a"), {a[1] : a \in Overlap})}),
      [Accept(Publish(0), {}) EXCEPT !.edits = <<Set(Source(0), {Plain("shared", 3)})>>],
      [Summed(Frozen("fresh", "fresh"), Overlap, {3}, Pinned("fresh", Overlap) \cup {Alike(Lock("fresh"), Lock("overlap-a"))})
          EXCEPT !.edits = <<Copy(Manifest("fresh"), Manifest("overlap-a")), Copy(Lock("fresh"), Lock("overlap-a"))>>]>>

(* Backtracking may have downloaded the candidates it rejected; what they need *)
(* does not stay in the project.                                               *)
Backtracking ==
    <<[Solved("backtrack", <<"a", "b">>, 3..9, {<<"a", "2">>, <<"b", "1">>, <<"x", "2">>}, {}) EXCEPT !.said = {{3}}],
      Solved("chosen", <<"chooser", "force">>, AnyCount,
             {<<"chooser", "1">>, <<"force", "1">>, <<"replacement", "1">>, <<"stale", "2">>}, {NotThere("chosen", {"obsolete"})})>>

(* assert_no_project_mutation *)
Unmutated(p) == {Absent(Lock(p)), Absent(Modules(p)), NoLeaks(p)}
Unsolvable(p) == [Refuse(Install(p, p), Unmutated(p)) EXCEPT !.edits = <<Set(Manifest(p), {"unsat-left", "unsat-right"})>>]
Bounds == <<Unsolvable("unsat-a"), Unsolvable("unsat-b"),
            Solved("cycle", <<"cycle-a">>, AnyCount, {<<"cycle-a", "1">>, <<"cycle-b", "1">>}, {})>>

ConstraintSolver == <<Catalogued>> \o Overlapping \o Backtracking \o Bounds

-----------------------------------------------------------------------------
(* org_app_installs.py: two applications that share a home and a dependency of *)
(* their dependencies; prerequisites are published once, dependencies first.   *)
Prerequisite(s, entries) ==
    [Accept(Publish(s), {Has(Registry, entries)}) EXCEPT !.edits = <<Set(Source(s), entries)>>]
Polyglot == {Released(n, "v1", {"schema"}) : n \in {"poly-node", "poly-go"}}

Wires(p, names) == Has(Wiring(p), {<<n, "wired">> : n \in names})
Mounted(p, names) == {Linking(Modules(p), Lock(p)), Wires(p, names)}
Repaired(p, names, looks) == Summed(Wired(Frozen(p, "shared-home")), names, {0}, looks)
App(p, root, names) ==
    <<[Summed(Wired(Install(p, "shared-home")), names, AnyCount,
              Mounted(p, names) \cup {Named(Lock(p), {root}), Size(Lock(p), names), NoLeaks(p)})
          EXCEPT !.edits = <<Fresh(p, root)>>, !.tally = TRUE, !.keep = Tree(p)],
      Repaired(p, names, {Same(Lock(p)), Linking(Modules(p), Lock(p)), StillAimed(Modules(p), names)}),
      [Repaired(p, names, Mounted(p, names)) EXCEPT !.edits = <<Minus(Modules(p), {<<root, "v1", "link">>})>>],
      Accept(Wired(Uninstall(p, names)), {NotThere(p, names), Absent(Wiring(p)), Same(Lock(p)), Same(Manifest(p)), NoLeaks(p)}),
      Repaired(p, names, Mounted(p, names) \cup {NoLeaks(p)})>>
Apps == <<Prerequisite("schema", {Released("schema", "v1", {})}), Prerequisite("polyglot", Polyglot)>>
        \o App("node-app", "poly-node", {"poly-node", "schema"})
        \o App("go-app", "poly-go", {"poly-go", "schema"})
        \o <<Look({Spent({Lock("node-app"), Lock("go-app")})})>>

(* exercise_workspace: members are projected from their source, never locked or *)
(* downloaded; a copy stays what it was when its source is edited.             *)
Sources == {<<"utils", "v1">>, <<"core", "v1">>}
Siblings == {m[1] : m \in Sources}
Projected(p, mode) ==
    {Named(Modules(p), Siblings), Wires(p, Siblings)}
    \cup IF mode = "link" THEN {Has(Modules(p), Materialized(Sources, "link"))}
                          ELSE {TreesOf(Modules(p), Sources)}
Mode(c, mode) == IF mode = "copy" THEN Copied(c) ELSE c
Projection(p, mode) ==
    [Silent(Mode(Wired(Install(p, "shared-home")), mode), Projected(p, mode) \cup {Absent(Lock(p))})
        EXCEPT !.edits = <<Set(Manifest(p), Siblings), Set(Members(p), Sources)>>, !.keep = {Lock(p)}]
Reprojected(p, mode, looks) ==
    Silent(Mode(Wired(Frozen(p, "shared-home")), mode), Projected(p, mode) \cup looks \cup {Same(Lock(p))})
Withdrawn(p) == Accept(Wired(Uninstall(p, Siblings)),
                       {NotThere(p, Siblings), Absent(Wiring(p)), NoLeaks(p), Same(Lock(p))})
LinkedWorkspace ==
    <<Projection("live", "link"),
      Keep({Registry, Cache("shared-home")}),
      [Reprojected("live", "link", {Same(Registry), Same(Cache("shared-home"))}) EXCEPT !.edits = <<Set(Modules("live"), {})>>],
      [Refuse(Wired(Frozen("live", "shared-home")), Projected("live", "link") \cup {Same(Lock("live"))})
          EXCEPT !.edits = <<Set(Manifest("live"), {"core", "utils ^2"})>>],
      [Withdrawn("live") EXCEPT !.edits = <<Set(Manifest("live"), Siblings)>>],
      Reprojected("live", "link", {NoLeaks("live")})>>
CopiedWorkspace ==
    <<Projection("copy", "copy"),
      Look({Unlike(Modules("copy"), Materialized({<<"core", "v1">>}, "shared"))}),
      [Reprojected("copy", "copy", {Unlinked(Modules("copy"))}) EXCEPT !.edits = <<Minus(Modules("copy"), Materialized({<<"core", "v1">>}, "copy"))>>],
      Withdrawn("copy"),
      Reprojected("copy", "copy", {NoLeaks("copy"), Unlinked(Modules("copy"))})>>

AppInstalls == Apps \o LinkedWorkspace \o CopiedWorkspace
               \o <<Look({Size(Cache("shared-home"), {"poly-node", "poly-go", "schema"}), NoCacheStaging("shared-home")})>>
=============================================================================
