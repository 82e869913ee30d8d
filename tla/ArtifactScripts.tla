---------------------------- MODULE ArtifactScripts ---------------------------
(* The scripts of frozen_fetch_canary.py with frozen_fetch_output_boundaries.py *)
(* after it, install_boundary_canaries.py, publish_ignore_union.py and         *)
(* verify_zed_cli_graph_github_production.py.                                  *)
EXTENDS PublishScripts

Tree(p) == {Manifest(p), Lock(p), Modules(p)}
Unchanged(p) == {Same(l) : l \in Tree(p)}
Resolver(o) == Fetch("consumer", "fetch-home", o)

(* A normal install writes the lock; what it installed is removed again. *)
FetchInput ==
    <<[Accept(Publish("fixture"), {GitClean("fixture"), Registered("fixture")})
          EXCEPT !.edits = <<Set(Ignored("fixture"), {"archives"}), Set(Source("fixture"), {Released("fixture", "v1", {})})>>],
      [Accept(Copied(Install("consumer", "install-home")), {Size(Lock("consumer"), {"fixture"}), Named(Modules("consumer"), {"fixture"})})
          EXCEPT !.edits = <<Set(Manifest("consumer"), {"fixture"})>>, !.keep = {Lock("consumer")}],
      [Accept(Uninstall("consumer", {"fixture"}), {Same(Lock("consumer")), Absent(Modules("consumer"))})
          EXCEPT !.keep = Tree("consumer")]>>

(* Two fetches from the lock alone are alike and touch neither project nor home. *)
TwoFetches ==
    <<[Accept(Resolver("first"), {}) EXCEPT !.edits = <<Set(Cache("install-home"), {})>>],
      Accept(Resolver("second"), Unchanged("consumer") \cup {Alike(Out("first"), Out("second")), Absent(Cache("fetch-home")),
                                  Exactly(Out("first"), {Index} \cup Locked({"fixture"}))})>>

FetchRefusals ==
    <<[Refuse(Fetch("spoiled", "fetch-home", "spoiled"), {Absent(Out("spoiled"))})
          EXCEPT !.edits = <<Copy(Manifest("spoiled"), Manifest("consumer")), Set(Lock("spoiled"), {<<"fixture", "1">>})>>],
      [Refuse(Resolver("existing"), {Has(Out("existing"), {<<"owned", "owned">>})})
          EXCEPT !.edits = <<Set(Out("existing"), {<<"owned", "owned">>})>>],
      Refuse(Fetch("lockless", "fetch-home", "lockless"), {Absent(Out("lockless"))}),
      [Accept(Fetch("empty", "fetch-home", "empty"), {Exactly(Out("empty"), {Index}), Absent(Temps), GitClean("fixture")})
          EXCEPT !.edits = <<Set(Lock("empty"), {})>>]>>

(* frozen_fetch_output_boundaries.py: a missing parent, a file as parent, a    *)
(* parent that leads into the project.                                         *)
Bounded(o, looks) ==
    [Refuse(Fetch("consumer", "boundary-home", o), looks \cup {Absent(Out(o))}) EXCEPT !.edits = <<Set(Unwritable(o), {"parent"})>>]
OutputBoundaries ==
    <<Keep(Tree("consumer")), Bounded("missing", {}), Bounded("file", {}),
      Bounded("redirect", Unchanged("consumer") \cup {Absent(Cache("boundary-home")), Absent(Temps)})>>

FrozenFetch == FetchInput \o TwoFetches \o FetchRefusals \o OutputBoundaries

-----------------------------------------------------------------------------
(* install_boundary_canaries.py, for one of its two ecosystems. *)
Nowhere == "nowhere"

(* Links work while the store is mounted, and only then. *)
SymlinkControl ==
    <<[Accept(Publish("lib"), {Some(Registry)}) EXCEPT !.edits = <<Set(Source("lib"), {Released("lib", "v1", {})})>>],
      [Accept(Install("linked", "link-home"), {Linked("linked", {"lib"})}) EXCEPT !.edits = <<Fresh("linked", "lib")>>],
      [Accept(Use("linked", "link-home"), {}) EXCEPT !.edits =
          <<Copy(Lock("detached"), Lock("linked")), Copy(Modules("detached"), Modules("linked"))>>],
      Refuse(Use("detached", Nowhere), {})>>

(* Two frozen copies are alike, independent of the store and of each other. *)
FrozenCopy(p) ==
    [Accept(Copied(Frozen(p, p)), {Alike(Lock(p), Lock("seed"))})
        EXCEPT !.edits = <<Fresh(p, "lib"), Copy(Lock(p), Lock("seed"))>>]
CopyContract ==
    <<[Accept(Copied(Install("seed", "seed")), {}) EXCEPT !.edits = <<Fresh("seed", "lib")>>],
      FrozenCopy("one"), FrozenCopy("two"),
      [Look(Copies("one", {"lib"}) \cup Copies("two", {"lib"})
            \cup {Exactly(Cache("one"), Locked({"lib"})), Unlike(Modules("one"), Materialized(Locked({"lib"}), "shared"))})
          EXCEPT !.keep = {Cache("one"), Modules("two")}],
      [Look({Same(Cache("one")), Same(Modules("two"))}) EXCEPT !.edits =
          <<Plus(Modules("one"), {<<"lib", "mutated", "copy">>})>>]>>

(* The image is built when registry and homes are gone, and runs before and    *)
(* after a round trip through an archive.                                      *)
ImageOf(i, p) == <<Copy(Lock(i), Lock(p)), Copy(Modules(i), Modules(p))>>
BuildAndRoundTrip ==
    <<Edit(<<Set(Registry, {})>> \o [i \in 1..4 |-> Set(Cache(<<"link-home", "seed", "one", "two">>[i]), {})]),
      [Accept(Use("image", Nowhere), {}) EXCEPT !.edits = ImageOf("image", "one")],
      [Accept(Use("imported", Nowhere), {Alike(Modules("image"), Modules("imported"))})
          EXCEPT !.edits = ImageOf("imported", "image")]>>

InstallBoundaries == SymlinkControl \o CopyContract \o BuildAndRoundTrip

-----------------------------------------------------------------------------
(* publish_ignore_union.py: what a package holds, and whether the client warns *)
(* that manifest and .zedignore both have rules; within one of them the last   *)
(* rule decides, between them exclusion wins.                                  *)
Ruled(s, rules, files, warnings, present, absent) ==
    [Fetching(Pack(s, s), {warnings}, {Named(Out(s), present), Lacks(Out(s), absent)})
        EXCEPT !.edits = <<Set(Source(s), {Released(s, "v1", {})}), Set(Files(s), files), Set(Rules(s), rules)>>]
Drop(by, file) == Rule(by, 1, file, FALSE)
Readd(by, file) == Rule(by, 2, file, TRUE)
OneSource ==
    <<Ruled("ignore-only", {Drop("ignore", "env"), Drop("ignore", "hidden")}, {"keep", "env", "hidden"}, 0, {"keep"}, {"env", "hidden"}),
      Ruled("manifest-only", {Drop("manifest", "dropped")}, {"keep", "dropped"}, 0, {"keep"}, {"dropped"}),
      Ruled("manifest-negation", {Drop("manifest", "scratch"), Readd("manifest", "scratch")}, {"scratch"}, 0, {"scratch"}, {}),
      Ruled("ignore-negation", {Drop("ignore", "scratch"), Readd("ignore", "scratch")}, {"scratch"}, 0, {"scratch"}, {})>>
BothSources ==
    <<Ruled("union", {Drop("manifest", "one"), Drop("ignore", "two")}, {"keep", "one", "two"}, 1, {"keep"}, {"one", "two"}),
      Ruled("sorted-conflict", {Drop("manifest", "dist"), Drop("manifest", "cache"), Readd("ignore", "dist"), Readd("ignore", "cache")},
            {"dist", "cache"}, 1, {}, {"dist", "cache"}),
      Ruled("reverse-conflict", {Readd("manifest", "secret"), Drop("ignore", "secret")}, {"secret"}, 1, {}, {"secret"}),
      [Refuse(Pack("invalid-glob", "invalid-glob"), {}) EXCEPT !.edits =
          <<Set(Source("invalid-glob"), {Released("invalid-glob", "v1", {})}), Set(Rules("invalid-glob"), {Drop("ignore", "broken")})>>]>>
IgnoreUnion == OneSource \o BothSources

-----------------------------------------------------------------------------
(* verify_zed_cli_graph_github_production.py, against its fake server.         *)
Formats == <<"json", "dot", "mermaid">>
Sound(f, o) == {Lacks(Out(o), {"secret"})}
               \cup IF f = "json" THEN {Has(Out(o), {<<"state", "complete">>, <<"cycle", "a-b">>}),
                                        Unlike(Out(o), {<<"edge", "pin">>, <<"edge", "root-shared">>})}
                                  ELSE {Has(Out(o), {<<"pin", "shared">>}), Unlike(Out(o), {<<"edge", "pin">>})}
Scan(f, n) == <<f, n>>
TwoScans(f) ==
    <<Accept(Graph("whole", Scan(f, 1)), {}),
      Accept(Graph("whole", Scan(f, 2)), {Alike(Out(Scan(f, 1)), Out(Scan(f, 2)))} \cup Sound(f, Scan(f, 1)))>>
Cut == Scan("truncated", 1)
GraphProduction ==
    TwoScans("json") \o TwoScans("dot") \o TwoScans("mermaid")
    \o <<Refuse(Graph("elsewhere", Scan("cross-origin", 1)), {}), Refuse(Graph("moved", Scan("redirect", 1)), {}),
         Refuse(Graph("cut", Cut), {Has(Out(Cut), {<<"state", "partial">>}), Named(Out(Cut), {"failure"}),
                                            Unlike(Out(Cut), {<<"edge", "pin">>, <<"edge", "root-shared">>})}),
         Look({Exactly(Requests, {<<"token", "path">>})})>>
=============================================================================
