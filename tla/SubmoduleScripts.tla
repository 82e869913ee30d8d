---------------------------- MODULE SubmoduleScripts ---------------------------
(* The scripts of git_submodule_interop.py, git_submodule_global_mode.py and   *)
(* git_submodule_pack.py.                                                      *)
EXTENDS ConsumerScripts

(* build_fixture_graph: a root with a package as submodule, which has one of   *)
(* its own; git clone copies what is recorded and checks no submodule out.     *)
Client == Gitlink("client", "client", "zed")
Nested == Gitlink("client/schema", "schema", "plain")
Legacy == Gitlink("legacy", "legacy", "plain")
Checked(links) == {<<g.path, g.body>> : g \in links}
Cloned(p, links) == <<Set(Gitlinks(p), links), Set(Source(p), {Released(p, "v1", {})})>>
Recloned(p, q) == <<Copy(Gitlinks(p), Gitlinks(q)), Copy(Manifest(p), Manifest(q)), Copy(Lock(p), Lock(q))>>
Uninitialized(p) == Absent(Vendor(p))
Initialized(p, links) == Has(Vendor(p), Checked(links))

OnClone(p, links, c, looks) == [Accept(c, looks) EXCEPT !.edits = Cloned(p, links)]
Cooperative ==
    <<OnClone("disabled", {Client, Nested}, Install("disabled", "disabled"), {Uninitialized("disabled")}),
      OnClone("cooperative", {Client, Nested}, Recursing(Install("cooperative", "cooperative")),
              {Initialized("cooperative", {Client, Nested})})>>

(* A takeover writes dependency, member and lock; a fresh clone replays it, and*)
(* refuses when the submodule or what is recorded of it has changed.           *)
Adoption(p) == {Has(Manifest(p), {"client"}), Named(Members(p), {"client"}), Exactly(Lock(p), {<<"client", "c1">>}),
                Named(Modules(p), {"client"})}
ReplayedFrom(p, q, looks) ==
    [Accept(Recursing(Frozen(p, p)), {Same(Lock(p)), Named(Modules(p), {"client"})} \cup looks)
        EXCEPT !.edits = Recloned(p, q)]
DriftRefused(p, edits) == [Refuse(Recursing(Frozen(p, p)), {Same(Lock(p))}) EXCEPT !.edits = edits]
Takeover ==
    <<OnClone("adopted", {Client, Nested}, Recursing(Overtake("adopted")), Adoption("adopted")),
      [Edit(<<Copy(Lock("frozen"), Lock("adopted"))>>) EXCEPT !.keep = {Lock("frozen")}],
      ReplayedFrom("frozen", "adopted", {Initialized("frozen", {Nested})}),
      DriftRefused("frozen", <<Minus(Vendor("frozen"), Checked({Client})), Plus(Vendor("frozen"), {<<"client", "dirty">>})>>),
      DriftRefused("frozen", <<Minus(Vendor("frozen"), {<<"client", "dirty">>}), Plus(Vendor("frozen"), Checked({Client})),
                               Minus(Gitlinks("frozen"), {Client}), Plus(Gitlinks("frozen"), {[Client EXCEPT !.body = "c1 alternate"]})>>)>>

(* Ordinary submodules stay with Git: never adopted, and always checked out. *)
Mixed ==
    <<OnClone("mixed", {Client, Legacy}, Recursing(Overtake("mixed")),
              Adoption("mixed") \cup {Lacks(Members("mixed"), {"legacy"}), Initialized("mixed", {Legacy})}),
      [Edit(Recloned("mixed-frozen", "mixed")) EXCEPT !.keep = {Manifest("mixed-frozen"), Lock("mixed-frozen")}],
      ReplayedFrom("mixed-frozen", "mixed", {Same(Manifest("mixed-frozen")), Initialized("mixed-frozen", {Client, Legacy})})>>

(* assert_no_install_state, after a takeover that has nothing to adopt, an     *)
(* invalid package or one whose dependency does not exist; in the last case    *)
(* with and without a manifest of the root.                                    *)
NoInstallState(p) == {Absent(Lock(p)), Absent(Modules(p)), NoLeaks(p)}
Rejected(p, kind, direct, looks) ==
    [Refuse(Recursing(Overtake(p)), {Exactly(Manifest(p), direct)} \cup NoInstallState(p) \cup looks)
        EXCEPT !.edits = Cloned(p, {Gitlink("sub", "sub", kind)}) \o <<Set(Manifest(p), direct)>>]
Boundaries ==
    <<Rejected("git-only", "plain", {"own"}, {Initialized("git-only", {Gitlink("sub", "sub", "plain")})}),
      Rejected("invalid", "invalid", {"own"}, {}), Rejected("existing", "broken", {"own"}, {}),
      Rejected("generated", "broken", {}, {})>>

SubmoduleInterop == Cooperative \o Takeover \o Mixed \o Boundaries

-----------------------------------------------------------------------------
(* git_submodule_global_mode.py: the switch as a prefix, a suffix and in the   *)
(* environment; an explicit choice wins.                                       *)
Switched(p, c, look) == OnClone(p, {Client, Nested}, c, {look})
InstallSwitch ==
    <<Switched("default-off", Install("default-off", "default-off"), Uninitialized("default-off")),
      Switched("prefix-on", Recursing(Install("prefix-on", "prefix-on")), Initialized("prefix-on", {Client, Nested})),
      Switched("suffix-off", Install("suffix-off", "suffix-off"), Uninitialized("suffix-off")),
      Switched("environment-on", Recursing(Install("environment-on", "environment-on")),
               Initialized("environment-on", {Client, Nested}))>>
Steady(p) == {Same(Manifest(p)), Same(Lock(p))}
OvertakeSwitch ==
    <<[OnClone("overtaken", {Client, Nested}, Recursing(Overtake("overtaken")),
               {Initialized("overtaken", {Client, Nested}), Has(Manifest("overtaken"), {"client"}),
                Named(Members("overtaken"), {"client"}), Exactly(Lock("overtaken"), {<<"client", "c1">>})})
          EXCEPT !.keep = {Manifest("overtaken"), Lock("overtaken")}],
      Accept(Recursing(Overtake("overtaken")), Steady("overtaken")),
      Accept(Recursing(Overtake("overtaken")), Steady("overtaken")),
      Refuse(Overtake("overtaken"), Steady("overtaken"))>>
SubmoduleMode == InstallSwitch \o OvertakeSwitch

-----------------------------------------------------------------------------
(* git_submodule_pack.py: an included submodule must be checked out as recorded,*)
(* an excluded one need not be; the archive holds no version control files.    *)
NoArchives(o) == Absent(Out(o))
NoVcsMetadata(o) == Lacks(Out(o), {".git"})
Unpackable(p) == [Refuse(Pack(p, p), {NoArchives(p)}) EXCEPT !.edits = Cloned(p, {Client, Nested})]
Uninitialised == <<Unpackable("uninitialized"), Refuse(Rehearse("uninitialized"), {GitClean("uninitialized")})>>
Embedding ==
    <<OnClone("initialized", {Client, Nested}, Recursing(Install("initialized", "initialized")),
              {Initialized("initialized", {Client, Nested})}),
      Accept(Pack("initialized", "embedded"),
             {Has(Out("embedded"), {<<"initialized", "v1">>} \cup Checked({Client, Nested})), NoVcsMetadata("embedded")}),
      Accept(Rehearse("initialized"), {})>>
Dirtied(g, o) ==
    <<[Refuse(Pack("initialized", o), {NoArchives(o)})
          EXCEPT !.edits = <<Minus(Vendor("initialized"), Checked({g})), Plus(Vendor("initialized"), {<<g.path, "dirty">>})>>],
      Edit(<<Set(Vendor("initialized"), Checked({Client, Nested}))>>)>>
Omitting(p) ==
    [Accept(Pack(p, p), {Some(Out(p)), Lacks(Out(p), {"client", "client/schema"}), NoVcsMetadata(p)})
        EXCEPT !.edits = Cloned(p, {Client, Nested}) \o <<Set(Excluded(p), {"client", "client/schema"})>>]
SubmodulePack ==
    Uninitialised \o Embedding \o Dirtied(Client, "dirty-top") \o Dirtied(Nested, "dirty-nested")
    \o <<Omitting("publish-excluded"), Omitting("zedignore-excluded"), Unpackable("dot-excluded"), Unpackable("absolute-excluded")>>
=============================================================================
