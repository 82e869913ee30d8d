---------------------------- MODULE PublishScripts ----------------------------
(* The scripts of lifecycle.py and publication_immutability.py.                *)
EXTENDS InstallScripts

Released(n, body, needs) == Entry(n, 1, body, needs)
Registered(n) == Has(Registry, {Released(n, "v1", {})})
GitClean(s) == Absent(Checkout(s))

(* remove_transient_pack_outputs: only the archives publish is known to leave  *)
(* may be untracked, and they are removed.                                     *)
CleanedUp(s, n) == <<Look({Within(Checkout(s), Locked({n}))}),
                     [Look({GitClean(s)}) EXCEPT !.edits = <<Minus(Checkout(s), Locked({n}))>>]>>

(* publish_prerequisite: a dependency is published from its clone, once. *)
Seeded(n) == <<Accept(Publish(n), {Has(Registry, {Released(n, "v1", {})})})>> \o CleanedUp(n, n)

(* run_unit: two packs alike, r2g and dry run leave the registry alone, publish *)
(* is idempotent.                                                              *)
Rehearsals(u, needs) ==
    <<[Accept(Rehearse(u), {}) EXCEPT !.edits = <<Set(Source(u), {Released(u, "v1", needs)})>>],
      Accept(Pack(u, "a"), {}),
      Accept(Pack(u, "b"), {Some(Out("a")), Alike(Out("a"), Out("b"))}),
      Keep({Registry}),
      Accept(Rehearse(u), {Same(Registry)}),
      Accept(Rehearse(u), {Same(Registry)}),
      [Accept(Publish(u), {Has(Registry, {Released(u, "v1", needs)})}) EXCEPT !.keep = {Registry}],
      Accept(Publish(u), {Same(Registry)})>>

(* exercise_consumer: fresh projects with homes of their own; a yank blocks new *)
(* resolution and not a lock that exists.                                      *)
Fresh(p, u) == Set(Manifest(p), {u})
Locking(p) == <<Copy(Manifest(p), Manifest("cold")), Copy(Lock(p), Lock("cold"))>>
CopyInstall(p, u) == {Some(Lock(p)), Named(Modules(p), {u}), Unlinked(Modules(p))}
ColdInstall(p, u) == [Accept(Copied(Install(p, p)), CopyInstall(p, u)) EXCEPT !.edits = <<Fresh(p, u)>>]
Consumers(u) ==
    <<ColdInstall("cold", u),
      [Accept(Copied(Frozen("replayed", "replayed")), CopyInstall("replayed", u) \cup {Alike(Lock("replayed"), Lock("cold"))})
          EXCEPT !.edits = Locking("replayed")],
      Accept(Yank(u), {}),
      [Refuse(Copied(Install("blocked", "blocked")), {}) EXCEPT !.edits = <<Fresh("blocked", u)>>],
      [Accept(Copied(Frozen("yanked", "yanked")), CopyInstall("yanked", u)) EXCEPT !.edits = Locking("yanked")],
      Accept(Unyank(u), {}),
      ColdInstall("restored", u)>>

Unit(u, needs) == Rehearsals(u, needs) \o Consumers(u) \o CleanedUp(u, u)

(* run_package_contract of a fixture with one dependency in another repository. *)
PackageLifecycle ==
    <<[Look({GitClean("unit")}) EXCEPT !.edits = <<Set(Source("dep"), {Released("dep", "v1", {})})>>]>>
    \o Seeded("dep") \o Unit("unit", {"dep"})

(* run_non_package_contract: every command fails closed and writes nothing. *)
NonPackage ==
    <<Keep({Registry}), Refuse(Rehearse("none"), {}), Refuse(Pack("none", "negative"), {}), Refuse(Rehearse("none"), {}),
      Refuse(Rehearse("none"), {}), Refuse(Publish("none"), {Same(Registry), GitClean("none")})>>

-----------------------------------------------------------------------------
(* publication_immutability.py: run_contract, on copies of the fixture. *)
Publication ==
    <<[Accept(Publish("source"), {Has(Registry, {Released("lib", "v1", {})})})
          EXCEPT !.edits = <<Set(Source("source"), {Released("lib", "v1", {})})>>, !.keep = {Registry}],
      Accept(Publish("source"), {Same(Registry)}),
      [Accept(Pack("mutated", "mutated"), {Some(Out("mutated")), Beyond(Out("mutated"), {<<"lib", "v1">>})})
          EXCEPT !.edits = <<Set(Source("mutated"), {Released("lib", "v2", {})})>>],
      Refuse(Publish("mutated"), {Same(Registry), GitClean("fixture")})>>
=============================================================================
