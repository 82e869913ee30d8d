----------------------------- MODULE ExportScripts -----------------------------
(* The scripts of oci_oras_push_contract.py, oci_plan_contract.py,             *)
(* oci_layout_contract.py,                                                     *)
(* nix_bundle_write_canary.py, nix_bundle_write_fixture_canary.py,             *)
(* mise_export_ownership_state.py, mise_export_boundaries.py and               *)
(* native_lifecycle.py.                                                        *)
EXTENDS SubmoduleScripts

Home == "unused"
Contents(p, lock) == {Index, <<p, "v1">>} \cup lock
Unfingered(p) == Absent(Checkout(p))          \* fingerprint(project) == before

-----------------------------------------------------------------------------
(* oci_oras_push_contract.py: every push is bracketed by the project's         *)
(* fingerprint, the temporary credentials and the password's absence from what *)
(* is printed; only the first is traced.  After a push the tag is resolved.    *)
Tagged == "node-lib"
SecretsKept == Unlike(Requests, {<<"printed", "password">>})
Traced == Unlike(Requests, {<<"opened", "credentials">>})
Laid(p, o) == Fetching(Export("layout", p, Home, o), {Created}, {Unfingered(p), Some(Out(o))})
AuthenticatedPush(p, o, options, n, looks) ==
    Fetching(Push(p, o, Tagged, {"auth"} \cup options), n, {Unfingered(p), Absent(Temps), SecretsKept} \cup looks)
RefusedPush(p, o, looks) ==
    [AuthenticatedPush(p, o, {}, AnyCount, looks) EXCEPT !.ok = FALSE]
Resolved(p) == Exactly(Tag(Tagged), Contents(p, {}))

FirstPush ==
    <<Edit(<<Set(Plan("first"), {<<"first", "v1">>})>>), Laid("first", "layout-a"),
      AuthenticatedPush("first", "layout-a", {}, {Created}, {Traced, Resolved("first")}),
      AuthenticatedPush("first", "layout-a", {}, {Unneeded}, {})>>
Replacement ==
    <<Edit(<<Set(Plan("second"), {<<"second", "v1">>})>>), Laid("second", "layout-b"),
      RefusedPush("second", "layout-b", {Resolved("first")}),
      AuthenticatedPush("second", "layout-b", {"replace"}, {Replaced}, {Resolved("second")})>>
RefusedPushes ==
    <<[RefusedPush("first", "tampered", {}) EXCEPT !.edits = <<Copy(Out("tampered"), Out("layout-a")), Plus(Out("tampered"), {Junk})>>],
      Refuse(Push("first", "layout-a", Tagged, {}), {Unfingered("first"), SecretsKept}),
      Refuse(Push("first", "layout-a", "ghcr.io", {"auth", "remote"}), {SecretsKept})>>
OciPush == FirstPush \o Replacement \o RefusedPushes

(* oci_plan_contract.py: a plan is printed, the same twice, and nothing else;  *)
(* a tag that is not the version, a chosen digest, a missing target and a lock *)
(* that does not answer the manifest are refused.                              *)
Uncredentialed == {Traced}
SuccessfulPlan(p, o, lock, looks) ==
    Accept(Export("print", p, Home, o), {Unfingered(p), Exactly(Shown(o), Contents(p, lock))} \cup looks)
FailedPlan(p, arg, edits) ==
    [Refuse([Export("print", p, Home, p) EXCEPT !.arg = arg], {Unfingered(p)}) EXCEPT !.edits = edits]
DeterministicPlan(p, lock, looks) ==
    <<[SuccessfulPlan(p, "one", lock, looks) EXCEPT !.edits = <<Set(Plan(p), {<<p, "v1">>}), Set(Lock(p), lock)>>],
      SuccessfulPlan(p, "two", lock, {Alike(Shown("one"), Shown("two"))})>>
LibraryLock == {<<"node-lib", "v1">>}
OciPlan ==
    DeterministicPlan("node-lib", {}, Uncredentialed)
    \o <<FailedPlan("node-lib", {"latest"}, <<>>), FailedPlan("node-lib", {"digest"}, <<>>), FailedPlan("polyglot-lib", {"untargeted"}, <<>>)>>
    \o DeterministicPlan("polyglot-lib", {}, {})
    \o <<FailedPlan("node-app", {}, <<Set(Manifest("node-app"), {"node-lib"})>>)>>
    \o DeterministicPlan("node-app", LibraryLock, {})
    \o <<FailedPlan("node-app", {}, <<Set(Lock("node-app"), {<<"node-lib", "v2">>})>>),
          FailedPlan("node-app", {}, <<Set(Lock("node-app"), {<<"node-lib", "V1">>})>>)>>

(* oci_layout_contract.py: two layouts of one project are the same, and what   *)
(* the plan says; an existing output stays.                                    *)
SuccessfulLayout(p, o, lock) ==
    Fetching(Export("layout", p, Home, o), {Created}, {Unfingered(p), Exactly(Out(o), Contents(p, lock))})
PlannedAgain(p, o) == Accept(Export("print", p, Home, p), {Alike(Shown(p), Out(o))})
OneLayout(p, lock) ==
    <<Edit(<<Set(Plan(p), {<<p, "v1">>}), Set(Manifest(p), {a[1] : a \in lock}), Set(Lock(p), lock)>>),
      SuccessfulLayout(p, p, lock), PlannedAgain(p, p)>>
OciLayout ==
    <<Edit(<<Set(Plan("node-lib"), {<<"node-lib", "v1">>})>>),
      SuccessfulLayout("node-lib", "node-layout-a", {}),
      [SuccessfulLayout("node-lib", "node-layout-b", {})
          EXCEPT !.looks = @ \cup {Alike(Out("node-layout-a"), Out("node-layout-b"))}],
      PlannedAgain("node-lib", "node-layout-a"),
      [Edit(<<Set(Out("existing"), {<<"keep", "v1">>})>>) EXCEPT !.keep = {Out("existing")}],
      Refuse(Export("layout", "node-lib", Home, "existing"), {Has(Out("existing"), {<<"keep", "v1">>}), Unfingered("node-lib")})>>
    \o OneLayout("polyglot-lib", {}) \o OneLayout("node-app", LibraryLock)

-----------------------------------------------------------------------------
(* nix_bundle_write_canary.py: written once, found current, never rewritten by *)
(* Nix, refused with an unknown option, behind a linked parent or once edited. *)
Bundle(p, o) == Export("bundle", p, Home, o)
AssertBundle(p, o) == Exactly(Out(o), Contents(p, {}))
BundleWrites ==
    <<[Fetching(Bundle("dataset", "flake"), {Created}, {AssertBundle("dataset", "flake"), Unfingered("dataset"), Absent(Cache(Home))})
          EXCEPT !.edits = <<Set(Plan("dataset"), {<<"dataset", "v1">>})>>, !.keep = {Out("flake")}],
      Fetching(Bundle("dataset", "flake"), {Unneeded}, {Same(Out("flake"))}),
      Accept(Export("realise", "dataset", Home, "flake"), {}),
      Accept(Export("realise", "dataset", Home, "flake"), {Same(Out("flake"))}),
      Fetching(Bundle("dataset", "environment"), {Created}, {AssertBundle("dataset", "environment")})>>
BundleRefusals ==
    <<Refuse([Bundle("dataset", "unknown") EXCEPT !.arg = {"unknown"}], {Absent(Out("unknown"))}),
      [Refuse(Bundle("dataset", "linked"), {Absent(Out("linked"))}) EXCEPT !.edits = <<Set(Unwritable("linked"), {"symlink"})>>],
      [Edit(<<Minus(Out("flake"), {Index}), Plus(Out("flake"), {<<"index", "tampered">>})>>) EXCEPT !.keep = {Out("flake")}],
      Refuse(Bundle("dataset", "flake"), {Has(Out("flake"), {<<"index", "tampered">>})})>>
NixBundle == BundleWrites \o BundleRefusals

(* nix_bundle_write_fixture_canary.py: two copies of a fixture in different    *)
(* places give the same bundle; copies and fixture stay as they are.           *)
Twins == {"first", "second"}
NixFixture ==
    <<Edit(<<Set(Plan("first"), {<<"lib", "v1">>}), Set(Plan("second"), {<<"lib", "v1">>})>>),
      Fetching(Bundle("first", "first"), {Created}, {}),
      Fetching(Bundle("second", "second"), {Created},
               UNION {{Exactly(Out(p), Contents("lib", {})), Unfingered(p)} : p \in Twins}
               \cup {Alike(Out("first"), Out("second")), Absent(Cache(Home))})>>

-----------------------------------------------------------------------------
(* mise_export_ownership_state.py: an output belongs to the plan it came from, *)
(* and neither it nor a wrong record of it is ever overwritten.  The reserved  *)
(* plan lies where the record would be.                                        *)
Mise(plan, o) == Export("owned", plan, Home, o)
Planned(plan) == <<Set(Plan(plan), {<<"tools", "v1">>})>>
OwnedStays(o) == {Same(Out(o)), Same(Owner(o))}
MiseOwnership ==
    <<[Refuse(Mise("state", "reserved"), {Exactly(Plan("state"), {<<"tools", "v1">>}), Absent(Out("reserved")), Absent(Owner("reserved"))})
          EXCEPT !.edits = Planned("state") \o <<Set(Unwritable("reserved"), {"the plan"})>>],
      [Fetching(Mise("plan-one", "project"), {Created}, {Some(Out("project")), Some(Owner("project"))})
          EXCEPT !.edits = Planned("plan-one") \o Planned("plan-two"), !.keep = {Out("project"), Owner("project")}],
      Refuse(Mise("plan-two", "project"), OwnedStays("project")),
      [Edit(<<Set(Owner("project"), {<<"plan-one", "stale">>})>>) EXCEPT !.keep = {Owner("project")}],
      Refuse(Mise("plan-one", "project"), OwnedStays("project"))>>

(* mise_export_boundaries.py *)
OwnedProject ==
    <<[Accept(Export("print", "owned", Home, "owned"), {Some(Shown("owned")), Unfingered("owned"), Absent(Out("owned")), Absent(Owner("owned"))})
          EXCEPT !.edits = Planned("owned")],
      Fetching(Mise("owned", "owned"), {Created}, {Some(Out("owned")), Some(Owner("owned"))}),
      Accept(Export("check", "owned", Home, "owned"), {}),
      Fetching(Mise("owned", "owned"), {Unneeded}, {}),
      [Refuse(Mise("owned", "owned"), {Exactly(Out("owned"), {<<"hand", "edit">>})})
          EXCEPT !.edits = <<Set(Out("owned"), {<<"hand", "edit">>})>>]>>
HandAuthored ==
    <<[Refuse(Mise("unowned", "unowned"),
              {Exactly(Out("unowned"), {<<"hand", "made">>}), Absent(Owner("unowned")), Exactly(Plan("unowned"), {<<"tools", "v1">>})})
          EXCEPT !.edits = Planned("unowned") \o <<Set(Out("unowned"), {<<"hand", "made">>})>>],
      [Accept(Mise("nested", "nested"), {Some(Out("nested"))}) EXCEPT !.edits = Planned("nested")]>>
MisePaths ==
    <<[Refuse(Mise("boundaries", "reserved"), {Exactly(Plan("boundaries"), {<<"tools", "v1">>})})
          EXCEPT !.edits = Planned("boundaries") \o <<Set(Unwritable("reserved"), {"reserved"})>>],
      [Refuse(Export("print", "nested-secret", Home, "nested-secret"), {Absent(Out("nested-secret"))})
          EXCEPT !.edits = <<Set(Plan("nested-secret"), {<<"secret", "api_token">>})>>],
      [Refuse(Export("print", "tool-secret", Home, "tool-secret"), {})
          EXCEPT !.edits = <<Set(Plan("tool-secret"), {<<"secret", "password">>})>>],
      [Refuse(Mise("symlink", "symlink"), {Absent(Out("symlink")), Absent(Owner("symlink"))})
          EXCEPT !.edits = Planned("symlink") \o <<Set(Unwritable("symlink"), {"state"})>>]>>
MiseBoundaries == OwnedProject \o HandAuthored \o MisePaths

-----------------------------------------------------------------------------
(* native_lifecycle.py: nothing runs before all three consents; then hooks and *)
(* build run once, in order, and a second install asks the manager again only. *)
Consumer == "consumer"
Apt(consents) == NativeInstall(Consumer, "zed-home", "apt", consents)
Quiet(p) == Absent(Calls(p))
HooksRan(p) == Exactly(Hooks(p), Lifecycle)
DeniedInstalls ==
    <<Refuse(Apt({}), {Quiet(Consumer), Absent(Hooks(Consumer)), Absent(Modules(Consumer))}),
      Refuse(Apt({"deps"}), {Quiet(Consumer)}), Refuse(Apt({"deps", "hooks"}), {Quiet(Consumer)})>>
AllowedInstalls ==
    <<Accept(Apt(Consents), {Exactly(Calls(Consumer), {1}), HooksRan(Consumer), Named(Modules(Consumer), {"native-a"}),
                             Unlike(Cache("zed-home"), {<<"native-a", "written to">>}), Has(Cache("zed-home"), {<<"native-a", "apt">>})}),
      Accept(Apt(Consents), {HooksRan(Consumer), Exactly(Calls(Consumer), {1, 2})})>>
(* Inside a Nix build the natives must be acknowledged as provided. *)
InNix(consents) == NativeInstall("nix-consumer", "zed-home", "nix", consents)
NixInstalls ==
    <<Refuse(InNix(Consents), {Quiet("nix-consumer")}),
      Accept(InNix(Consents \cup {"provided"}), {Quiet("nix-consumer"), HooksRan("nix-consumer")})>>
NativeLifecycle == DeniedInstalls \o AllowedInstalls \o NixInstalls
=============================================================================
