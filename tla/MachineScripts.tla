---------------------------- MODULE MachineScripts ----------------------------
(* The scripts of global_package_profile_canary.py, canonical_task_canary.py,  *)
(* github_r2_fallback.py, terminal_context_acceptance.py,                      *)
(* nix_export_plan_canary.py, mise_environment.py and mise_frozen_identity.py. *)
EXTENDS ExportScripts

(* global_package_profile_canary.py: two packages with one command.  The second*)
(* is refused; the first comes back from the store alone, without a registry;  *)
(* a command that the user replaced stays when the package goes.               *)
Fixture(n) == Entry(n, 1, "v1", {})
Invokes(b, n) == Exactly(Bin(b), {<<n, "launcher">>})
NoProfile(p) == {Absent(Lock(p)), Absent(Modules(p))}
Alpha(do) == Global(do, "alpha", "profile-home", "bin", "alpha")
CleanAlpha(do) == Global(do, "clean-alpha", "clean-home", "clean-bin", "alpha")
FirstProfile ==
    <<[Accept(Alpha("global"), {Invokes("bin", "alpha")}) EXCEPT !.edits = <<Set(Registry, {Fixture("alpha"), Fixture("beta")})>>],
      Accept(Alpha("list"), {Has(Shown("profile-home"), {<<"alpha", "v1">>, <<"alpha", "launcher">>})}),
      Refuse(Global("global", "beta", "profile-home", "bin", "beta"), NoProfile("beta") \cup {Invokes("bin", "alpha")}),
      [Accept(Alpha("regain"), {Invokes("bin", "alpha")})
          EXCEPT !.edits = <<Set(Modules("alpha"), {}), Set(Bin("bin"), {}), Set(Registry, {})>>],
      [Fetching(Alpha("drop"), {1}, NoProfile("alpha") \cup {Exactly(Bin("bin"), {<<"user", "replacement">>})})
          EXCEPT !.edits = <<Set(Bin("bin"), {<<"user", "replacement">>})>>]>>
SecondProfile ==
    <<[Accept(CleanAlpha("global"), {Invokes("clean-bin", "alpha")}) EXCEPT !.edits = <<Set(Registry, {Fixture("alpha")})>>],
      Accept(CleanAlpha("drop"), NoProfile("clean-alpha") \cup {Absent(Bin("clean-bin"))}),
      Look({Unlike(Requests, {<<"written", "credentials">>})})>>
GlobalProfile == FirstProfile \o SecondProfile

-----------------------------------------------------------------------------
(* canonical_task_canary.py: the same tasks through zed and through zed-task.  *)
Binaries == <<"zed", "zed-task">>
TaskPlan == <<Set(Plan("tasks"), {<<n, "task">> : n \in {"prepare", "build", "args", "copy", "release"}}),
              Set(Plan("build"), {<<"1", "prepare">>, <<"2", "hello">>}), Set(Plan("args"), {<<"hello", "world">>}),
              Set(Plan("release"), {<<"release", "done">>}), Set(Files("copy"), {<<"input", "one">>})>>
Parity(query) == <<Accept(Ask("zed", query), {}), Accept(Ask("zed-task", query), {Alike(Shown("zed"), Shown("zed-task"))})>>
JsonParity == Parity("list") \o Parity("info") \o Parity("graph") \o Parity("dry run")
              \o <<Accept(Ask("zed", "list"), {Has(Shown("zed"), {<<"build", "task">>})})>>
TaskExecution == <<Fetching(Task("zed", "build", {}), {Created}, {Exactly(Out("build"), {<<"1", "prepare">>, <<"2", "hello">>})})>>
TaskArguments == [i \in 1..2 |-> [Accept(Task(Binaries[i], "args", {}), {Exactly(Out("args"), {<<"hello", "world">>})})
                                     EXCEPT !.edits = <<Set(Out("args"), {})>>]]
ContentCache ==
    <<Fetching(Task("zed", "copy", {}), {Created}, {Exactly(Out("copy"), {<<"input", "one">>})}),
      Fetching(Task("zed", "copy", {}), {Unneeded}, {}),
      [Fetching(Task("zed", "copy", {}), {Created}, {Exactly(Out("copy"), {<<"input", "two">>}), Some(Cache("tasks")), Unlike(Cache("tasks"), {Junk})})
          EXCEPT !.edits = <<Set(Files("copy"), {<<"input", "two">>})>>]>>
FailClosed(tool) == <<Refuse(Task(tool, "build", {"zero jobs"}), {}), Refuse(Task(tool, "build", {"live json"}), {}),
                      Refuse(Task(tool, "release", {"unconfirmed"}), {})>>
Confirmation == <<Look({Absent(Out("release"))}), Accept(Task("zed", "release", {}), {Some(Out("release"))})>>
CanonicalTasks == <<Edit(TaskPlan)>> \o JsonParity \o TaskExecution \o TaskArguments \o ContentCache
                  \o FailClosed("zed") \o FailClosed("zed-task") \o Confirmation

-----------------------------------------------------------------------------
(* github_r2_fallback.py: a locked package restored from the owned registry,   *)
(* then without it from R2, then without that through the proxy of GitHub; the *)
(* logs of the servers tell who was asked, and in which order.                 *)
Canary == <<"fallback-canary", "v1">>
Upstreams(registry) == <<registry, "r2", "github">>
Payload == Named(Modules("fallback"), {"fallback-canary"})
FirstInstall ==
    <<[Accept(Publish("fallback-canary"), {Has(Registry, {Fixture("fallback-canary")})})
          EXCEPT !.edits = <<Set(Source("fallback-canary"), {Fixture("fallback-canary")}), Set(Manifest("fallback"), {"fallback-canary"})>>],
      Edit([i \in 1..3 |-> Set(Served(Upstreams("owned")[i]), {Canary})]),
      [Accept(Copied(Install("fallback", "install-home")), {Payload}) EXCEPT !.keep = {Lock("fallback")}],
      Accept(Uninstall("fallback", {"fallback-canary"}), {Same(Lock("fallback")), Absent(Modules("fallback"))})>>
Cleared == <<Set(Route("cdn"), {}), Set(Modules("fallback"), {})>>
Phase(home, registry, edits, looks) ==
    [Accept(Restore("fallback", home, Upstreams(registry)), {Payload} \cup looks) EXCEPT !.edits = Cleared \o edits]
FallbackRoutes ==
    FirstInstall
    \o <<Phase("owned-home", "owned", <<>>, {Has(Route("owned"), {<<"owned", "1">>}), Absent(Route("cdn"))}),
         Phase("r2-home", "down", <<>>, {Has(Route("cdn"), {<<"r2", "2">>}), Lacks(Route("cdn"), {"github"})}),
         Phase("github-home", "down", <<Set(Served("r2"), {})>>, {Has(Route("cdn"), {<<"r2", "2">>, <<"github", "3">>})})>>

-----------------------------------------------------------------------------
(* terminal_context_acceptance.py: an answer from a pipe, in CI or at a dumb   *)
(* terminal is no consent; the second spelling of the overrides is the same.   *)
Human == {"stdin", "stderr"}
NoConsent(terminal) == Refuse(Begin("prompted", terminal), {Absent(Manifest("prompted"))})
Consented(edits, n) == [Fetching(Begin("prompted", Human), n, {Has(Manifest("prompted"), {"prompted"})}) EXCEPT !.edits = edits]
ResetProject == <<Set(Manifest("prompted"), {}), Set(Checkout("prompted"), {})>>
TerminalContext ==
    <<NoConsent({}), NoConsent(Human \cup {"ci"}), NoConsent(Human \cup {"dumb"}),
      Consented(<<>>, {1}), Consented(ResetProject, {1}), Consented(ResetProject, AnyCount)>>

-----------------------------------------------------------------------------
(* nix_export_plan_canary.py: copies of a package at different places have one *)
(* plan, a changed manifest another; planning leaves no trace.                 *)
Planning(p, o, options) == [Export("print", p, Home, o) EXCEPT !.arg = options]
NodeLib == {<<"node-lib", "v1">>}
SinglePackage ==
    <<[Accept(Planning("single-a", "single-a", {}), {}) EXCEPT !.edits = <<Set(Plan("single-a"), NodeLib), Set(Plan("single-b"), NodeLib)>>],
      Accept(Planning("single-b", "single-b", {}),
             {Alike(Shown("single-a"), Shown("single-b")), Unfingered("single-a"), Unfingered("single-b"),
              Absent(Cache(Home)), SecretsKept, Has(Shown("single-a"), NodeLib), Unlike(Shown("single-a"), {Junk})}),
      [Accept(Planning("commented", "commented", {}), {Differ(Shown("commented"), Shown("single-a"))})
          EXCEPT !.edits = <<Set(Plan("commented"), {<<"node-lib", "commented">>})>>],
      Refuse(Planning("single-a", "missing-lock", {"unlocked"}), {}),
      [Refuse(Planning("source-build", "source-build", {}), {}) EXCEPT !.edits = <<Set(Plan("source-build"), {<<"build", "make">>})>>]>>
PolyglotPlans ==
    <<Refuse(Planning("polyglot-node", "polyglot", {"untargeted"}), {}),
      [Accept(Planning("polyglot-node", "alias", {}), {})
          EXCEPT !.edits = <<Set(Plan("polyglot-node"), {<<"lib-nodejs", "v1">>}), Set(Plan("polyglot-rust"), {<<"lib-rust", "v1">>})>>],
      Accept(Planning("polyglot-node", "exact", {}), {Alike(Shown("alias"), Shown("exact"))}),
      Accept(Planning("polyglot-rust", "rust", {}),
             {Has(Shown("exact"), {<<"lib-nodejs", "v1">>}), Has(Shown("rust"), {<<"lib-rust", "v1">>}),
              Differ(Shown("exact"), Shown("rust")), Unfingered("polyglot-node"), Unfingered("polyglot-rust")})>>
NixPlans == SinglePackage \o PolyglotPlans

-----------------------------------------------------------------------------
(* mise_environment.py: one environment has one identity however it is written *)
(* down, another source of a tool has another one, and what is not whole or not*)
(* the project's own is refused.                                               *)
Asking == {<<"node", "22">>, <<"python", "3.12">>}
LockedTools(node) == {<<"node", node>>, <<"python", "locked">>}
Setup(p, files, ask, lock) == <<Set(Files(p), files), Set(Plan(p), ask), Set(Lock(p), lock)>>
LockedProject(p, node) == Setup(p, {"mise.toml"}, Asking, LockedTools(node))
VerifyJson(p, node, looks) ==
    [Accept(Environs("verify", p, p), {Titled(Shown(p), {"node", "python"})} \cup looks) EXCEPT !.edits = LockedProject(p, node)]
Unverified(p, setup) == [Refuse(Environs("verify", p, p), {}) EXCEPT !.edits = setup]
Unimported(p, files) == [Refuse(Environs("import", p, p), {}) EXCEPT !.edits = Setup(p, files, Asking, {})]
MiseEnvironment ==
    <<VerifyJson("project", "locked", {Unfingered("project")}),
      Accept(Environs("import", "project", "imported"),
             {Titled(Shown("imported"), {"node", "python"}), Has(Shown("imported"), {<<"node", "tool">>, <<"node", "locked">>})}),
      VerifyJson("reordered", "locked", {Alike(Shown("reordered"), Shown("project"))}),
      VerifyJson("mirror", "mirrored", {Differ(Shown("mirror"), Shown("project"))}),
      Unverified("malformed", LockedProject("malformed", "malformed")),
      Unverified("no-checksum", LockedProject("no-checksum", "unchecked")),
      Unverified("drift", Setup("drift", {"mise.toml"}, Asking \cup {<<"go", "1.24">>}, LockedTools("locked"))),
      Unverified("ambiguous", Setup("ambiguous", {"mise.toml", ".mise.toml"}, Asking, LockedTools("locked"))),
      Unimported("child", {}),
      [Accept(Environs("import", "tool-versions", "tool-versions"), {Titled(Shown("tool-versions"), {"node", "python"})})
          EXCEPT !.edits = Setup("tool-versions", {"tool versions"}, Asking, {})],
      Unverified("tool-versions", <<>>),
      Unimported("escape", {"a link outside"})>>

(* mise_frozen_identity.py: every platform asked for, the same backend, and a  *)
(* version that the requirement allows; nothing in the project changes.        *)
OneTool(p, ask, lock) == Setup(p, {"mise.toml"}, {<<"jq", ask>>}, {<<"jq", lock>>})
Identity(p, ask, lock) == [Accept(Environs("verify", p, p), {Unfingered(p)}) EXCEPT !.edits = OneTool(p, ask, lock)]
NoIdentity(p, ask, lock) == [Refuse(Environs("verify", p, p), {Unfingered(p)}) EXCEPT !.edits = OneTool(p, ask, lock)]
FrozenIdentity ==
    <<Identity("valid", "^1.7", "locked"), NoIdentity("missing-platform", "^1.7", "linux only"),
      Identity("os-constrained", "linux", "linux only"), NoIdentity("backend-drift", "^1.7", "other backend"),
      NoIdentity("version-drift", "^1.7", "other version"), Identity("prefix-ok", "22", "locked"),
      NoIdentity("prefix-boundary", "22", "other version"), NoIdentity("unsupported-range", "nonsense", "locked")>>
=============================================================================
