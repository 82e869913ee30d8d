# Formal models of zed-pkg-e2e

This directory holds TLA+ models of the programs in this repository: those
that keep or change state other people depend on (the static registry, the
pull-request mergers, the test-fleet bootstrap, the fallback publishers, the
dependency inventory), and the acceptance harnesses that judge the `zpkg`
client. TLC checks the modules on small instances; TLAPS proves the main
results for every value of their constants. The models are translated from the
source; `PROJECT.json` maps every definition to the lines it stands for.

## 1. The system and its components

The repository is an end-to-end test and operations repository around the
`zpkg` package manager, whose own source is elsewhere. Its parts are of three
kinds: services and operators' scripts that publish a registry or act on
GitHub; a reader that builds a graph of an organization's dependencies under
budgets; and harnesses that drive the external client through a sequence of
commands and compare what it left behind.

| Component | State | Operations | Hard behaviour | What makes it correct | Model |
|---|---|---|---|---|---|
| Static registry exporter, `static-registry-protocol/build_static_registry.py` | the output directory, a staging directory | validate, stage, write, remove the empty output, replace, restore | each system call can fail or be the last; another exporter may use the same `--out` | the output appears whole or not at all; exit 0 means it is there; a failure puts things back | `StaticRegistryTree`, `StaticRegistryBuild` |
| Upload to R2, `static-registry-protocol/sync_to_r2.sh` | the bucket, the checkpoint object, the upload list | local gate, head of the checkpoint, puts in order, checkpoint last | crash between puts and a rerun with another tree; a second operator; a head request that fails | the checkpoint never names what is not there; replacement is acknowledged | `StaticRegistryUpload` |
| Checker, `static-registry-protocol/check_static_registry.py` | checkpoint, parsed indexes, failures | fetches of run_checks | interleaves with an upload; fetches an index twice | a pass means one published collection was read | `StaticRegistry` |
| Open PR fleet merger, `.github/scripts/merge-open-pr-fleet.mjs` | snapshot, queue, promoted flag, merged list; GitHub's pull requests | search, classify, re-read, scan, promote, poll, merge, verify, restore | authors push, CI flips, others merge, responses are lost | the merged head is the classified one, isolated, scanned and reported truthfully; drafts go back | `FleetMerge` |
| Portfolio mergers and the discovery they act on, `.github/scripts/ready-portfolio-fleet.mjs`, `discover-graphql-ready-portfolios-v2.mjs`, `merge-graphql-validated-portfolios.mjs` | manifest of heads, validated archives, the pull request at hand | discover, download, validate, gate, promote, poll, merge, verify, restore | two pipelines over the same pull requests; promotion outside the `try`; objections read once | the merged head was validated without credentials; objections stop; promotions are undone | `PortfolioMerge` |
| Fleet bootstrap, `scripts/bootstrap-test-org-fleet.mjs` (entry point, and `.parts/`) | per invocation: queue of pairs, shared source cache, error count; GitHub's repositories, branches, pull requests | ensure repository, resolve source, fetch, commit, push, repair the pull request, topics | workers share a cache; an error abandons a pair; invocations overlap or are cancelled; people act on the pull requests | exit 0 means bootstrapped, topics included unless they are skipped; nothing is rewritten; reruns are quiet and converge | `FleetBootstrap` |
| Bootstrap workflows, `.github/workflows/*test-org-fleet*.yml` | concurrency groups, `TEST_ORG_FLEET_SKIP_TOPICS` | start, cancel, retry | groups differ, so invocations may overlap; cancel-in-progress | as above | constants of `FleetBootstrap` |
| GitHub dependency inventory, `harness/github_inventory_*.py`, with its parsers | request, byte and time budgets; the work list of workspaces; records, graph, output file | bounded get with retries, listing, pinning, expansion, publication | retries consume budgets; branches move while read; a limit or a kill in the middle | complete means whole; what is reported is one commit; a version on an edge is what a lock of its source pinned; a limit publishes nothing | `Inventory` |
| Its graph analysis, `analyze_graph` | visited sets, stacks, components, waves | two traversals, condensation, waves | order of the iterators | components are the strong ones; waves put dependencies first | `InventoryGraph` |
| Registry fallback canaries, `scripts/github_api_fallback.py`, `ghcr_fallback.py`, `public_edge_fallback_readonly.py` | release, assets, tag, blobs, CDN cache, a consumer's lock | publish, replace an asset, push blobs and manifest, read back, install, attest | delete-then-upload; kills and reruns; two canaries at once | what is reported was whole; a rerun repairs; a tag names what is there | `FallbackCanaries` |
| Takeover and recovery locks, `scripts/git_submodule_overtake_lock.py` and three more | the harness, a holder with a Git shim, a waiter; the external lock | start, announce, block, release, kill, judge | three processes with deadlines of their own; "blocked" is concluded from 0.8 s | only a client that serializes is certified; a correct one is; nobody stays behind | `TakeoverLock` |
| Install recovery matrix, install canaries, lifecycle and native lifecycle, publication immutability, constraint solver, submodule interop and pack, graph verification, owned-registry fallback, global profile, tasks, terminal, OCI, Nix and mise contracts (30 harnesses of `scripts/`, `harness/`) | a project, its lock, modules, home, registry, output files; what the harness remembers | the client's commands, alone or two at once; edits; looks | one command may undo what another did wrong before anyone looks | a correct client passes; one that breaks a promise does not, but for listed gaps | `AcceptanceSteps`, `ZedExports`, `ZedMachine`, `ZedClient`, seven script modules, `Acceptance` |
| Org fleet inventory; production package inventory and roundtrip; federated scenarios; fleet verification and listings; browser suites; materializers; lint; fixtures and evidence | none, or external | compare, list, patch text | - | - | not modelled |

How they interact: the exporter's output directory is the input of the upload;
the upload's local gate is the checker run on that directory; the checker over
HTTP and every consumer read the bucket the upload writes. The bootstrap
creates the pull requests that the mergers later take out of draft and merge;
when they do, GitHub deletes the branch the bootstrap would otherwise reuse.
The open-PR merger and the two portfolio mergers share pull requests: the
portfolio ones are modelled together, and the open-PR merger meets others of
its kind as the environment (`CloseOrMerge`). The inventory feeds the orders in
which fleets are processed and writes one file. The fallback canaries publish
what the client reads when the registry is down. The acceptance harnesses each
own a temporary project, home and registry.

`PROJECT.json` lists every hazard of this code at its line, with the
properties that would catch it, or the reason no property does.

## 2. Modules

    AtomicRegistry                 what a static export promises
    StaticRegistryTree             the v0 tree as a function of the fixtures
      StaticRegistryUpload         sync_to_r2.sh and the bucket
        StaticRegistry             + check_static_registry.py; implements AtomicRegistry
          MCStaticRegistry         fixtures for TLC
          StaticRegistryProofs     (of the upload alone, too)
    StaticRegistryBuild            publish_tree; implements AtomicRegistry
      StaticRegistryBuildProofs
    FleetMerge                     merge-open-pr-fleet.mjs and GitHub
      MCFleetMerge, FleetMergeProofs
    PortfolioMerge                 the two portfolio pipelines and GitHub
      MCPortfolioMerge, PortfolioMergeProofs
    FleetBootstrap                 bootstrap-test-org-fleet.mjs and GitHub
      MCFleetBootstrap, FleetBootstrapProofs
    Inventory                      the dependency inventory and GitHub
      MCInventory, InventoryProofs
    InventoryGraph                 analyze_graph
      MCInventoryGraph, InventoryGraphProofs
    FallbackCanaries               the canaries, GitHub releases, GHCR, the CDN
      MCFallbackCanaries, FallbackCanariesProofs
    TakeoverLock                   the four lock certifications
      MCTakeoverLock
    AcceptanceSteps                places, steps and looks of a script
      ZedExports, ZedMachine,
      ZedClient                    the external client and its possible faults
        InstallScripts, PublishScripts, ArtifactScripts, ConsumerScripts,
        SubmoduleScripts, ExportScripts, MachineScripts
          Acceptance               a script against a client

### AtomicRegistry

The abstract specification: a collection is published once, in one step, and a
consumer that succeeds has observed the published collection.

### StaticRegistryTree

Pure operators. A path is a tuple, an artifact its blob, an index the sequence
of its lines. SHA-256 is taken as injective, so the digest of an object is the
object and a checkpoint is the function from paths to objects. `BuildTree` is
`main` (fixtures to objects, index lines ordered by `semver_key` with a stable
sort, so two pre-releases of a version keep their order by name).
`LocallyConforms` is `run_checks` on a directory, including the rule that a
tree without any yanked version fails as vacuous.

### StaticRegistryUpload

One uploader is one operator or job that may run the script several times, on
any tree. `Start` is the local gate, `HeadCheckpoint`, `HeadRefuses` and
`HeadFails` the `if aws s3api head-object` test with its three outcomes,
`PutObject` one `upload_object` in list order, `PutCheckpoint` the last line,
`Fail` any failed call (`set -e`) or a kill. The bucket is external: puts are
atomic and immediately visible, as R2 documents.

### StaticRegistry

The uploaders with the checker reading over HTTP. The program counter `rpc` is
the section of `run_checks`; each fetch is one step. `listing` is the validated
checkpoint, `parsed` the indexes fetched the second time (section 3 does not
hash them again), `failed` whether `FAILURES` has an entry.
`ImplementsAtomic` is the refinement: the checkpoint is `published`, a passing
reader has `observed` the tree whose indexes it resolved from.

### StaticRegistryBuild

`publish_tree` with a step per system call: early validation in `main`, second
validation, `mkdtemp`, writes, `rmdir` of an empty output, `os.replace`, and
the `finally` block. Any of them may fail, and `Crash` may follow each.
`os.replace` of a directory succeeds on nothing and on an empty directory. A
directory records which exporter's bytes each file has, so a mixture would
show. The calls of the `finally` block may fail as well: `RemoveStaging` is
`rmtree(ignore_errors=True)`, which may leave any part of the staging
directory, and `RecreateOut` a `mkdir` that may raise (or find the directory
back). The history variable `notUndone` records, by exporter, which of the two
failed: `FailureRestores` says that a staging directory is left, or the
caller's output directory missing, only where its own call failed.

### FleetMerge

The script is one process. `snap` is the snapshot, `queue` the candidates,
`pr` and `promoted` the variables of `mergeCandidate` by those names, `merged`
the report. Each request is an action: `ObservePR` (search pages, one result
at a time, interleaved with the environment), `LoadFresh`, `ScanPatch`,
`MarkReady`, `Poll`, `HeadAfterPromotion`, `PutMerge`/`PutRefused`/`PutLost`,
`RestoreDraft`, `Verify`, `Exception`. The dozens of reasons in `coreReasons`
answer three questions about the current head (blocked, green, clean), since
the code uses them together or as "checks failed" and "merge state not clean".
The order of candidates is left open. All pull requests are in one repository,
the case in which isolation means something. `byRun`, `readied`, `scanned`,
`rewound` (a forced push has returned to an earlier head) and `faulty` (a
request about this pull request failed, or its response was lost) are history
variables: forced pushes and losses always may happen, and the properties say
what they still guarantee.

### PortfolioMerge

Two runs, `"rest"` and `"graphql"`, each a pipeline of three jobs: discovery
(`inspect`), download of the archive of the recorded head and validation
without credentials, and the merging job. Steps that both scripts take in the
same way are shared actions; where they differ the run's name is a guard (the
REST script promotes outside its `try`, and reads objections before the
promotion only; the GraphQL script repeats them in the same query as the
merge state). `Sound` is what the validator accepts, by head. `entry` is the
manifest, `warned` what a run has been objected, `abandoned` the pull requests
that a failed request left out of draft. The frozen, audited and app-audited
variants repeat these steps over a stored list and are left out.

### FleetBootstrap

`Begin` and `Exit` are an invocation, `TakePair` the shared index of
`mapConcurrent`, `Throw` its `catch`. A worker's `pc` follows
`applyTestRepository`: `GetRepository`/`PostRepository` (`ensureRepository`),
`Resolve` (`resolveSource` with `sourceCache`), `FetchBranch`/`FetchFallsBack`,
`Push` (`gitPushWriteTree`), `ListPulls`/`ClosePull`/`AllClosed`/`PostPull`
(`ensurePullRequest`), `PutTopics` (`ensureTopics`, which returns at once in the
invocations of `SkipTopics`). One source repository stands for all: the
sources of a repository are resolved alike and pinned together. A branch is
its history, and a commit the pin and the gate its tree holds. `met` is a
history variable: for each invocation those that were under way with it at some
moment; `touched` those repositories on whose generated pull requests people
acted since it began. No action reads them.

External facts used, as the code relies on them: GitHub answers 422 to a pull
request whose head does not exist or that duplicates an open one; a push
without force must be a fast-forward; repositories are created with
`delete_branch_on_merge`, so a merged branch goes (an adopted repository may
have another setting: the branch then stays); initial content comes from
`auto_init`.

Workflows appear as constants. `apply-`, `recover-` and the other workflows have
different concurrency groups, so invocations may overlap (`Overlap = TRUE`);
`recover-test-org-fleet-v2.yml:14-16` cancels a run in progress (`Cancel`);
`finish-test-org-fleet-paced.yml` makes three attempts (here two `Runs` against
one fault). Every workflow that starts the script with
`--apply` sets `TEST_ORG_FLEET_SKIP_TOPICS` to `true`
(`apply-test-org-fleet.yml:216`,
`recover-test-org-fleet-v2.yml:88`, `finish-test-org-fleet-paced.yml:84`,
`finish-test-org-fleet-single-runner.yml:53`, `resume-test-org-fleet.yml:87`,
`run-test-org-fleet-arm64.yml:89`), and the script then never sets a topic: a
deployed invocation that exits 0 has left its repositories created, seeded and
proposed, and their topics as they were. `bootstrap_workers` checks this
configuration (`SkipTopics = {r1, r2}`), `bootstrap_overlap` one invocation that
skips them next to one started by hand that does not (`SkipTopics = {r1}`); the
theorems hold for any `SkipTopics`. `Bootstrapped` does not speak of topics;
`CleanExitBootstraps` promises them of an invocation that sets them. The dry run
changes nothing and is not modelled.

### Inventory

One run of `github_dependency_inventory.py`. `pc` is the position in the run:
`ListPage`, `GetRepository`, `PinBranch`, `GetTree`, `GetBlob`, `Expand` (the
work list of workspace manifests, with duplicates of one identity),
`ParseManifest` (once for each manifest), `LinkWorkspace`, `ParseLock`,
`ParseModules`, and the write of the artifact (`CreateTemp`, `ReplaceOutput`,
`SyncDirectory`; `OutputRefused` is the exit with status 2 for an output that is
not a regular file, `WriteFails` any failing system call of `write_atomic`).
`Retry` is the client's loop over transient statuses, which spends the request
budget; `OverLimit` is any of the limits, of which requests, repositories and
nodes are counted and time, bytes and tree entries are left open. `Killed`
ends the run between the creation of the temporary file and the end (before that
a kill leaves no trace). The environment pushes to repositories and makes them
appear and disappear between any two requests. A document is what it
contributes: workspace members, a package with its declared dependencies,
dependencies by path, lock pins, submodules. As in the code there are two
readings: a root manifest with members is parsed as a workspace, in which each
manifest adds its package (`packages` remembers the manifest that named it, two
of a name being refused) and its declarations, and `LinkWorkspace` then adds an
edge to every member and for every dependency by path; any other manifest is
parsed alone, with an edge from the repository to its package. A lock marks the
declarations of its source, which is the package of the root manifest if that
was read, else the repository (`Source`). A parser that fails keeps what it has
added (`SourceFailure`, `ParseRaises`: any part of the manifest's declarations,
of the pins, of the path edges or of the submodules). Nix sources add nodes and
edges as submodules do and are left out; the edge for a dependency by path
stands for both requirements the code may write on it. GitHub changes between
requests only (`Requesting`): parsing and writing read nothing of it.
`ManifestsAt`, what a scan of one commit ought to read, is the least set that
holds the selected files and the members its files declare: it is stated as an
intersection, without recursion, and the work list is compared with it.
`steady`, `gone` and `flickered` are history variables: the organization's
repositories that were there during the whole listing, those that went during
it, and whether one of these came back or one came and went unlisted.

### InventoryGraph

`analyze_graph` with the code's own counters and stacks: `StartVisit`,
`Advance`, `Finish` are the first traversal, `StartComponent`, `Collect`,
`CloseComponent` the second, `BuildCondensation` and `EmitWave` the waves. An
iterator over sorted successors is the set of those it has yet to return. The
initial state is any graph; the reference definitions are reachability
(`Reaches`: no closed set holds the one and not the other) and "a wave depends
on earlier waves, and on the one just before".

### FallbackCanaries

`kind` says whether the run publishes a Release or a GHCR artifact. A publisher
is a sequence of requests, one per action; `Dies` kills it or loses the request
or its answer at any step, and it may be started again. A run's bytes are named
by its number, since the tarball carries the time of packing. `DeleteAsset` and
`UploadAsset` are `replace_asset`; the Prove actions are the readings; the
`Attest` actions are `public_edge_fallback_readonly.py`, which starts from what
its ledger pins and reads through a CDN that caches for good and may evict.
`disturbed`, `whole` and `pinned` are history variables. The CLI installs of
the attestation, its negative checks, `github_r2_fallback.py` and the
Cloudflare contract are left out.

### TakeoverLock

`scenario` is the certification, `client` the behaviour of the external binary:
correct, or one of seven ways to break the lock. Harness, holder (whose Git is
the shim) and waiter are three processes; `pc` is the harness's position,
`todo` what a process has yet to do. `CheckUntouched` is what a script looks at
between the waiter's refusal and the release: the recovery script its damaged
tree, the install script the nested lock and the project's, the takeover script
the project's; the nested script and the terminated takeover look at nothing
there. `hasty` records that the 0.8 seconds of
`require_blocked` ended before the waiter blocked or exited, `late` that a
deadline passed, `breach` that two operations overlapped or Git was reached
with a recovery pending: history variables, of which only the properties speak.

### The acceptance modules

An acceptance harness is a script: a sequence of steps, each of which edits
files, runs commands, demands an exit status and a number of downloads, looks at
places and remembers some of them (`AcceptanceSteps`). The world maps a place (a
project's lock, its modules, a home's cache, the registry, an output file, ...)
to a set. `ZedClient`, `ZedExports` (what is written for other tools) and
`ZedMachine` (global packages, tasks, tool environments, sources in order) are
the external client as the harnesses use it: per command, the outcomes of one
that keeps its word (`Outcomes`; more than one where caching or backtracking is
open), and all the ways to break it once (`Broken`: lose part of an effect,
touch what must be left alone, use another kind of link, report another status
or count).

| Module | Harnesses |
|---|---|
| `InstallScripts` | `install_recovery_matrix.py`, `recursive_installs.py` and its stress variant |
| `PublishScripts` | `lifecycle.py` (a package, and a repository without one), `publication_immutability.py` |
| `ArtifactScripts` | `frozen_fetch_canary.py`, `install_boundary_canaries.py`, `publish_ignore_union.py`, the fake-server part of `verify_zed_cli_graph_github_production.py` |
| `ConsumerScripts` | `complete_constraint_solver.py`, `org_app_installs.py` |
| `SubmoduleScripts` | `git_submodule_interop.py`, `git_submodule_global_mode.py`, `git_submodule_pack.py` |
| `ExportScripts` | `oci_oras_push_contract.py`, `oci_plan_contract.py`, `oci_layout_contract.py`, both Nix bundle canaries, both mise export contracts, `native_lifecycle.py` |
| `MachineScripts` | `global_package_profile_canary.py`, `canonical_task_canary.py`, `github_r2_fallback.py`, `terminal_context_acceptance.py`, `nix_export_plan_canary.py`, `mise_environment.py`, `mise_frozen_identity.py` |

`Acceptance` composes one script with one client: `Obey` (the command of a
step is carried out, and judged), `Break` (the client breaks one promise, at
most once in the run), `Pass`. The installs that the recovery matrix, the
recursive installs and their stress variant start behind a barrier are processes
that interleave: `Launch`; `Grab` and `Land`, the begin and the end of one
download; `Settle` or `Fail`, an install that replaces its project and ends;
`Spoil`, one that ends having broken a promise; `Repeat`, one that downloads again
what another has or is downloading; and `Gather`, the harness after all have
ended. Of the correct client this assumes what the harness asks of it: an
artifact is downloaded under a lock of the home, and a project is replaced in
one step. What each process reports (the packages resolved, by process; the
downloads, in sum), where its links lead, the lock file it leaves for each
artifact and symbolic links that leaked are looked at as in the scripts; a
client may point the links to another home (`astray`) or mix links and copies.

`Overlooked` lists, per harness, which faults it lets pass, as a command's name,
whether the command was to succeed, what went wrong and at what kind of place.
It is not a list by occurrence: a way is listed when it passes at one command of
the script, though the script may see it at another. What is not listed is seen
at every command, and a look that is dropped from a script makes `FaultsAreSeen`
fail when nothing else sees what it saw. The lists of the scripts that look at
little (`OwnershipGaps`, `LimitsGaps`) leave little to be seen. Some of what the
lists record: the fallback harness never looks at the lock after its three
restores, so a client that rewrites it there passes; the task canary demands the
failure of a refused run and not that the task did not run; the mise harness
brackets only its first verification by snapshots. The task canary records
failing cases and goes on where the others raise; its verdict is the same, so
the model stops at the first.

## 3. Runs

| Run | Question | Answer |
|---|---|---|
| `registry_publish` | One operator who never acknowledges, three runs with crashes and other trees, two readers interleaving. | The bucket always holds what the checkpoint names; a passing reader saw one published tree; the bucket with its readers implements `AtomicRegistry`; with fairness, a reader that starts after the checkpoint put passes. |
| `registry_replace` | And with acknowledgements or failing head requests, where publication is not atomic? | Once the last run has ended well, the listing is exact again. |
| `registry_build` | Two exporters on one output, failures and crashes. | Success means one's own whole tree; failures restore, but for what a failing `rmtree` or `mkdir` of the cleanup leaves; the output directory implements `AtomicRegistry`. |
| `fleet_merge` | Three pull requests, one outside the search; pushes back and forth, flipping checks, other mergers, lost responses. | Exact heads, isolation, a truthful report; every merged head was scanned unless a forced push returned to one; drafts go back unless a request was lost; the run ends. |
| `portfolio` | Both portfolio pipelines over one pull request, three steps of others, two failed requests. | What is merged was validated, standing objections stop, what stays out of draft is accounted for, both runs end. |
| `bootstrap_overlap` | Two invocations that may overlap, a source that moves, one fault, two steps of people. | Exit 0 means bootstrapped, but for repositories people acted on meanwhile, with topics from the invocation that sets them; nothing is rewritten; pins are out of order only between invocations that overlapped. |
| `bootstrap_workers` | Two invocations in turn, two workers on two organizations, a moving source, one fault; topics skipped, as deployed. | One pin per invocation, quiet reruns, and the second attempt leaves the fleet bootstrapped. |
| `inventory` | One acquisition over two repositories that change meanwhile, with retries and limits. | Complete means whole; each record is one commit; locks are evidence only; a limit publishes nothing, and a status that `main` returns tells what was published; the run ends. |
| `inventory_graph` | `analyze_graph` on every graph of four nodes, one of which may depend on itself. | Components are the strongly connected ones, waves put dependencies first, as early as possible; each step uses up a node or an edge. |
| `fallback` | Two publishers, three canary runs, one attestation, kills everywhere. | What was reported was whole, an undisturbed rerun repairs, the tag is complete. |
| `takeover` | Six certifications against eight clients. | Only serializing clients are certified, correct ones are unless a deadline passed, and all processes end. |
| `acceptance` | Thirty harnesses against a correct client, and one with a single fault at any command. | Correct clients pass, in whatever order the installs that were started at once download and end; a fault is seen unless its kind is listed in `Overlooked`. |

### What is deliberately weaker, and where the code differs from what it says

The properties say what the code does guarantee. These are the places at which
a comment or a document promises more; no run is spent on them.

- `sync_to_r2.sh:7` says the checkpoint guard fails closed. Line 51 takes every
  failure of `head-object` for an absent checkpoint, so a failing request opens
  it; and of two operators who both find no checkpoint the second replaces the
  first one's unacknowledged. `registry_publish` therefore has one operator and
  truthful head requests, `registry_replace` the failing ones.
- `patchReasons` (`merge-open-pr-fleet.mjs:390`) reads the files of whatever
  head is current. A push, the scan and a forced push back would have one head
  scanned and another merged: `ScannedHead` excludes such a history (`rewound`).
- A merge whose response is lost is reported as a skip and does not count
  towards `TARGET` (`:476`), and `restoreDraft` swallows its own failure
  (`:424`): `NoneLeftPromoted` excludes pull requests in `faulty`.
- `ready-portfolio-fleet.mjs:312-325`: the promotion is outside the `try`, so
  any failed request after it abandons the pull request; no objection is read
  after the gate. `NoneLeftPromoted` and `ObjectionsStop` of `PortfolioMerge`
  say exactly this.
- `docs/test-org-fleet.md:77` says open generated pull requests are reused; one
  that was marked ready is closed and replaced
  (`bootstrap-test-org-fleet.parts/004.mjs.part:62`). `:81` says a source gate
  gives way to the pin; `bootstrap-test-org-fleet.mjs:131` never removes it.
- After a generated pull request was merged and its branch is gone, a rerun
  with nothing to change asks for a pull request from the missing branch
  (`bootstrap-test-org-fleet.mjs:154`), fails and abandons the rest of the
  organization. `CleanExitBootstraps` excepts the repositories that people acted
  on while the invocation was under way (`touched`): what it had proposed they
  may have merged since.
- Of two overlapping invocations the one that resolved its source first may push
  last and fast-forward over the newer pin. `PinsMoveForward` and
  `ReRunsAreQuiet` therefore need `Overlap = FALSE`; `PinsInOrder` says of any
  invocations that nothing else puts an older pin over a newer one.
- `public_edge_fallback_readonly.py:4` calls the fixtures immutable. The
  publishing canaries replace the assets of the same tag with bytes of their
  own, after which the attestation fails until the ledger's are restored.
- A `complete` inventory (`docs/github-dependency-inventory-conformance.md:76`)
  has scanned what it listed. The listing asks for pages by number
  (`github_inventory_client.py:62`), so a repository that goes
  between two pages makes the next page skip one that stayed. Usually the scan
  of the one that went fails and the inventory is partial; but if it comes back
  before its turn, or came between two pages and went again without being
  listed, nothing tells, and the inventory is complete without the one that was
  skipped. `CompleteIsWhole` excludes such a history (`flickered`). The proof
  found this: with the two repositories and pages of one of the run it cannot
  happen, since it takes three.
- "Failed runs preserve the prior output"
  (`docs/github-dependency-inventory-conformance.md:74`, invariant 8) is not true
  of a run that fails after `os.replace` (`github_inventory_graph.py:222`). The
  `fsync` of the directory (`:223`) may raise: the new output is in place, and the
  process ends in a traceback, with status 1. So may a run be killed there, or die
  while it prints. The model has all three (`WriteFails` and `Killed` at `"sync"`),
  and the first two conjuncts of the invariant hold at status 3 and 2 only: this
  is what `LimitPublishesNothing` says. A status of 0, or of 1 returned by `main`,
  is the completeness of the output; whoever only sees the process's status cannot
  tell a partial inventory from a traceback over a complete one. Temporary files
  are removed, unless the run is killed.
- "recover by downloading exactly that hash" (`install_recovery_matrix.py:613-614`)
  is checked as one download or more (`:641`), so a client that downloads good
  artifacts again there passes: `RecoveryGaps` has it, as a wrong count of
  downloads.
- `github_inventory_zed_parsers.py:261-272` collapses the selections of one
  package found in locks of several repositories; which source pinned a version
  is then lost on the edge. `EvidenceIsNotTopology` asks for some pin by a lock
  of the same source.

### Bounds

- Registry: two packages with two versions; two trees that differ in a blob,
  in an index and in the set of objects, and a third that the local gate
  refuses. That is the least with which an object can be present, stale or
  missing, an index older than its artifacts, and a listing longer or shorter
  than the bucket. `MaxRuns = 3`: a crash part-way, a rerun with another tree,
  and a run after a checkpoint is visible. Each uploader and reader is
  sequential; two readers show all pairwise interleavings.
- Exporter: two builders, three files (one more than needed for a mixture).
- Merger: three pull requests of which two are searchable; the first two
  overlap only after a push, the third always overlaps the first; two heads
  each, one of which fails the scan; `MaxEvents = 2` (a push and a push back,
  a check that flips and flips back); `MaxPolls` and `MaxTries` of 2 (6 and 3
  in the code) so that there is a first, a repeated and a last one.
- Portfolio mergers: one pull request, since the two pipelines handle pull
  requests one at a time and share nothing else; two heads, three steps of the
  environment (push, push back, objection), two failed requests.
- Bootstrap: two repositories, two invocations, two source commits, one fault,
  up to two steps of people. With the second source commit an invocation that
  looked the source up early pushes an old pin late, and one that did not
  overlap could leave an old pin only by a fault (as the mutant of
  `PinsInOrder` does).
- Inventory: two repositories, pages of one. The first has a workspace of two
  levels, whose member declares what the root declares and whose inner member
  depends on it by path, and submodules inside and outside the request; at its next
  commit a member is missing. The second has a lock for the package that is the
  first one's root, then a member of a name the first one has, then a lock with
  two selections of one package. Three commits per repository; seven nodes, one
  fewer than there can be; 14 requests, fewer than the longest run asks for, so that
  both budgets bite; one retry; two steps of the environment. This is the largest
  run: 1.5 million states, under two minutes.
- Graph: four nodes: two cycles of two, a cycle of three with a tail, a chain.
- Fallback: two publishers, three runs (a killed one, a repairing one and one
  that overlaps), one attestation.
- Acceptance: two, three or four installs at once, as in the scripts, with every
  interleaving of their downloads; each script as it is written, with packages and versions reduced
  to those that a look tells apart; one fault per run. A client that goes wrong
  twice in the same way may satisfy a look that compares two outputs.

`CHECK_DEADLOCK FALSE` is set in every configuration: the programs end, and
when all have ended and the bounds are used up nothing is left to happen.

### Fairness

- Registry: weak fairness of each reader and of each upload that is under way
  (a sequential process takes its next step unless it is killed: `Fail` is
  never forced, nor prevented, so `MaxRuns` bounds the number of kills).
  Operators are not forced to start the script.
- Mergers: weak fairness of each script as a whole. Every request has a timeout
  or an answer and the loops are bounded by counters; authors, reviewers and CI
  are not fair.
- Bootstrap: weak fairness of each invocation. Nothing obliges faults, the
  source or people to act.
- Inventory: weak fairness of the run (`time` limits bound every request). The
  graph's analysis needs none: its end is stated by a measure.
- Takeover: weak fairness of the harness and of each process; deadlines are
  actions, enabled when what they wait for has not happened.
- Fallback and acceptance: safety only.

## 4. Proofs

TLAPS checks these for every value of the constants. Assumptions are the named
`ASSUME`s of the modules and hypotheses written in the theorems.

`StaticRegistryProofs`, first of the upload alone:
- `UploadTyping`: type correctness for any operators, runs and trees.
- `CheckpointIsComplete`: with one operator who never acknowledges and
  truthful head requests, `[]CheckpointComplete`. The property alone is not
  inductive: a put could overwrite an object the checkpoint names. The
  strengthening `Guarded` says that while an upload is under way no checkpoint
  is visible, and `PutProgress` that everything of the tree that is not in
  `todo` is in the bucket already.
- `ReplacementIsAcknowledged`: one operator, truthful head requests: a visible
  checkpoint is only overwritten with the acknowledgement. `AckIsInput` and
  `Guarded` carry it. (Proved only; no run states it.)
- `SettledIsComplete`: one operator, any head answers: `[]SettledComplete`,
  from `PutProgress`.

Then with any number of readers between the puts (one operator who never
acknowledges, truthful head requests):
- `PassesAreSnapshots`: the guard stays closed once a checkpoint is visible
  (`Closed`), so the bucket is frozen from then on (`PublishedStays`). The
  readers' invariant `Snapshot` says of each `pc` of a reader how far it has
  come: its listing is the checkpoint, and in section 3 what it has parsed is
  the listing without the indexes still to fetch (`ParsedBut`). The second,
  unhashed fetch of an index therefore returns what the first one returned.
- `ImplementsAtomicRegistry`: the checkpoint put is `Publish`, a passing
  verdict is `Observe`, and every other step stutters. It also assumes that the
  value for "nothing published" is not a tree.

`StaticRegistryBuildProofs`
- `Typing`; `SuccessIsPublication`; `ImplementsAtomicRegistry`. The argument is
  that each step leaves `out` alone, or moves it among missing, empty and the
  whole tree of one exporter (`OutStep`), and that a published tree stays; the
  refinement then needs only the typing invariant.
- `FailureCleansUp`: `[]FailureRestores`, from the invariant `Pending`: a
  staging directory exists only between its `mkdtemp` and its removal, or its
  `rmtree` left it, and a directory of the caller that is gone was removed by an
  exporter that has yet to put it back, was killed, or failed to make it again.

`FleetMergeProofs`
- `Typing`, `MergesAreExactHead`, `MergesAreScanned`, `MergesAreIsolated`,
  `ReportsAreTrue`. The inductive invariant `MergeInv` is the conjunction of:
  `HeadsGrow` (as long as nothing was rewound a head is never below what any
  variable remembers of it), `AllVetted` (what is in the queue, at hand or
  merged was observed and isolated in the snapshot), `AtSnapshotHead` (from the
  patch scan to the merge request, `pr` carries the classified head),
  `Scanned`, `MergedExactly`, `ReportedAreMerged`. Isolation follows because
  vetted pull requests are merged at their snapshot heads, and the snapshot's
  file sets are disjoint.
- `NoneIsLeftPromoted`, from `PromotedInv`: a pull request the run took out of
  draft is merged, closed, a draft again or faulty, or it is the one at hand
  with `promoted` set, at a place from which every way out restores it.

`FleetBootstrapProofs`
- `BootstrapTyping`. `TypeOK` is not inductive: a merge takes its commit from
  the branch, so an open pull request must have one, and two open ones would
  let the second merge find the branch gone. `OneOpenPull` adds that there is
  at most one, and that its branch is there.
- `BranchesAreNeverRewritten`: only a push, a commit and a merge touch a
  branch; the first is refused unless it extends it.
- `PinsAgree`, through `PinInv`: what an invocation committed, or is about to,
  pins what its cache holds (`BranchesPinned`, `WorkPinned`), and default
  branches hold commits of people only (`BasesAreHuman`), so that a branch
  started afresh inherits no pin of the invocation.
- `CleanExitIsBootstrapped`: exit 0 means bootstrapped, with topics unless the
  invocation skips them. A repository loses what it has gained only to people
  (`Kept`); a worker is at a call only when the calls before it have had their
  effect, or people have acted on the repository since (`LocalsSound`); and a
  repository that is not done and nobody touched is in the queue or with a worker,
  or an error was counted (`Covered`). The topics are the last call of a
  repository, so the second part makes the third one hold when the repository
  leaves its worker's list.
- `PinsNeverMoveBack`, if invocations do not overlap (`Overlap = FALSE`), through
  `ForwardInv`. A branch pins at most the head of the source, and at most what
  the invocation under way has in its cache, if it has resolved the source:
  it did so after every earlier push (`PinsBelow`). This needs that at most one
  invocation is under way (`Alone`), that one which has not begun has read
  nothing (`Unstarted`), and that what a worker is about to push ends with a
  commit of its own invocation (`OwnWorks`), hence with its cache's pin.
- `PinsStayInOrder`, for invocations that do overlap, through `OrderInv`: on no
  branch does a later commit pin an older source, unless the two invocations
  had met. The idea is that of two invocations the later one began either after
  the other had ended, and then after its lookup, or while it was under way, and
  then both know (`Acquainted`). The source only moves on, so the caches of two
  that have not met are ordered as they ran (`LookupsOrdered`), a commit pins
  what the cache of its invocation holds (`PinInv`), and what is pushed is a
  branch as it was read with one commit of an invocation that is under way
  (`WorksOrdered`). Commits of people may lie between the two.
- `ReRunsChangeNothing`, if invocations do not overlap, through `QuietInv`. The
  steps that could disturb a repository that is bootstrapped and current are the
  close of a pull request and a push. What a worker still closes is no draft
  (`CloseOK`), and the one open pull request is one. A push is accepted only if
  it extends the branch, and what a worker is about to push (`FreshWorks`)
  changed the tree it was built on and is built on nothing of its own
  invocation. If the branch is what it was built on, the pins agree
  (`PinsBelow`), so the trees do (`Formed`), and there was nothing to commit; if
  the branch is shorter, then it was deleted meanwhile and begun anew by this
  invocation (`PushOK`), whose commit the work does not hold. `Settled` shows
  that an invocation never commits twice to a branch. Two pairs of the manifest
  may name the same repository: workers that meet there do not disturb it either.

Assumptions on the constants of `FleetBootstrap`: the selected pairs are those
of the manifest (`SelectionAssumption`), an invocation is not taken for an
author of another kind (`AuthorsAssumption`), `None` is neither a commit nor a
history, and the sources belong to selected repositories (`NeedsAssumption`).

`PortfolioMergeProofs`
- `Typing`, with `AtHand`: at every place at which a run reads `cur`, it holds a
  pull request. Every later lemma needs this, and `TypeOK` does not say it.
- `MergesAreValidated` and `ObjectionsAreHeeded`, from `MergeInv`. `Pipeline(r)`
  follows a head through the stages: what was archived is what the manifest
  records, what is left to do or at hand was accepted at that head, and a merged
  pull request still has it. `Heeded(r)` says that a pull request the run was
  warned of cannot be at a place that leads to a merge, since an objection
  is never withdrawn.
- `NoneIsLeftPromoted`: `Accounted(r)` says of each step that whatever is out of
  draft after it is at hand, abandoned, or was out of draft before.
- Assumed of the constants (`PortfolioAssumption`): the sound archives are of
  pull requests and heads, and `None` is neither of these.

`FallbackCanariesProofs`
- `Typing`, with `Own(p)`: the bytes a run packs are no other run's, nor those
  the ledger pins.
- `TagStaysComplete`, from `Filled(p)`: at the layer's put the config is there,
  at the manifest's both are.
- `ReportsAreTrue`, from `ReportInv`: after the upload of its sidecar, a run that
  finds its tarball has been whole (`Shown`); bytes never come back
  (`NewBytes`), so a later replacement cannot make a proof pass that ought not
  to. `Attested` is the same argument for the attestation.
- `UndisturbedRunsRepair`, from `RepairInv`: `Before`, `Replacing` and `Proving`
  say what each request of a calm run relies on, `OthersCalm` that any write of
  another publisher marks the run as disturbed, `Consistent` that there are no
  assets without a Release and no Release without its tag.

`InventoryProofs`
- `InventoryTyping`: `TypeOK` with `ScanOK`, which places the record that is
  being scanned: it has a commit from the pin on and none before, and whatever
  is still to do has not been touched.
- `LimitsPublishNothing`, from `FileOK`: the temporary file exists only between
  its creation and the replacement, the output changes at the replacement only,
  and each status that `main` returns tells what the output then is.
- `ScansReadOneCommit`, from `ReadingOK` (what has been read and what is in the
  work list is closed but for the members of what is still in the list, and lies
  in the least closed set), `ParsedOK` (of the manifests parsed all edges are there,
  and once the workspace is linked all edges of the commit, unless a source was
  reported) and `ScannedOK` (edges and manifests of a finished scan are its
  commit's, and stay: `StepKeeps`).
- `LocksAreEvidence`, from `EvidenceOK`: every edge is one of a pinned commit's
  manifests (`Declared`), pins belong to pinned repositories and none of the
  repository at hand is there before its lock is parsed, so what a lock selects is
  what it pinned, and remains so.
- `CompleteInventories`: the listing by page number. `PagesOK` says that as
  long as nothing listed has gone, a repository that stayed and is not listed
  yet has before it, in what the listing now shows, at least a page of others
  for every page read (`Below`), so the next page cannot have passed it; when something
  listed has gone, `GoneOK` says that its scan cannot succeed. `ListedOK`
  follows what is owed from the listing to the work list to the records.
- Assumed (`InventoryAssumption`, `TreeAssumption`, `NoneAssumption`):
  repositories are finitely many numbers, what is requested and what the
  organization has are repositories, contents are over the files, packages,
  versions and targets, versions are finitely many, no workspace member and no
  path is one of the files that are selected anyway, and `None` is none of these.

`InventoryGraphProofs`: any finite set of node identities, any edges.
- `GraphTyping`. The facts of reachability come from its definition by closed
  sets: `Leaving` (a path that leaves a set leaves it by an edge) and
  `Ancestors` (a set with its nodes' predecessors holds all that reach them)
  replace induction over paths.
- `ComponentsAreClasses`: both traversals. In the first one the stack is a path
  (`StackOK`), and a finished node that reaches a later one is reached from it,
  or reaches a node on the stack or one finished later still (`OrderOK`, with
  `TreeOK` for what is on the stack): a statement about the order of finishing
  alone, without discovery times. In the second, what is assigned holds its
  predecessors, so a component that starts from the last finished node that is
  not assigned starts from one that reaches all remaining nodes that reach it
  (`CollectOK`), and what is collected is its class (`StrongOK`).
- `WavesAreDependencyFirst`, from `WaveOK`: the counter of a component is the
  number of its dependencies not yet emitted, so a component enters a wave
  exactly when the last one of them has been emitted.
- `CondensationIsAcyclic`, from `Ranked`: of a set of components the one that
  holds the last index of the finishing order depends on none of the others
  (`NoCycle`), so something can always be emitted until nothing is left. The
  `ValueError` for a cycle is unreachable.
- `AnalysisEnds`: `StepsLeft` is a natural number that every step decreases,
  hence the analysis of a graph of n nodes and m edges takes at most
  6n + m + 3 steps, whatever its cycles are. It counts what is yet to be pushed
  and popped by the traversals, the edges the iterators have yet to return, and
  the nodes without a component and without a wave. That advancing an iterator
  uses up an edge needs that no node is on the stack twice (`Once`), that a
  component or a wave uses up a node that these hold nothing twice
  (`CollectOK`, `StrongOK`, `WaveOK`).
- Assumed (`NodeIdsAssumption`): the nodes are finitely many numbers.

Only model-checked:
- Liveness (`PublishedIsReadable`, `RunEnds`, `AttemptsConverge`,
  `ProcessesEnd`): out of the prover's reach. Of the graph's analysis the
  measure says what liveness would: it cannot go on for ever.
- `TakeoverLock` and `Acceptance`: their scenarios, clients and scripts are the
  finite sets that the code has, the runs take all of them, and there is no
  larger instance a proof could speak of.

Where the code iterates to a fixed point, what it computes is stated as a least
closed set (`ManifestsAt`, `Reaches`), since the provers do no induction over
data. A least element of a set of numbers is available to them (through
well-foundedness), and the proofs about the last finished node and the lowest
pull request use it.

## 5. Plan

Done: the registry (exporter, upload, checker), the three mergers, the
bootstrap, the inventory with its graph, the fallback canaries, the lock
certifications and thirty acceptance harnesses. What is left, in order of
worth:

1. Proofs: measures like that of `analyze_graph` for the requests of the mergers
   and of the inventory, whose `RunEnds` only the runs check; that a clean exit
   after people merged a generated pull request still means a bootstrapped
   repository if its branch was kept.
2. The remaining acceptance harnesses as scripts over `ZedClient`: the mise
   tier-1 certification, the GitOps canaries, `candidate_lifecycle.py`, the
   negative checks and installs of the fallback attestation.
3. The frozen and audited portfolio mergers as further kinds of run.
4. The package inventory roundtrip (release, index, install).

Not modelled, and why: the org fleet inventory, fleet verification and listings
compare two lists that were read once; the federated scenarios name suites of
another repository; the browser suites test another repository's web
application; the materializers patch text once; lint, fixtures and evidence
are data or style rules.

## 6. Running

    tlc -workers 2 -config registry_publish.cfg MCStaticRegistry.tla
    tlapm FleetMergeProofs.tla

Each proof module is checked in a few minutes (`FleetBootstrapProofs` in ten);
their leaves need Z3, Zenon and LS4.

`PROJECT.json` names the module of every configuration. Definitions marked
"Mutant" are plausible bugs, one for each checked property, that show the
property is able to fail; they are used by no specification. The largest run
has 1.5 million distinct states; none takes more than three minutes.

## 7. Limits

Crashes of the machine that lose written but unsynced files, permissions and
umask, R2's visibility across regions, rate-limit pacing, clock and timeout
values, the dry runs, and all text (reports, generated files, index metadata,
error wording) are outside the models. The digest of an object is the object:
collisions and hash errors are not considered. Of the acceptance harnesses, the
polyglot scenario of `publish_ignore_union.py`, discovery (`find`), the JSON of
a release plan, the TCP receipt and route map of `github_r2_fallback.py` and the
evidence files they write are left out, and each fault
of the client is a single one.
