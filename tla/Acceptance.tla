------------------------------ MODULE Acceptance ------------------------------
(* The acceptance harnesses of src/scripts, as executed: a harness takes the   *)
(* steps of its script in order and raises at the first surprise.  In every run*)
(* the client may break one promise, once, at any command.  Commands a harness *)
(* starts at once are installs, which interleave download by download.         *)
EXTENDS MachineScripts

CONSTANTS None          \* no fault yet

VARIABLES script,       \* the run
          at,           \* its next step
          world,        \* location -> what is there
          kept,         \* what the harness remembers: location -> its content
          procs,        \* the installs it started at once
          fault,        \* the promise the client broke, or None
          verdict       \* "running", "passed", "refused"
vars == <<script, at, world, kept, procs, fault, verdict>>

Scripts == [recovery  |-> RecoveryMatrix,
            recursive |-> RecursiveInstalls,
            stress    |-> RecursiveStress,
            lifecycle |-> PackageLifecycle,
            empty     |-> NonPackage,
            immutable |-> Publication,
            fetch     |-> FrozenFetch,
            boundary  |-> InstallBoundaries,
            ignores   |-> IgnoreUnion,
            graph     |-> GraphProduction,
            solver    |-> ConstraintSolver,
            apps      |-> AppInstalls,
            interop   |-> SubmoduleInterop,
            switch    |-> SubmoduleMode,
            packing   |-> SubmodulePack,
            push      |-> OciPush,
            plan      |-> OciPlan,
            layout    |-> OciLayout,
            bundle    |-> NixBundle,
            twins     |-> NixFixture,
            ownership |-> MiseOwnership,
            limits    |-> MiseBoundaries,
            native    |-> NativeLifecycle,
            profile   |-> GlobalProfile,
            tasks     |-> CanonicalTasks,
            routes    |-> FallbackRoutes,
            terminal  |-> TerminalContext,
            plans     |-> NixPlans,
            tools     |-> MiseEnvironment,
            frozen    |-> FrozenIdentity]

Init == /\ script \in DOMAIN Scripts
        /\ at = 1
        /\ world = <<>>
        /\ kept = <<>>
        /\ procs = <<>>
        /\ fault = None
        /\ verdict = "running"

Step == Scripts[script][at]
Busy == verdict = "running" /\ at <= Len(Scripts[script])

(* What a harness requires of a step: the exit status, the numbers of downloads*)
(* and of packages when it parses the summary, and everything it looks at.     *)
Expected(r) == /\ r.ok = Step.ok
               /\ Step.count = AnyCount \/ r.n \in Step.count
               /\ Step.said = AnyCount \/ r.said \in Step.said
               /\ \A k \in Step.looks : Holds(k, r.w, kept)
Total(w) == IF At(w, Tally) = {} THEN 0 ELSE CHOOSE n \in At(w, Tally) : TRUE
Added(r) == IF Step.tally THEN Put(r.w, Tally, {r.n + Total(r.w)}) ELSE r.w
Conclude(r) == /\ world' = Added(r)
               /\ kept' = [l \in Step.keep |-> At(r.w, l)] @@ kept
               /\ IF Expected(r) THEN at' = at + 1 /\ UNCHANGED verdict
                                 ELSE verdict' = "refused" /\ UNCHANGED at
               /\ UNCHANGED script

Prepared == AllEdited(world, Step.edits)
InTurnNow == Busy /\ ~Step.atonce /\ UNCHANGED procs
Obey  == InTurnNow /\ \E w \in Prepared : \E r \in Clean(Step.calls, w) : Conclude(r) /\ UNCHANGED fault
Break == InTurnNow /\ fault = None
         /\ \E w \in Prepared : \E b \in Faulty(Step.calls, w) : Conclude(b.r) /\ fault' = b.what

-----------------------------------------------------------------------------
(* Installs behind one barrier.  Each downloads what the home lacks, several   *)
(* artifacts at a time, under the home's lock of the artifact, so that one of  *)
(* them downloads each; with all there it replaces its project and ends.       *)
Waiting == [holds |-> {}, n |-> 0, over |-> FALSE, ok |-> TRUE, said |-> {}]
Call(i) == Step.calls[i]
Live(i) == i \in DOMAIN procs /\ ~procs[i].over
Wants(i) == Chosen(world, Call(i))
Stored(i) == At(world, Cache(Call(i).h))
Busied(i) == UNION {procs[j].holds : j \in {k \in DOMAIN procs : Call(k).h = Call(i).h}}
AsBefore == UNCHANGED <<script, at, kept, verdict>>

Launch == /\ Busy /\ Step.atonce /\ procs = <<>>
          /\ world' \in Prepared
          /\ procs' = [i \in DOMAIN Step.calls |-> Waiting]
          /\ AsBefore /\ UNCHANGED fault
Grab(i) == /\ Live(i)
           /\ \E a \in Wants(i) \ (Stored(i) \cup Busied(i)) :
                 /\ world' = Put(Downloading(world, Call(i), {a}), Partial(Call(i).h), At(world, Partial(Call(i).h)) \cup {a})
                 /\ procs' = [procs EXCEPT ![i].holds = @ \cup {a}]
           /\ AsBefore /\ UNCHANGED fault
Land(i) == /\ Live(i)
           /\ \E a \in procs[i].holds :
                 /\ world' = Put(Put(world, Partial(Call(i).h), At(world, Partial(Call(i).h)) \ {a}),
                                 Cache(Call(i).h), Stored(i) \cup {a})
                 /\ procs' = [procs EXCEPT ![i].holds = @ \ {a}, ![i].n = @ + 1]
           /\ AsBefore /\ UNCHANGED fault

Ends(i, r) == /\ world' = r.w
              /\ procs' = [procs EXCEPT ![i] = [holds |-> {}, n |-> r.n, over |-> TRUE, ok |-> r.ok, said |-> r.said]]
              /\ AsBefore
Provided(i) == Live(i) /\ Solvable(world, Call(i)) /\ Wants(i) \subseteq Stored(i)
Ending(i) == Saying(Result(TRUE, Installed(world, Call(i), Wants(i), {}), procs[i].n), Wants(i))
Settle(i) == Provided(i) /\ Ends(i, Ending(i)) /\ UNCHANGED fault
Spoil(i)  == Provided(i) /\ fault = None /\ \E b \in Broken(Call(i), Ending(i)) : Ends(i, b.r) /\ fault' = b.what

Fail(i) == Live(i) /\ ~Solvable(world, Call(i)) /\ Ends(i, Result(FALSE, world, 0)) /\ UNCHANGED fault

(* An install that ignores the lock of an artifact downloads it once more.     *)
Repeat(i) == /\ Live(i) /\ fault = None
             /\ Wants(i) \cap (Stored(i) \cup (Busied(i) \ procs[i].holds)) # {}
             /\ procs' = [procs EXCEPT ![i].n = @ + 1]
             /\ fault' = <<Call(i).do, TRUE, "repeats", "cache">>
             /\ AsBefore /\ UNCHANGED world

(* The harness waits for all of them before it looks at any. *)
Downloads == LET sum[i \in 0..Len(procs)] == IF i = 0 THEN 0 ELSE sum[i - 1] + procs[i].n IN sum[Len(procs)]
Gather == /\ procs # <<>> /\ \A i \in DOMAIN procs : procs[i].over
          /\ Conclude([ok |-> \A i \in DOMAIN procs : procs[i].ok, w |-> world, n |-> Downloads,
                       said |-> UNION {procs[i].said : i \in DOMAIN procs}])
          /\ procs' = <<>>
          /\ UNCHANGED fault

Pass  == /\ verdict = "running" /\ at > Len(Scripts[script])
         /\ verdict' = "passed"
         /\ UNCHANGED <<script, at, world, kept, procs, fault>>

Next == \/ Obey \/ Break \/ Launch \/ Gather \/ Pass
        \/ \E i \in DOMAIN procs : Grab(i) \/ Land(i) \/ Settle(i) \/ Fail(i) \/ Spoil(i) \/ Repeat(i)
Spec == Init /\ [][Next]_vars

(* A harness never refuses a client that keeps its word, in whatever order the *)
(* installs it starts at once grab, finish and settle, and whatever a failing  *)
(* install managed to cache.                                                   *)
CorrectIsPassed == fault = None => verdict # "refused"

-----------------------------------------------------------------------------
(* What a harness does not see of a client that breaks one promise, as         *)
(* <<command, whether it should succeed, how it went wrong, where>>: a look the*)
(* harness does not take, takes for part of the packages only, or takes before *)
(* a later command repairs or after one spoils.  A way is listed when it passes*)
(* at one command of that name in the script; another may still catch it.      *)
Over(do, ok, how, kinds) == {<<do, ok, how, k>> : k \in kinds}
Littered(do)   == Over(do, TRUE, "gains", {"staging", "partial"})
Uncounted(do)  == Over(do, TRUE, "reports", {"downloads"} \cup IF do \in Installs THEN {"packages"} ELSE {})
Otherwise(do, modes) == {<<do, TRUE, m, "modules">> : m \in modes}
Unlocked(do)  == Over(do, TRUE, "loses", {"locks"})
Astray(do)    == Otherwise(do, {"astray"})
Untidy == Over("publish", TRUE, "gains", {"registry", "checkout"})

(* Two installs of one project mask each other's half-done work. *)
RecoveryGaps == Untidy \cup Littered("install") \cup Littered("frozen") \cup Over("frozen", FALSE, "gains", {"partial"})
                \cup Over("install", TRUE, "loses", {"lock", "modules"}) \cup Otherwise("install", {"copy", "shared"})
                \cup Over("install", TRUE, "reports", {"downloads"}) \cup Otherwise("frozen", {"shared"})
                \cup UNION {Unlocked(do) \cup Astray(do) : do \in {"install", "frozen"}}
RecursiveGaps == Untidy \cup UNION {Over(do, TRUE, "gains", {"staging"}) : do \in {"install", "add", "remove"}}
                 \cup Astray("add") \cup Astray("remove")
(* The last warm install is only asked for its count and the lock. *)
StressGaps == Untidy \cup Over("install", TRUE, "gains", {"staging"}) \cup Littered("frozen")
              \cup Over("frozen", TRUE, "loses", {"modules"}) \cup Otherwise("frozen", {"copy", "shared", "astray"})
              \cup Unlocked("frozen")
(* Of what an install brings only the package itself is looked at. *)
LifecycleGaps ==
    UNION {Littered(do) \cup Uncounted(do) \cup Otherwise(do, {"shared"}) \cup Over(do, TRUE, "loses", {"modules", "locks"}) :
              do \in {"install", "frozen"}}
    \cup Over("install", TRUE, "loses", {"lock"}) \cup Over("frozen", TRUE, "gains", {"lock"})
    \cup Over("install", FALSE, "gains", {"lock", "modules", "staging", "partial"})
    \cup Over("publish", TRUE, "gains", {"registry"}) \cup Over("rehearse", TRUE, "gains", {"registry"})
ImmutableGaps == Untidy \cup Over("pack", TRUE, "gains", {"checkout", "out"}) \cup Over("publish", FALSE, "gains", {"checkout"})
FetchGaps == Littered("install") \cup Uncounted("install") \cup Over("publish", TRUE, "gains", {"registry"})
             \cup Over("uninstall", TRUE, "gains", {"manifest"}) \cup Over("fetch", TRUE, "gains", {"lock"})
             \cup Otherwise("install", {"link", "shared", "mixed"}) \cup Unlocked("install")
             \cup Over("fetch", FALSE, "gains", {"lock", "modules", "out"})
(* Nothing is looked at of the install that only makes the lock. *)
BoundaryGaps == Untidy \cup Littered("install") \cup Littered("frozen") \cup Uncounted("install") \cup Uncounted("frozen")
                \cup Over("install", TRUE, "loses", {"modules"}) \cup Otherwise("install", {"link", "shared", "mixed", "astray"})
                \cup Otherwise("frozen", {"shared"}) \cup Unlocked("install") \cup Unlocked("frozen")
IgnoresGaps == Over("pack", FALSE, "gains", {"checkout", "out"}) \cup Over("pack", TRUE, "gains", {"checkout"})
               \cup Over("pack", TRUE, "loses", {"out"})
(* A version nobody selects may be missing from the registry. *)
SolverGaps == Untidy \cup Over("publish", TRUE, "loses", {"registry"}) \cup Littered("install") \cup Littered("frozen")
              \cup Over("install", FALSE, "gains", {"partial"}) \cup Uncounted("install")
              \cup UNION {Unlocked(do) \cup Astray(do) : do \in {"install", "frozen"}}
(* Copies that share their files are only noticed for one of two members. *)
AppsGaps == Untidy \cup Otherwise("install", {"shared"}) \cup Otherwise("frozen", {"shared"})
            \cup Over("frozen", TRUE, "loses", {"wiring"}) \cup Over("frozen", FALSE, "gains", {"modules"})
            \cup Otherwise("install", {"mixed"}) \cup Astray("frozen") \cup Unlocked("install") \cup Unlocked("frozen")
InteropGaps == Littered("install") \cup Littered("frozen") \cup Uncounted("install") \cup Uncounted("frozen")
               \cup Otherwise("frozen", {"copy", "shared", "astray"}) \cup Unlocked("frozen")
               \cup Over("frozen", TRUE, "loses", {"vendor"}) \cup Over("frozen", FALSE, "loses", {"modules"})
               \cup Over("frozen", FALSE, "gains", {"modules", "staging", "partial"})
               \cup Over("overtake", TRUE, "gains", {"manifest", "modules", "staging"})
               \cup Over("overtake", TRUE, "loses", {"vendor"}) \cup Over("overtake", FALSE, "loses", {"vendor"})
SwitchGaps == Littered("install") \cup Uncounted("install")
              \cup Over("overtake", TRUE, "gains", {"manifest", "modules", "staging"})
              \cup Over("overtake", FALSE, "gains", {"modules", "staging"})
              \cup UNION {Over("overtake", ok, "loses", {"members", "modules", "vendor"}) : ok \in BOOLEAN}
PackingGaps == Littered("install") \cup Uncounted("install")
               \cup UNION {Over("pack", ok, "gains", {"checkout"}) : ok \in BOOLEAN}
               \cup UNION {Over("rehearse", ok, "gains", {"registry"}) : ok \in BOOLEAN}
               \cup Over("rehearse", TRUE, "gains", {"checkout"})
(* The tag is not resolved again after the last refusals, and one push is traced. *)
PushGaps == Over("layout", TRUE, "gains", {"cache"}) \cup Over("push", TRUE, "gains", {"requests"})
            \cup Over("push", FALSE, "gains", {"checkout", "requests", "tag", "temps"}) \cup Over("push", FALSE, "loses", {"tag"})
PlanGaps == Over("print", TRUE, "gains", {"requests"}) \cup Over("print", FALSE, "gains", {"requests", "shown"})
LayoutGaps == Over("layout", FALSE, "gains", {"cache", "out"}) \cup Over("layout", TRUE, "gains", {"cache"})
              \cup Over("print", TRUE, "gains", {"checkout", "requests"})
(* Project and home are looked at after the first bundle only. *)
BundleGaps == Over("bundle", FALSE, "gains", {"cache", "checkout", "out"}) \cup Over("bundle", TRUE, "gains", {"cache", "checkout"})
              \cup Over("bundle", FALSE, "loses", {"out"})
(* What is written first is only compared with itself, the plans never. *)
OwnershipGaps == Over("owned", TRUE, "gains", {"out", "owner", "plan"}) \cup Over("owned", TRUE, "loses", {"out"})
                 \cup Over("owned", FALSE, "gains", {"plan"})
LimitsGaps == Over("owned", FALSE, "gains", {"out", "owner", "plan"}) \cup Over("owned", FALSE, "loses", {"owner"})
              \cup Over("owned", TRUE, "gains", {"out", "owner", "plan"}) \cup Over("owned", TRUE, "loses", {"out", "owner"})
              \cup Over("print", FALSE, "gains", {"checkout", "requests", "shown"}) \cup Uncounted("owned")
              \cup Over("print", TRUE, "gains", {"requests", "shown"}) \cup Over("print", TRUE, "loses", {"shown"})
(* After the later denials only the manager is looked at. *)
NativeGaps == Over("native", FALSE, "gains", {"hooks", "modules"}) \cup Over("native", TRUE, "gains", {"cache"})
              \cup Over("native", TRUE, "loses", {"cache", "modules"})
(* The command is run, what it leads to is not looked at; nor is the second    *)
(* profile's lock and store. *)
ProfileGaps == Over("global", TRUE, "loses", {"cache", "lock"}) \cup Over("regain", TRUE, "loses", {"lock", "modules"})
               \cup Uncounted("drop")
(* A refused run may have run the task all the same. *)
TasksGaps == Over("query", TRUE, "gains", {"shown"}) \cup Over("query", TRUE, "loses", {"shown"}) \cup Uncounted("task")
             \cup UNION {Over("task", ok, "gains", {"cache", "out"}) : ok \in BOOLEAN} \cup Over("task", TRUE, "loses", {"cache", "out"})
(* The lock that the restores are to keep is not looked at after them. *)
RoutesGaps == Untidy \cup Littered("install") \cup Uncounted("install") \cup Unlocked("install")
              \cup Otherwise("install", {"link", "shared", "mixed"})
              \cup Over("route", TRUE, "gains", {"lock"}) \cup Over("route", TRUE, "loses", {"lock"})
              \cup Over("uninstall", TRUE, "gains", {"manifest"})
TerminalGaps == UNION {Over("init", ok, "gains", {"checkout"}) : ok \in BOOLEAN} \cup Over("init", TRUE, "gains", {"manifest"})
                \cup Uncounted("init")
PlansGaps == UNION {Over("print", ok, "gains", {"checkout", "requests", "shown"}) : ok \in BOOLEAN} \cup Over("print", TRUE, "loses", {"shown"})
(* Only the first verification is bracketed by snapshots. *)
ToolsGaps == UNION {Over(do, ok, "gains", {"checkout"}) : do \in {"verify", "import"}, ok \in BOOLEAN}
             \cup UNION {Over(do, TRUE, "loses", {"shown"}) : do \in {"verify", "import"}}
IdentityGaps == Over("verify", TRUE, "gains", {"shown"}) \cup Over("verify", TRUE, "loses", {"shown"})
Overlooked == [recovery  |-> RecoveryGaps,  recursive |-> RecursiveGaps, stress   |-> StressGaps,
               lifecycle |-> LifecycleGaps, immutable |-> ImmutableGaps, fetch    |-> FetchGaps,
               boundary  |-> BoundaryGaps,  ignores   |-> IgnoresGaps,   solver   |-> SolverGaps,
               apps      |-> AppsGaps,      interop   |-> InteropGaps,   switch   |-> SwitchGaps,
               packing   |-> PackingGaps,
               empty     |-> Over("pack", FALSE, "gains", {"out"}),
               graph     |-> Over("graph", FALSE, "gains", {"out"}),
               plan      |-> PlanGaps,
               push      |-> PushGaps,      layout    |-> LayoutGaps,    bundle   |-> BundleGaps,
               twins     |-> {},            ownership |-> OwnershipGaps,
               limits    |-> LimitsGaps,    native  |-> NativeGaps,
               profile   |-> ProfileGaps,   tasks     |-> TasksGaps,     routes   |-> RoutesGaps,
               terminal  |-> TerminalGaps,  plans     |-> PlansGaps,     tools    |-> ToolsGaps,
               frozen    |-> IdentityGaps]

(* A client that broke a promise in any way a harness has no gap for does not  *)
(* pass, whichever command it did it at and whatever ran beside it: the look   *)
(* that follows, or a later one, meets what it did.                            *)
FaultsAreSeen == verdict = "passed" => fault = None \/ fault \in Overlooked[script]
=============================================================================
