---------------------------- MODULE TakeoverLock ----------------------------
(***************************************************************************)
(* The four certifications of the checkout-local operation lock:           *)
(* git_submodule_overtake_lock.py ("normal", "terminated"),                *)
(* git_submodule_overtake_nested_lock.py ("nested"),                       *)
(* git_submodule_install_operation_lock.py ("install") and                 *)
(* project_recovery_operation_lock.py ("recovery", "preflight").           *)
(*                                                                         *)
(* A harness starts a holder whose Git is a shim that announces itself and *)
(* then waits for a release file, starts a contending install, watches it  *)
(* for a while, releases or kills the holder, and judges what both leave   *)
(* behind.  Harness, holder with its shim, and waiter are three processes  *)
(* that share one checkout.  The zed binary is external: its steps are     *)
(* what the harnesses take for granted, and Clients are the ways in which  *)
(* it may break the lock.  One behaviour is one certification.             *)
(***************************************************************************)
EXTENDS Sequences

CONSTANTS
    Scenarios,  \* the certifications to run
    Clients     \* the behaviours of the zed binary

AllScenarios == {"normal", "terminated", "nested", "install", "recovery", "preflight"}

(* "correct", or: the lock excludes only the same Zed home ("homes"), is   *)
(* keyed by the path of the invocation ("paths"), is taken after Git ran   *)
(* ("late"), is not taken by install ("unlocked"), survives its owner's    *)
(* death ("sticky"); recovery runs before the lock is taken ("eager") or   *)
(* takeover skips it ("blind").                                            *)
AllClients == {"correct", "homes", "paths", "late", "unlocked", "sticky", "eager", "blind"}

ASSUME ScenariosAssumption == Scenarios \subseteq AllScenarios
ASSUME ClientsAssumption == Clients \subseteq AllClients

Procs == {"holder", "waiter"}
Codes == {"unborn", "running", "ok", "error", "terminated", "killed"}

VARIABLES
    scenario, client,
    pc,         \* the harness's position
    code,       \* how each process ended, if it did
    todo,       \* what each process has still to do
    owner,      \* who owns the lock of each key, or "nobody"
    lockFiles,  \* directories in which .zed/operation.lock exists
    ready,      \* the shim has announced the Git sync
    released,   \* the release file exists
    tree,       \* the checkout: see Tree
    late,       \* history: a deadline passed
    hasty,      \* history: the window closed before the waiter blocked or exited
    breach      \* history: the lock's promise was broken

picked == <<scenario, client>>
vars == <<picked, pc, code, todo, owner, lockFiles, ready, released, tree, late, hasty, breach>>

(* .zpkg.lock, zed_modules, vendor/child, adopted dependencies in          *)
(* .zpkg.toml, .zpkg-staging, and whether the recovery marker was damaged. *)
Tree == [lock : BOOLEAN, modules : BOOLEAN, child : BOOLEAN, adopted : BOOLEAN,
         staging : BOOLEAN, damaged : BOOLEAN]

Fixture == [lock |-> FALSE, modules |-> FALSE, child |-> FALSE, adopted |-> FALSE,
            staging |-> FALSE, damaged |-> FALSE]

\* create_pending_recovery.
WithJournal(t) == [t EXCEPT !.staging = TRUE, !.damaged = TRUE]

Init ==
    /\ scenario \in Scenarios /\ client \in Clients
    /\ pc = "begin"
    /\ code = [p \in Procs |-> "unborn"]
    /\ todo = [p \in Procs |-> <<>>]
    /\ owner = [k \in {"root", "nested", "alias"} \cup Procs |-> "nobody"]
    /\ lockFiles = {}
    /\ ready = FALSE /\ released = FALSE
    /\ tree = IF scenario = "preflight" THEN WithJournal(Fixture) ELSE Fixture
    /\ late = FALSE /\ hasty = FALSE
    /\ breach = FALSE

-----------------------------------------------------------------------------
(* The zed binary and the Git shim.                                        *)

\* Directory of the invocation, as it is spelled.
Path(p) == CASE p = "holder" /\ scenario \in {"nested", "install"} -> "nested"
             [] p = "waiter" /\ scenario = "normal" -> "alias"
             [] OTHER -> "root"

Key(p) == CASE client = "homes" -> p
            [] client = "paths" -> Path(p)
            [] OTHER -> "root"

LockDir(p) == IF client = "paths" /\ Path(p) = "nested" THEN "nested" ELSE "root"

Work(p) == IF p = "holder" THEN <<"announce", "sync", "publish">> ELSE <<"install">>

Steps(p) ==
    CASE client = "late" /\ p = "holder"     -> <<"recover", "announce", "sync", "lock", "publish">>
      [] client = "eager"                    -> <<"recover", "lock">> \o Work(p)
      [] client = "blind" /\ p = "holder"    -> <<"lock">> \o Work(p)
      [] client = "unlocked" /\ p = "waiter" -> <<"recover">> \o Work(p)
      [] OTHER                               -> <<"lock", "recover">> \o Work(p)

Frozen == scenario # "terminated"

At(p, step) == code[p] = "running" /\ todo[p] # <<>> /\ Head(todo[p]) = step

Advance(p) == todo' = [todo EXCEPT ![p] = Tail(@)]

\* The kernel releases a process's locks when it ends, however it ends.
Ends(p, c) ==
    /\ code' = [code EXCEPT ![p] = c]
    /\ owner' = [k \in DOMAIN owner |->
                   IF owner[k] = p /\ ~(client = "sticky" /\ c \in {"terminated", "killed"})
                     THEN "nobody" ELSE owner[k]]

\* The holder is between the Git sync it announced and its end.
Owning == ready /\ code["holder"] = "running"

TakeLock(p) ==
    /\ At(p, "lock")
    /\ owner[Key(p)] = "nobody"
    /\ owner' = [owner EXCEPT ![Key(p)] = p]
    /\ lockFiles' = lockFiles \cup {LockDir(p)}
    /\ Advance(p)
    /\ UNCHANGED <<picked, pc, code, ready, released, tree, late, breach, hasty>>

Recover(p) ==
    /\ At(p, "recover")
    /\ tree' = IF tree.staging THEN [tree EXCEPT !.staging = FALSE, !.damaged = FALSE] ELSE tree
    /\ breach' = (breach \/ (p = "waiter" /\ Owning /\ tree.staging))
    /\ Advance(p)
    /\ UNCHANGED <<picked, pc, code, owner, lockFiles, ready, released, late, hasty>>

\* The shim writes the ready file; the journal must be gone by then.
Announce(p) ==
    /\ At(p, "announce")
    /\ ready' = TRUE
    /\ breach' = (breach \/ tree.staging)
    /\ Advance(p)
    /\ UNCHANGED <<picked, pc, code, owner, lockFiles, released, tree, late, hasty>>

\* The release file is there: the shim runs the real Git.
Sync(p) ==
    /\ At(p, "sync") /\ released
    /\ tree' = [tree EXCEPT !.child = TRUE]
    /\ Advance(p)
    /\ UNCHANGED <<picked, pc, code, owner, lockFiles, ready, released, late, breach, hasty>>

\* Mutant: the shim waits for the release file without a deadline.
NoShimDeadline(p) == FALSE /\ UNCHANGED vars

\* The shim gives up after 120 seconds and the client fails with it.
ShimDeadline(p) ==
    /\ At(p, "sync") /\ ~released
    /\ late' = TRUE
    /\ Ends(p, "error")
    /\ UNCHANGED <<picked, pc, todo, lockFiles, ready, released, tree, breach, hasty>>

Publish(p) ==
    /\ At(p, "publish")
    /\ tree' = [tree EXCEPT !.lock = TRUE, !.adopted = (scenario # "install")]
    /\ Advance(p)
    /\ UNCHANGED <<picked, pc, code, owner, lockFiles, ready, released, late, breach, hasty>>

\* A frozen install needs the lockfile; any other writes it.
Install(p) ==
    /\ At(p, "install")
    /\ breach' = (breach \/ Owning)
    /\ IF Frozen /\ ~tree.lock
         THEN Ends(p, "error") /\ UNCHANGED <<tree, todo>>
         ELSE /\ tree' = [tree EXCEPT !.lock = TRUE, !.modules = TRUE]
              /\ Advance(p)
              /\ UNCHANGED <<code, owner>>
    /\ UNCHANGED <<picked, pc, lockFiles, ready, released, late, hasty>>

Exits(p) ==
    /\ code[p] = "running" /\ todo[p] = <<>>
    /\ Ends(p, "ok")
    /\ UNCHANGED <<picked, pc, todo, lockFiles, ready, released, tree, late, breach, hasty>>

Client(p) ==
    \/ TakeLock(p) \/ Recover(p) \/ Announce(p) \/ Sync(p) \/ ShimDeadline(p)
    \/ Publish(p) \/ Install(p) \/ Exits(p)

-----------------------------------------------------------------------------
(* The harness.                                                            *)

Goto(next) == pc' = next

\* Contract.start.
Start(p) ==
    /\ code' = [code EXCEPT ![p] = "running"]
    /\ todo' = [todo EXCEPT ![p] = Steps(p)]

StartHolder ==
    /\ pc = "begin"
    /\ Start("holder")
    /\ Goto("ready")
    /\ UNCHANGED <<picked, owner, lockFiles, ready, released, tree, late, breach, hasty>>

\* Mutant: the waiter is started without waiting for the holder.
NotAwaited ==
    /\ pc = "ready"
    /\ Goto("contend")
    /\ UNCHANGED <<picked, code, todo, owner, lockFiles, ready, released, tree, late, breach, hasty>>

\* wait_ready: the announcement, an exit before it, or 30 seconds.
WaitReady ==
    /\ pc = "ready"
    /\ \/ ready /\ Goto("inspect") /\ UNCHANGED late
       \/ ~ready /\ code["holder"] # "running" /\ Goto("failed") /\ UNCHANGED late
       \/ ~ready /\ Goto("failed") /\ late' = TRUE
    /\ UNCHANGED <<picked, code, todo, owner, lockFiles, ready, released, tree, breach, hasty>>

\* What must hold of the checkout while the holder is at its Git sync.
OwnedBeforeGit ==
    /\ "root" \in lockFiles
    /\ scenario \in {"nested", "install"} => "nested" \notin lockFiles
    /\ scenario = "install" => ~tree.child /\ ~tree.lock
    /\ scenario = "preflight" => ~tree.staging /\ ~tree.damaged

\* The checks behind blocked_holder; "recovery" then leaves a journal behind the
\* holder's back, and "preflight" has no waiter.
Inspect ==
    /\ pc = "inspect"
    /\ Goto(IF ~OwnedBeforeGit THEN "failed"
            ELSE IF scenario = "preflight" THEN "release" ELSE "contend")
    /\ tree' = IF OwnedBeforeGit /\ scenario = "recovery" THEN WithJournal(tree) ELSE tree
    /\ UNCHANGED <<picked, code, todo, owner, lockFiles, ready, released, late, breach, hasty>>

StartWaiter ==
    /\ pc = "contend"
    /\ Start("waiter")
    /\ Goto("watch")
    /\ UNCHANGED <<picked, owner, lockFiles, ready, released, tree, late, breach, hasty>>

\* The waiter has got as far as it can.
WaiterSettled == code["waiter"] # "running" \/ (At("waiter", "lock") /\ owner[Key("waiter")] # "nobody")

\* Mutant: an exit during the window is not noticed.
NotWatched ==
    /\ pc = "watch"
    /\ hasty' = ~WaiterSettled
    /\ Goto("untouched")
    /\ UNCHANGED <<picked, code, todo, owner, lockFiles, ready, released, tree, late, breach>>

\* require_blocked: an exit within the window is an error.
RequireBlocked ==
    /\ pc = "watch"
    /\ Goto(IF code["waiter"] = "running" THEN "untouched" ELSE "failed")
    /\ hasty' = ~WaiterSettled
    /\ UNCHANGED <<picked, code, todo, owner, lockFiles, ready, released, tree, late, breach>>

\* What a script looks at while the waiter is kept waiting; the nested script
\* and the terminated takeover look at nothing there.
Untouched ==
    /\ scenario \in {"normal", "install"} => ~tree.lock
    /\ scenario = "install" => "nested" \notin lockFiles
    /\ scenario = "recovery" => tree.staging /\ tree.damaged

CheckUntouched ==
    /\ pc = "untouched"
    /\ Goto(IF Untouched THEN "release" ELSE "failed")
    /\ UNCHANGED <<picked, code, todo, owner, lockFiles, ready, released, tree, late, breach, hasty>>

\* release.write_text, or killpg(SIGTERM), which a holder that ended ignores.
Release ==
    /\ pc = "release"
    /\ IF scenario = "terminated"
         THEN /\ IF code["holder"] = "running" THEN Ends("holder", "terminated")
                                               ELSE UNCHANGED <<code, owner>>
              /\ UNCHANGED released
         ELSE released' = TRUE /\ UNCHANGED <<code, owner>>
    /\ Goto("finish holder")
    /\ UNCHANGED <<picked, todo, lockFiles, ready, tree, late, breach, hasty>>

Expected(p) == IF p = "holder" /\ scenario = "terminated" THEN "terminated" ELSE "ok"

After(p) == IF p = "holder" /\ scenario # "preflight" THEN "finish waiter" ELSE "judge"

\* finish: the exit code, or SIGKILL to the process group after 60 seconds.
Finish(p) ==
    /\ pc = IF p = "holder" THEN "finish holder" ELSE "finish waiter"
    /\ \/ /\ code[p] # "running"
          /\ Goto(IF code[p] = Expected(p) THEN After(p) ELSE "failed")
          /\ UNCHANGED <<code, owner, late>>
       \/ /\ code[p] = "running"
          /\ Ends(p, "killed")
          /\ late' = TRUE
          /\ Goto("failed")
    /\ UNCHANGED <<picked, todo, lockFiles, ready, released, tree, breach, hasty>>

\* The checks after both processes ended.
LeftBehind ==
    IF scenario = "terminated"
      THEN ~tree.staging /\ ~tree.adopted /\ ~tree.child
      ELSE /\ tree.lock
           /\ scenario \in {"normal", "nested", "recovery"} => tree.modules
           /\ scenario = "install" => tree.child /\ "nested" \notin lockFiles
           /\ scenario = "recovery" => ~tree.damaged /\ ~tree.staging

Judge ==
    /\ pc = "judge"
    /\ Goto(IF LeftBehind THEN "certified" ELSE "failed")
    /\ UNCHANGED <<picked, code, todo, owner, lockFiles, ready, released, tree, late, breach, hasty>>

Harness ==
    \/ StartHolder \/ WaitReady \/ Inspect \/ StartWaiter \/ RequireBlocked
    \/ CheckUntouched \/ Release \/ Judge \/ \E p \in Procs : Finish(p)

Next == Harness \/ \E p \in Procs : Client(p)

Spec == Init /\ [][Next]_vars

\* Each process is scheduled, and deadlines pass when nothing else happens.
FairSpec == Spec /\ WF_vars(Harness) /\ \A p \in Procs : WF_vars(Client(p))

-----------------------------------------------------------------------------

Over == pc \in {"certified", "failed"}

\* A certification is not granted to a client that let the waiter change the
\* checkout while a takeover was at work in it, or that reached Git with a
\* pending recovery (git_submodule_overtake_lock.py:353-358, 396-401 and the checks
\* of the other three), however the three processes interleave: as long as the
\* 0.8 seconds of require_blocked let the waiter block or exit.
CertifiedIsSerialized == pc = "certified" /\ ~hasty => ~breach

\* A client that keeps the lock's promise is not failed, unless a deadline of the
\* harness or of its shim passed.
CorrectIsCertified == pc = "failed" /\ client = "correct" => late

\* No process outlives its certification for good, even when the harness raised
\* an error while the holder was blocked in the shim (deadline of line 78) and
\* nobody is left to release it.
ProcessesEnd ==
    <>[](Over /\ (client # "sticky" => \A p \in Procs : code[p] # "running"))
=============================================================================
