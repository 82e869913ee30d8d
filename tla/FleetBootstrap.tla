--------------------------- MODULE FleetBootstrap ---------------------------
(***************************************************************************)
(* bootstrap-test-org-fleet.mjs --apply: invocations that create, seed and *)
(* propose the generated repositories of the test organizations.           *)
(*                                                                         *)
(* An invocation has workers that share a queue of organization pairs; a   *)
(* worker bootstraps the repositories of its pair in order, and an error   *)
(* abandons the rest of that pair only.  Several workflows start the       *)
(* script, so invocations may overlap, and a workflow may cancel one that  *)
(* is under way.                                                           *)
(*                                                                         *)
(* One source repository stands for all of them.  A branch is its history; *)
(* a commit is [by, pins, gate]: its author, the source commit that the    *)
(* generated files pin (0: the source was missing, None: nothing is        *)
(* generated yet) and whether SOURCE-GATE.md is in its tree.               *)
(***************************************************************************)
EXTENDS Naturals, Sequences

CONSTANTS
    Runs,       \* invocations with --apply
    Workers,    \* workers of an invocation (--concurrency)
    Pairs,      \* the selected pairs, in manifest order
    ReposOf,    \* [pairs -> the repositories of a pair, governance first]
    Needs,      \* repositories that have sources
    Overlap,    \* may two invocations be under way at once?
    SkipTopics, \* invocations with TEST_ORG_FLEET_SKIP_TOPICS=true
    MaxSha,     \* bound: commits of the source repository
    MaxFaults,  \* bound: failed requests, lost responses and cancellations
    MaxHuman,   \* bound: steps of people on the generated pull requests
    Rejected,   \* a rejected promise in sourceCache
    None

Repos == UNION {{ReposOf[p][i] : i \in DOMAIN ReposOf[p]} : p \in DOMAIN ReposOf}

ASSUME PairsAssumption ==
    /\ Pairs \in Seq(DOMAIN ReposOf)
    /\ ReposOf \in [DOMAIN ReposOf -> Seq(Repos)]
    /\ \A p \in DOMAIN ReposOf : ReposOf[p] # <<>>

\* The repositories are those of the selected pairs.
ASSUME SelectionAssumption ==
    \A p \in DOMAIN ReposOf : \E i \in DOMAIN Pairs : Pairs[i] = p

ASSUME NeedsAssumption == Needs \subseteq Repos

ASSUME SkipAssumption == SkipTopics \subseteq Runs

ASSUME BootstrapBounds ==
    /\ MaxSha \in Nat /\ MaxFaults \in Nat /\ MaxHuman \in Nat
    /\ Overlap \in BOOLEAN
    /\ None \notin Nat /\ Rejected \notin Nat /\ None # Rejected

\* Authors that are not invocations.
ASSUME AuthorsAssumption == Runs \cap {"init", "human"} = {}

Shas == 0..MaxSha
Tree == [pins : Shas \cup {None}, gate : BOOLEAN]
Commit == [by : Runs \cup {"init", "human"}, pins : Shas \cup {None}, gate : BOOLEAN]
\* A branch that is not there is no history.
ASSUME NoBranchAssumption == None \notin Seq(Commit)

Pull == [state : {"open", "closed", "merged"}, draft : BOOLEAN]

Steps == {"idle", "ensure", "create", "resolve", "fetch", "push", "list", "close",
          "open", "topics"}

VARIABLES
    gh,       \* [Repos -> GitHub's state of the repository]
    source,   \* head of the source repository's default branch, 0: missing
    status,   \* [Runs -> "waiting", "running", "exited" or "cancelled"]
    met,      \* history: [Runs -> the invocations that it overlapped with]
    touched,  \* history: [Runs -> the repositories that people acted on since it began]
    failed,   \* [Runs -> stats.errors > 0]
    queue,    \* [Runs -> pairs no worker has taken]
    cache,    \* [Runs -> sourceCache]
    at,       \* [Runs -> [Workers -> the worker's locals]]
    faults,   \* bound
    human     \* bound

run == <<status, met, touched, failed, queue, cache, at>>
vars == <<gh, source, run, faults, human>>

AutoInit == <<[by |-> "init", pins |-> None, gate |-> FALSE]>>

Idle == [pc |-> "idle", left |-> <<>>, pins |-> 0, work |-> <<>>, toClose |-> {},
         keeper |-> FALSE]

\* A repository may exist before its first bootstrap: it is then adopted.
Init ==
    /\ gh \in [Repos -> [exists : BOOLEAN, base : {AutoInit}, branch : {None},
                         pulls : {<<>>}, topics : {FALSE}]]
    /\ source \in {0, MaxSha} \cap {0, 1}
    /\ status = [n \in Runs |-> "waiting"] /\ met = [n \in Runs |-> {}]
    /\ touched = [n \in Runs |-> {}]
    /\ failed = [n \in Runs |-> FALSE]
    /\ queue = [n \in Runs |-> <<>>]
    /\ cache = [n \in Runs |-> None]
    /\ at = [n \in Runs |-> [k \in Workers |-> Idle]]
    /\ faults = 0 /\ human = 0

-----------------------------------------------------------------------------
(* Reading GitHub's state.                                                 *)

Last(s) == s[Len(s)]

Extends(longer, shorter) ==
    /\ Len(shorter) <= Len(longer)
    /\ \A i \in 1..Len(shorter) : shorter[i] = longer[i]

OpenPulls(r) == {i \in DOMAIN gh[r].pulls : gh[r].pulls[i].state = "open"}
Drafts(r) == {i \in OpenPulls(r) : gh[r].pulls[i].draft}
Lowest(S) == CHOOSE i \in S : \A j \in S : i <= j

\* The tree of writeTree: the generated files over what is there already.
Generated(r, pins, old) ==
    IF r \in Needs
    THEN [pins |-> pins, gate |-> pins = 0 \/ old.gate]
    ELSE [pins |-> 0, gate |-> old.gate]

TreeOf(commit) == [pins |-> commit.pins, gate |-> commit.gate]

-----------------------------------------------------------------------------
(* How a worker goes on.                                                   *)

Repo(n, k) == Head(at[n][k].left)
At(n, k, pc) == status[n] = "running" /\ at[n][k].pc = pc

SetLocals(n, k, locals) == at' = [at EXCEPT ![n][k] = locals]

Goto(n, k, pc) ==
    /\ SetLocals(n, k, [at[n][k] EXCEPT !.pc = pc])
    /\ UNCHANGED <<failed, faults>>

\* mapConcurrent catches the error: the rest of the pair is abandoned.
Throw(n, k) ==
    /\ failed' = [failed EXCEPT ![n] = TRUE]
    /\ SetLocals(n, k, Idle)

Refused(n, k) == Throw(n, k) /\ UNCHANGED <<gh, faults>>

MayFault == faults < MaxFaults

\* After a request took effect: the response arrives, or it is lost and the
\* retry (if the status allows one) is refused by what the first one did.
Answered(n, k, pc) ==
    \/ Goto(n, k, pc)
    \/ MayFault /\ faults' = faults + 1 /\ Throw(n, k)

-----------------------------------------------------------------------------
(* One invocation.                                                         *)

UnderWay == {m \in Runs : status[m] = "running"}

Begin(n) ==
    /\ status[n] = "waiting"
    /\ Overlap \/ UnderWay = {}
    /\ status' = [status EXCEPT ![n] = "running"]
    /\ met' = [m \in Runs |-> met[m] \cup (IF m = n THEN UnderWay
                                          ELSE IF m \in UnderWay THEN {n} ELSE {})]
    /\ queue' = [queue EXCEPT ![n] = Pairs]
    /\ UNCHANGED <<gh, source, touched, failed, cache, at, faults, human>>

TakePair(n, k) ==
    /\ At(n, k, "idle") /\ queue[n] # <<>>
    /\ queue' = [queue EXCEPT ![n] = Tail(queue[n])]
    /\ SetLocals(n, k, [Idle EXCEPT !.pc = "ensure", !.left = ReposOf[Head(queue[n])]])
    /\ UNCHANGED <<gh, source, status, met, touched, failed, cache, faults, human>>

Exit(n) ==
    /\ status[n] = "running" /\ queue[n] = <<>>
    /\ \A k \in Workers : at[n][k].pc = "idle"
    /\ status' = [status EXCEPT ![n] = "exited"]
    /\ UNCHANGED <<gh, source, met, touched, failed, queue, cache, at, faults, human>>

\* ensureRepository: adopt the repository or create it.
GetRepository(n, k) ==
    /\ At(n, k, "ensure")
    /\ Goto(n, k, IF gh[Repo(n, k)].exists THEN "resolve" ELSE "create")
    /\ UNCHANGED <<gh, source, status, met, touched, queue, cache, human>>

PostRepository(n, k) ==
    LET r == Repo(n, k) IN
    /\ At(n, k, "create")
    /\ IF gh[r].exists
       THEN Refused(n, k)
       ELSE /\ gh' = [gh EXCEPT ![r].exists = TRUE]
            /\ Answered(n, k, "resolve")
    /\ UNCHANGED <<source, status, met, touched, queue, cache, human>>

\* Mutant: no cache.
ResolveUncached(n, k) ==
    /\ At(n, k, "resolve")
    /\ IF Repo(n, k) \in Needs
       THEN /\ cache' = [cache EXCEPT ![n] = source]
            /\ SetLocals(n, k, [at[n][k] EXCEPT !.pc = "fetch", !.pins = source])
            /\ UNCHANGED <<failed, faults>>
       ELSE Goto(n, k, "fetch") /\ UNCHANGED cache
    /\ UNCHANGED <<gh, source, status, met, touched, queue, human>>

\* resolveSource through the cache shared by the workers; a rejected promise
\* stays in it.
Resolve(n, k) ==
    /\ At(n, k, "resolve")
    /\ LET found == IF cache[n] = None THEN source ELSE cache[n] IN
       IF Repo(n, k) \notin Needs
       THEN Goto(n, k, "fetch") /\ UNCHANGED cache
       ELSE IF found = Rejected
       THEN Throw(n, k) /\ UNCHANGED <<cache, faults>>
       ELSE /\ cache' = [cache EXCEPT ![n] = found]
            /\ SetLocals(n, k, [at[n][k] EXCEPT !.pc = "fetch", !.pins = found])
            /\ UNCHANGED <<failed, faults>>
    /\ UNCHANGED <<gh, source, status, met, touched, queue, human>>

CommitOf(n, tree) == [by |-> n, pins |-> tree.pins, gate |-> tree.gate]

\* Mutant: an unchanged tree is committed again.
CommitAlways(n, k, tip) ==
    /\ Len(tip) < 4
    /\ SetLocals(n, k, [at[n][k] EXCEPT !.pc = "push",
         !.work = Append(tip, CommitOf(n, Generated(Repo(n, k), at[n][k].pins, Last(tip))))])

\* Mutant: without a new commit the pull request is not looked at.
UnchangedSkipsPull(n, k, tip) ==
    LET tree == Generated(Repo(n, k), at[n][k].pins, Last(tip)) IN
    SetLocals(n, k, IF TreeOf(Last(tip)) = tree
                    THEN [at[n][k] EXCEPT !.pc = "topics"]
                    ELSE [at[n][k] EXCEPT !.pc = "push",
                                          !.work = Append(tip, CommitOf(n, tree))])

\* gitPushWriteTree up to the commit; without a change nothing is pushed.
CommitOn(n, k, tip) ==
    LET tree == Generated(Repo(n, k), at[n][k].pins, Last(tip)) IN
    SetLocals(n, k, IF TreeOf(Last(tip)) = tree
                    THEN [at[n][k] EXCEPT !.pc = "list"]
                    ELSE [at[n][k] EXCEPT !.pc = "push",
                                          !.work = Append(tip, CommitOf(n, tree))])

\* The work starts from the branch if it can be fetched, else from the default
\* branch: a failed fetch is taken for a branch that does not exist.
FetchBranch(n, k) ==
    LET r == Repo(n, k) IN
    /\ At(n, k, "fetch")
    /\ CommitOn(n, k, IF gh[r].branch # None THEN gh[r].branch ELSE gh[r].base)
    /\ UNCHANGED <<gh, source, status, met, touched, failed, queue, cache, faults, human>>

FetchFallsBack(n, k) ==
    LET r == Repo(n, k) IN
    /\ At(n, k, "fetch")
    /\ gh[r].branch # None /\ MayFault
    /\ faults' = faults + 1
    /\ CommitOn(n, k, gh[r].base)
    /\ UNCHANGED <<gh, source, status, met, touched, failed, queue, cache, human>>

\* Mutant: a forced push.
PushForced(n, k) ==
    /\ At(n, k, "push")
    /\ gh' = [gh EXCEPT ![Repo(n, k)].branch = at[n][k].work]
    /\ Answered(n, k, "list")
    /\ UNCHANGED <<source, status, met, touched, queue, cache, human>>

\* git push without force: a branch that is there must be extended.
Push(n, k) ==
    LET r == Repo(n, k) IN
    /\ At(n, k, "push")
    /\ IF gh[r].branch = None \/ Extends(at[n][k].work, gh[r].branch)
       THEN /\ gh' = [gh EXCEPT ![r].branch = at[n][k].work]
            /\ Answered(n, k, "list")
       ELSE Refused(n, k)
    /\ UNCHANGED <<source, status, met, touched, queue, cache, human>>

\* Mutant: a pull request that is ready for review is kept like a draft.
ListKeepsAny(n, k) ==
    LET r == Repo(n, k)
        open == OpenPulls(r)
        toClose == IF open = {} THEN {} ELSE open \ {Lowest(open)}
    IN
    /\ At(n, k, "list")
    /\ SetLocals(n, k, [at[n][k] EXCEPT !.pc = "close", !.toClose = toClose,
                                        !.keeper = open # {}])
    /\ UNCHANGED <<gh, source, status, met, touched, failed, queue, cache, faults, human>>

\* ensurePullRequest: the lowest draft is kept and every other open one is
\* closed; without a draft all of them are closed and a draft is opened.
ListPulls(n, k) ==
    LET r == Repo(n, k)
        drafts == Drafts(r)
        toClose == IF drafts = {} THEN OpenPulls(r) ELSE OpenPulls(r) \ {Lowest(drafts)}
    IN
    /\ At(n, k, "list")
    /\ SetLocals(n, k, [at[n][k] EXCEPT !.pc = "close", !.toClose = toClose,
                                        !.keeper = drafts # {}])
    /\ UNCHANGED <<gh, source, status, met, touched, failed, queue, cache, faults, human>>

AllClosed(n, k) ==
    /\ At(n, k, "close") /\ at[n][k].toClose = {}
    /\ Goto(n, k, IF at[n][k].keeper THEN "topics" ELSE "open")
    /\ UNCHANGED <<gh, source, status, met, touched, queue, cache, human>>

ClosePull(n, k) ==
    LET r == Repo(n, k)
        i == Lowest(at[n][k].toClose)
    IN
    /\ At(n, k, "close") /\ at[n][k].toClose # {}
    /\ gh' = [gh EXCEPT ![r].pulls[i].state = IF @ = "open" THEN "closed" ELSE @]
    /\ \/ /\ SetLocals(n, k, [at[n][k] EXCEPT !.toClose = @ \ {i}])
          /\ UNCHANGED <<failed, faults>>
       \/ MayFault /\ faults' = faults + 1 /\ Throw(n, k)
    /\ UNCHANGED <<source, status, met, touched, queue, cache, human>>

\* GitHub refuses a pull request whose head does not exist, and a second
\* open one for the same head and base.
PostPull(n, k) ==
    LET r == Repo(n, k) IN
    /\ At(n, k, "open")
    /\ IF gh[r].branch = None \/ OpenPulls(r) # {}
       THEN Refused(n, k)
       ELSE /\ gh' = [gh EXCEPT ![r].pulls = Append(@, [state |-> "open", draft |-> TRUE])]
            /\ Answered(n, k, "topics")
    /\ UNCHANGED <<source, status, met, touched, queue, cache, human>>

\* ensureTopics, which the launcher makes return first when topics are skipped.
EnsureTopics(n, r) ==
    gh' = IF n \in SkipTopics THEN gh ELSE [gh EXCEPT ![r].topics = TRUE]

\* The topics end a repository: the worker goes on with the next of its pair.
PutTopics(n, k) ==
    LET rest == Tail(at[n][k].left) IN
    /\ At(n, k, "topics")
    /\ EnsureTopics(n, Repo(n, k))
    /\ SetLocals(n, k, IF rest = <<>> THEN Idle
                       ELSE [Idle EXCEPT !.pc = "ensure", !.left = rest])
    /\ UNCHANGED <<source, status, met, touched, failed, queue, cache, faults, human>>

\* Mutant: a source whose lookup fails is taken for a missing one at once.
RequestReadsMissing(n, k) ==
    /\ status[n] = "running" /\ at[n][k].pc # "idle" /\ MayFault
    /\ faults' = faults + 1
    /\ IF at[n][k].pc = "resolve" /\ Repo(n, k) \in Needs /\ cache[n] = None
       THEN /\ cache' = [cache EXCEPT ![n] = 0]
            /\ SetLocals(n, k, [at[n][k] EXCEPT !.pc = "fetch", !.pins = 0])
            /\ UNCHANGED failed
       ELSE UNCHANGED cache /\ Throw(n, k)
    /\ UNCHANGED <<gh, source, status, met, touched, queue, human>>

\* A request fails without an effect; a failed lookup of the source rejects
\* the shared promise.
RequestFails(n, k) ==
    /\ status[n] = "running" /\ at[n][k].pc # "idle" /\ MayFault
    /\ faults' = faults + 1
    /\ IF at[n][k].pc = "resolve" /\ Repo(n, k) \in Needs /\ cache[n] = None
       THEN cache' = [cache EXCEPT ![n] = Rejected]
       ELSE UNCHANGED cache
    /\ Throw(n, k)
    /\ UNCHANGED <<gh, source, status, met, touched, queue, human>>

\* cancel-in-progress or a timeout ends the invocation where it stands.
Cancel(n) ==
    /\ status[n] = "running" /\ MayFault
    /\ status' = [status EXCEPT ![n] = "cancelled"]
    /\ faults' = faults + 1
    /\ UNCHANGED <<gh, source, met, touched, failed, queue, cache, at, human>>

-----------------------------------------------------------------------------
(* The environment.                                                        *)

SourceMoves ==
    /\ source < MaxSha
    /\ source' = source + 1
    /\ UNCHANGED <<gh, run, faults, human>>

Human(r, state) ==
    /\ human < MaxHuman
    /\ human' = human + 1
    /\ gh' = [gh EXCEPT ![r] = state]
    /\ touched' = [n \in Runs |-> touched[n] \cup (IF status[n] = "waiting" THEN {} ELSE {r})]
    /\ UNCHANGED <<source, status, met, failed, queue, cache, at, faults>>

MarkReady(r, i) ==
    /\ i \in Drafts(r)
    /\ Human(r, [gh[r] EXCEPT !.pulls[i].draft = FALSE])

HumanCommit(r) ==
    /\ gh[r].branch # None
    /\ Human(r, [gh[r] EXCEPT !.branch = Append(@, [Last(@) EXCEPT !.by = "human"])])

\* A squash merge, after which delete_branch_on_merge removes the branch.
MergePull(r, i) ==
    /\ i \in OpenPulls(r) \ Drafts(r)
    /\ Human(r, [gh[r] EXCEPT !.pulls[i].state = "merged", !.branch = None,
                   !.base = Append(@, [Last(gh[r].branch) EXCEPT !.by = "human"])])

WorkerStep(n, k) ==
    \/ TakePair(n, k) \/ GetRepository(n, k) \/ PostRepository(n, k) \/ Resolve(n, k)
    \/ FetchBranch(n, k) \/ Push(n, k) \/ ListPulls(n, k) \/ AllClosed(n, k)
    \/ ClosePull(n, k) \/ PostPull(n, k) \/ PutTopics(n, k)

RunStep(n) == Begin(n) \/ Exit(n) \/ \E k \in Workers : WorkerStep(n, k)

Failure(n) == Cancel(n) \/ \E k \in Workers : RequestFails(n, k) \/ FetchFallsBack(n, k)

Environment ==
    \/ SourceMoves
    \/ \E r \in Repos : \/ HumanCommit(r)
                        \/ \E i \in DOMAIN gh[r].pulls : MarkReady(r, i) \/ MergePull(r, i)

Next == (\E n \in Runs : RunStep(n) \/ Failure(n)) \/ Environment

\* Each invocation runs; nothing obliges people or faults to act.
Fairness == \A n \in Runs : WF_vars(RunStep(n))

Spec == Init /\ [][Next]_vars
FairSpec == Spec /\ Fairness

-----------------------------------------------------------------------------
(* Properties.                                                             *)

Locals == [pc : Steps, left : Seq(Repos), pins : Shas, work : Seq(Commit),
           toClose : SUBSET Nat, keeper : BOOLEAN]

Repository == [exists : BOOLEAN, base : Seq(Commit), branch : Seq(Commit) \cup {None},
               pulls : Seq(Pull), topics : BOOLEAN]

\* The variables stay in their domains, and a worker that is not idle has a
\* repository at hand.
TypeOK ==
    /\ gh \in [Repos -> Repository]
    /\ source \in Shas
    /\ status \in [Runs -> {"waiting", "running", "exited", "cancelled"}]
    /\ met \in [Runs -> SUBSET Runs]
    /\ touched \in [Runs -> SUBSET Repos]
    /\ failed \in [Runs -> BOOLEAN]
    /\ queue \in [Runs -> Seq(DOMAIN ReposOf)]
    /\ cache \in [Runs -> Shas \cup {None, Rejected}]
    /\ at \in [Runs -> [Workers -> Locals]]
    /\ faults \in 0..MaxFaults /\ human \in 0..MaxHuman
    /\ \A r \in Repos : gh[r].base # <<>> /\ gh[r].branch # <<>>
    /\ \A n \in Runs, k \in Workers :
          /\ at[n][k].pc # "idle" => at[n][k].left # <<>>
          /\ at[n][k].pc = "push" => at[n][k].work # <<>>

Bootstrapped(r) ==
    /\ gh[r].exists
    /\ gh[r].branch # None /\ Last(gh[r].branch).pins # None
    /\ Drafts(r) # {}

\* An invocation that exits 0 has left every selected repository created,
\* seeded and proposed by a draft, and with its topics unless it skips them:
\* whatever failed in other invocations, however they overlapped with it and
\* whatever people had done before it began.  Repositories that people acted
\* on since are excepted.
CleanExitBootstraps ==
    \A n \in Runs : status[n] = "exited" /\ ~failed[n] =>
        \A r \in Repos \ touched[n] :
            Bootstrapped(r) /\ (n \notin SkipTopics => gh[r].topics)

\* No invocation rewrites a branch: what people or other invocations put on
\* a generated branch stays in its history until the branch is merged.
NeverRewritten ==
    [][\A r \in Repos : gh[r].branch # None /\ gh'[r].branch # None =>
          Extends(gh'[r].branch, gh[r].branch)]_vars

\* All repositories that one invocation commits pin the same commit of the
\* source, although the source moves while its workers go through them.
OnePinPerRun ==
    \A r, s \in Needs :
       gh[r].branch # None /\ gh[s].branch # None =>
          \A i \in DOMAIN gh[r].branch, j \in DOMAIN gh[s].branch :
             gh[r].branch[i].by \in Runs /\ gh[r].branch[i].by = gh[s].branch[j].by =>
                gh[r].branch[i].pins = gh[s].branch[j].pins

\* Of two commits of invocations on one branch the later one pins an older
\* source only if their invocations overlapped: it was pushed late, after an
\* early lookup.  What people commit in between does not hide an older pin.
PinsInOrder ==
    \A r \in Needs : gh[r].branch # None =>
        \A i, j \in DOMAIN gh[r].branch :
           LET old == gh[r].branch[i]
               new == gh[r].branch[j]
           IN i < j /\ {old.by, new.by} \subseteq Runs =>
                 old.pins <= new.pins \/ old.by \in met[new.by]

Current(r) ==
    /\ Bootstrapped(r) /\ (gh[r].topics \/ Runs \subseteq SkipTopics)
    /\ (r \in Needs => Last(gh[r].branch).pins = source)

\* Idempotence: a repository that is bootstrapped and current is left alone
\* by every later invocation (invocations do not overlap).
ReRunsAreQuiet ==
    [][\A r \in Repos : Current(r) /\ human' = human => gh'[r] = gh[r]]_vars

\* A later invocation never moves a pin back to an older source commit
\* (invocations do not overlap).
PinsMoveForward ==
    [][\A r \in Needs : gh[r].branch # None /\ gh'[r].branch # None =>
          \/ Last(gh[r].branch).pins = None
          \/ Last(gh'[r].branch).pins >= Last(gh[r].branch).pins]_vars

\* Attempts that outnumber the faults leave the fleet bootstrapped.
AttemptsConverge == <>(\A r \in Repos : Bootstrapped(r))
=============================================================================
