----------------------------- MODULE FleetMerge -----------------------------
(***************************************************************************)
(* merge-open-pr-fleet.mjs: the exact-head merger of the open-PR fleet.    *)
(*                                                                         *)
(* The script is one sequential process (the workflow's concurrency group  *)
(* allows one run at a time).  GitHub is shared with authors, CI and other *)
(* mergers, which act between any two of its requests; a request may be    *)
(* applied although its response is lost.                                  *)
(*                                                                         *)
(* All pull requests are taken to be in one repository, so that isolation  *)
(* matters.  A head is a number; a push moves to the next one, and a       *)
(* forced push to any other.  What                                         *)
(* coreReasons reads is abstracted to three answers about the current      *)
(* head: blocked (veto, review, comment or size), green (its checks) and   *)
(* clean (mergeable, and CLEAN unless it is a draft).                      *)
(***************************************************************************)
EXTENDS Naturals, FiniteSets

CONSTANTS
    PRs,          \* the repository's pull requests
    Searchable,   \* those the search can return (author:ORESoftware)
    Target,       \* TARGET: merges after which the run stops
    MaxHead,      \* bound: heads of one pull request
    MaxEvents,    \* bound: steps of authors, CI and other mergers
    MaxPolls,     \* polls of a promoted pull request
    MaxTries,     \* attempts of the merge request
    FilesAt,      \* [PRs -> [0..MaxHead -> set of paths]]
    SafeHeads,    \* [PRs -> set of heads whose patch patchReasons accepts]
    None

ASSUME BoundsAssumption ==
    /\ MaxHead \in Nat /\ MaxEvents \in Nat /\ Target \in Nat \ {0}
    /\ MaxPolls \in Nat \ {0} /\ MaxTries \in Nat \ {0}

ASSUME PRsAssumption == IsFiniteSet(PRs) /\ Searchable \subseteq PRs

Heads == 0..MaxHead

View == [state : {"open", "merged", "closed"}, draft : BOOLEAN, head : Heads,
         blocked : BOOLEAN, green : BOOLEAN, clean : BOOLEAN]

VARIABLES
    gh,        \* GitHub's state of each pull request
    events,    \* bound of the environment
    rewound,   \* history: a forced push returned to an earlier head
    pc,        \* the script's position
    snap,      \* the snapshot's view of each pull request, or None
    total,     \* totalCount of open PRs that came with the first one observed
    queue,     \* candidates not yet handled
    cur,       \* the candidate at hand, or None
    pr,        \* mergeCandidate's `pr`: the view it last adopted
    promoted,  \* mergeCandidate's `promoted`
    tries,     \* polls or merge attempts made
    merged,    \* `merged`: the candidates reported as merged
    byRun,     \* history: the head at which the run's request merged a PR
    readied,   \* history: pull requests the run took out of draft
    scanned,   \* history: the head whose patch was scanned for the candidate
    faulty     \* history: pull requests of which a request or a response was lost

envVars == <<events, rewound>>
ghVars == <<gh, envVars>>
history == <<byRun, readied, scanned, faulty>>
vars == <<ghVars, pc, snap, total, queue, cur, pr, promoted, tries, merged, history>>

Init ==
    /\ gh \in [PRs -> {v \in View : /\ v.state \in {"open", "closed"}
                                    /\ v.head = 0 /\ v.green /\ ~v.blocked
                                    /\ v.clean = (v.state = "open")}]
    /\ events = 0
    /\ rewound = FALSE
    /\ pc = "snapshot"
    /\ snap = [p \in PRs |-> None]
    /\ total = 0
    /\ queue = {}
    /\ cur = None
    /\ pr = None
    /\ promoted = FALSE
    /\ tries = 0
    /\ merged = {}
    /\ byRun = [p \in PRs |-> None]
    /\ readied = {}
    /\ scanned = None
    /\ faulty = {}

-----------------------------------------------------------------------------
(* Authors, reviewers, CI and other mergers.                               *)

Environment(p, v) ==
    /\ events < MaxEvents
    /\ events' = events + 1
    /\ gh' = [gh EXCEPT ![p] = v]
    /\ rewound' = (rewound \/ v.head < gh[p].head)
    /\ UNCHANGED <<pc, snap, total, queue, cur, pr, promoted, tries, merged, history>>

\* A push starts new checks and GitHub recomputes mergeability.
Push(p) ==
    /\ gh[p].state = "open"
    /\ \E h \in Heads \ {gh[p].head} :
          Environment(p, [gh[p] EXCEPT !.head = h, !.green = FALSE, !.clean = FALSE])

Recheck(p) ==
    /\ gh[p].state = "open"
    /\ \E g, c, b \in BOOLEAN :
          Environment(p, [gh[p] EXCEPT !.green = g, !.clean = c, !.blocked = b])

CloseOrMerge(p) ==
    /\ gh[p].state = "open"
    /\ \E s \in {"merged", "closed"} :
          Environment(p, [gh[p] EXCEPT !.state = s, !.clean = FALSE])

-----------------------------------------------------------------------------
(* The script.                                                             *)

CoreReasons(v) == v.blocked \/ ~v.green \/ ~v.clean

Overlap(p, q) ==
    FilesAt[p][snap[p].head] \cap FilesAt[q][snap[q].head] # {}

Observed == {p \in PRs : snap[p] # None}

\* Mutant: no isolation.
IsolatedFromNone(p) == p \in Observed

Isolated(p) == \A q \in Observed \ {p} : ~Overlap(p, q)

OpenCount == Cardinality({p \in PRs : gh[p].state = "open"})

\* loadSnapshot: the search pages are requests of their own; each returns pull
\* requests that are open when it is answered.
ObservePR(p) ==
    /\ pc = "snapshot"
    /\ p \in Searchable /\ snap[p] = None /\ gh[p].state = "open"
    /\ snap' = [snap EXCEPT ![p] = gh[p]]
    /\ total' = IF Observed = {} THEN OpenCount ELSE total
    /\ UNCHANGED <<ghVars, pc, queue, cur, pr, promoted, tries, merged, history>>

\* addIsolation and classify, at the end of the search or at its limit.
Classify ==
    /\ pc = "snapshot"
    /\ queue' = {p \in Observed : /\ ~CoreReasons(snap[p])
                                  /\ Cardinality(Observed) = total
                                  /\ Isolated(p)}
    /\ pc' = "next"
    /\ UNCHANGED <<ghVars, snap, total, cur, pr, promoted, tries, merged, history>>

\* Mutant: a candidate stays in the queue.
TakeAndKeep(p) ==
    /\ pc = "next"
    /\ Cardinality(merged) < Target
    /\ p \in queue
    /\ cur' = p
    /\ pr' = None /\ promoted' = FALSE /\ tries' = 0 /\ scanned' = None
    /\ pc' = "load"
    /\ UNCHANGED <<ghVars, snap, total, queue, merged, byRun, readied, faulty>>

\* The main loop takes the next candidate (the sort order is left open).
TakeCandidate(p) ==
    /\ pc = "next"
    /\ Cardinality(merged) < Target
    /\ p \in queue
    /\ cur' = p
    /\ queue' = queue \ {p}
    /\ pr' = None /\ promoted' = FALSE /\ tries' = 0 /\ scanned' = None
    /\ pc' = "load"
    /\ UNCHANGED <<ghVars, snap, total, merged, byRun, readied, faulty>>

Finish ==
    /\ pc = "next"
    /\ Cardinality(merged) >= Target \/ queue = {}
    /\ pc' = "done"
    /\ UNCHANGED <<ghVars, snap, total, queue, cur, pr, promoted, tries, merged, history>>

\* Return to the main loop: `skipped`, or `exception` caught there.
LeaveCandidate == pc' = "next"

\* Mutant: a skip after a promotion leaves the pull request ready.
SkipUnrestored == pc' = "next"

\* A skip after a promotion restores the draft first.
SkipPromoted == pc' = IF promoted THEN "restore" ELSE "next"

\* loadOne, the head-moved check and the fresh coreReasons.
LoadFresh ==
    /\ pc = "load"
    /\ IF gh[cur].head # snap[cur].head \/ CoreReasons(gh[cur])
         THEN LeaveCandidate /\ UNCHANGED pr
         ELSE /\ pr' = gh[cur]
              /\ pc' = "patch"
    /\ UNCHANGED <<ghVars, snap, total, queue, cur, promoted, tries, merged, history>>

\* Mutant: the verdict on the patch is not acted upon.
ScanIgnored ==
    /\ pc = "patch"
    /\ scanned' = gh[cur].head
    /\ pc' = IF pr.draft THEN "ready" ELSE "put"
    /\ UNCHANGED <<ghVars, snap, total, queue, cur, pr, promoted, tries, merged, byRun, readied, faulty>>

\* patchReasons: the REST file list of whatever head is current by now.
ScanPatch ==
    /\ pc = "patch"
    /\ scanned' = gh[cur].head
    /\ pc' = IF gh[cur].head \notin SafeHeads[cur] THEN "next"
             ELSE IF pr.draft THEN "ready" ELSE "put"
    /\ UNCHANGED <<ghVars, snap, total, queue, cur, pr, promoted, tries, merged, byRun, readied, faulty>>

\* A request of the candidate, or its response, is lost.
Fault == faulty' = faulty \cup {cur}

\* GitHub's side of markPullRequestReadyForReview and convertPullRequestToDraft.
SetDraft(d) ==
    gh' = [gh EXCEPT ![cur].draft = IF @ # d /\ gh[cur].state = "open" THEN d ELSE @]

MarkReady ==
    /\ pc = "ready"
    /\ SetDraft(FALSE)
    /\ readied' = IF gh[cur].state = "open" THEN readied \cup {cur} ELSE readied
    /\ \/ /\ promoted' = TRUE
          /\ pc' = "poll"
          /\ UNCHANGED faulty
       \/ /\ Fault                       \* applied, but every response was lost
          /\ LeaveCandidate
          /\ UNCHANGED promoted
    /\ UNCHANGED <<envVars, snap, total, queue, cur, pr, tries, merged, byRun, scanned>>

Settled(v) == ~v.draft /\ v.clean

\* One loadOne of the polling loop, and the decision after its last one.
Poll ==
    /\ pc = "poll"
    /\ tries' = tries + 1
    /\ CASE Settled(gh[cur]) /\ gh[cur].green -> /\ pr' = gh[cur]
                                                 /\ pc' = "headcheck"
         [] Settled(gh[cur]) /\ ~gh[cur].green -> pc' = "restore" /\ UNCHANGED pr
         [] OTHER -> /\ pc' = IF tries' = MaxPolls THEN "restore" ELSE "poll"
                     /\ UNCHANGED pr
    /\ UNCHANGED <<ghVars, snap, total, queue, cur, promoted, merged, history>>

\* Mutant: the head is not compared again after the promotion.
HeadNotCompared ==
    /\ pc = "headcheck"
    /\ pc' = "put"
    /\ tries' = 0
    /\ UNCHANGED <<ghVars, snap, total, queue, cur, pr, promoted, merged, history>>

HeadAfterPromotion ==
    /\ pc = "headcheck"
    /\ IF pr.head # snap[cur].head THEN SkipPromoted ELSE pc' = "put"
    /\ tries' = 0
    /\ UNCHANGED <<ghVars, snap, total, queue, cur, pr, promoted, merged, history>>

\* No merge method is allowed in the repository.
NoMergeMethod ==
    /\ pc = "put" /\ tries = 0
    /\ SkipPromoted
    /\ UNCHANGED <<ghVars, snap, total, queue, cur, pr, promoted, tries, merged, history>>

\* GitHub may merge only an open, ready pull request whose head is the sha.
Acceptable == gh[cur].state = "open" /\ ~gh[cur].draft /\ gh[cur].head = pr.head

\* The response to an applied merge may be lost: the request is repeated, and
\* after the last attempt reported as a merge-api error.
PutMerge ==
    /\ pc = "put"
    /\ Acceptable
    /\ gh' = [gh EXCEPT ![cur].state = "merged", ![cur].clean = FALSE]
    /\ byRun' = [byRun EXCEPT ![cur] = gh[cur].head]
    /\ tries' = tries + 1
    /\ \/ pc' = "verify" /\ UNCHANGED faulty
       \/ /\ Fault
          /\ IF tries' = MaxTries THEN SkipPromoted ELSE UNCHANGED pc
    /\ UNCHANGED <<envVars, snap, total, queue, cur, pr, promoted, merged, readied, scanned>>

\* Mutant: a refusal is taken for "already merged".
RefusalCounted ==
    /\ pc = "put"
    /\ merged' = merged \cup {cur}
    /\ LeaveCandidate
    /\ UNCHANGED <<ghVars, snap, total, queue, cur, pr, promoted, tries, history>>

\* 405, 409, 422 or merged: false; these are not retried.
PutRefused ==
    /\ pc = "put"
    /\ SkipPromoted
    /\ UNCHANGED <<ghVars, snap, total, queue, cur, pr, promoted, tries, merged, history>>

\* The request itself is lost, or answered 429 or 5xx without effect.
PutLost ==
    /\ pc = "put"
    /\ Fault
    /\ tries' = tries + 1
    /\ IF tries' = MaxTries THEN SkipPromoted ELSE UNCHANGED pc
    /\ UNCHANGED <<ghVars, snap, total, queue, cur, pr, promoted, merged, byRun, readied, scanned>>

\* restoreDraft swallows its own failure; the outcome is a skip either way.
RestoreDraft ==
    /\ pc = "restore"
    /\ \/ SetDraft(TRUE) /\ UNCHANGED faulty
       \/ Fault /\ UNCHANGED gh
    /\ LeaveCandidate
    /\ UNCHANGED <<envVars, snap, total, queue, cur, pr, promoted, tries, merged, byRun, readied,
                   scanned>>

\* Mutant: the loaded view is recorded, not the pull request.
VerifyRecordsView ==
    /\ pc = "verify"
    /\ merged' = merged \cup {pr}
    /\ LeaveCandidate
    /\ UNCHANGED <<ghVars, snap, total, queue, cur, pr, promoted, tries, byRun, readied, scanned, faulty>>

\* Post-merge verification; a mismatch throws and is not counted.
Verify ==
    /\ pc = "verify"
    /\ merged' = IF gh[cur].state = "merged" /\ gh[cur].head = pr.head
                   THEN merged \cup {cur} ELSE merged
    /\ LeaveCandidate
    /\ UNCHANGED <<ghVars, snap, total, queue, cur, pr, promoted, tries, byRun, readied, scanned, faulty>>

\* A request of the candidate fails for good: the main loop's catch.
Exception ==
    /\ pc \in {"load", "patch", "ready", "poll", "verify"}
    /\ Fault
    /\ LeaveCandidate
    /\ UNCHANGED <<ghVars, snap, total, queue, cur, pr, promoted, tries, merged, byRun, readied,
                   scanned>>

Merger ==
    \/ \E p \in PRs : ObservePR(p) \/ TakeCandidate(p)
    \/ Classify \/ Finish \/ LoadFresh \/ ScanPatch \/ MarkReady \/ Poll
    \/ HeadAfterPromotion \/ NoMergeMethod \/ PutMerge \/ PutRefused \/ PutLost
    \/ RestoreDraft \/ Verify \/ Exception

Others == \E p \in PRs : Push(p) \/ Recheck(p) \/ CloseOrMerge(p)

Next == Merger \/ Others

Spec == Init /\ [][Next]_vars

\* Every request is answered or times out, so the script keeps stepping.
FairSpec == Spec /\ WF_vars(Merger)

-----------------------------------------------------------------------------

\* Every variable has its type.
TypeOK ==
    /\ gh \in [PRs -> View]
    /\ events \in 0..MaxEvents
    /\ rewound \in BOOLEAN
    /\ pc \in {"snapshot", "next", "load", "patch", "ready", "poll", "headcheck",
               "put", "restore", "verify", "done"}
    /\ snap \in [PRs -> View \cup {None}]
    /\ total \in Nat
    /\ queue \subseteq PRs
    /\ cur \in PRs \cup {None}
    /\ pr \in View \cup {None}
    /\ promoted \in BOOLEAN
    /\ tries \in Nat
    /\ merged \subseteq PRs
    /\ byRun \in [PRs -> Heads \cup {None}]
    /\ readied \subseteq PRs
    /\ scanned \in Heads \cup {None}
    /\ faulty \subseteq PRs

MergedByRun == {p \in PRs : byRun[p] # None}

\* The exact-head guard (summary line, merge-open-pr-fleet.mjs:568): whatever
\* was pushed meanwhile, forced pushes included, a pull request the run merges
\* is merged at the head the snapshot classified.
ExactHead ==
    \A p \in MergedByRun : snap[p] # None /\ byRun[p] = snap[p].head

\* The merged head is one that passed the patch checks, although patchReasons
\* reads the files of whatever head is current (line 390) and never compares
\* that head: it takes that no forced push returned to an earlier head.
ScannedHead == ~rewound => \A p \in MergedByRun : byRun[p] \in SafeHeads[p]

\* Isolation: no two pull requests merged by one run touch the same file, even
\* though heads move between the snapshot and the merges.
IsolatedMerges ==
    \A p, q \in MergedByRun : p # q =>
        FilesAt[p][byRun[p]] \cap FilesAt[q][byRun[q]] = {}

\* The report never claims a merge that did not happen.
ReportedAreMerged ==
    \A p \in merged : gh[p].state = "merged" /\ byRun[p] = snap[p].head

\* A pull request the run took out of draft does not stay ready: when the run
\* is over it was merged, closed or returned to draft, unless one of its own
\* requests failed (restoreDraft on every skip after a promotion, lines 453-487).
NoneLeftPromoted ==
    pc = "done" =>
        \A p \in readied \ faulty : gh[p].state = "open" => gh[p].draft

\* The run ends, even when heads move, checks flip and responses are lost.
RunEnds == <>(pc = "done")
=============================================================================
