--------------------------- MODULE PortfolioMerge ---------------------------
(***************************************************************************)
(* The two portfolio pipelines: discover ready portfolios, validate the    *)
(* archives of their exact heads without credentials, merge them.          *)
(*                                                                         *)
(*   "rest"     ready-portfolio-fleet.mjs                                  *)
(*   "graphql"  discover-graphql-ready-portfolios-v2.mjs and               *)
(*              merge-graphql-validated-portfolios.mjs                     *)
(*                                                                         *)
(* Their workflows have different concurrency groups, so one run of each   *)
(* may be under way at once, over the same pull requests.  Authors,        *)
(* reviewers, CI and other mergers act between any two requests.  Each     *)
(* portfolio is in a repository of its own.  A request fails after its     *)
(* retries; one that changes something may have been applied all the same. *)
(***************************************************************************)
EXTENDS Naturals, FiniteSets

CONSTANTS
    Runs,       \* subset of {"rest", "graphql"}
    PRs,        \* the pull requests the search returns
    MaxHead,    \* bound: heads of one pull request
    MaxEvents,  \* bound: steps of authors, reviewers, CI and other mergers
    MaxLosses,  \* bound: failed requests
    MaxPolls,   \* polls of a promoted pull request
    Sound,      \* the <<pull request, head>> whose archive the validator accepts
    None

Heads == 0..MaxHead

ASSUME PortfolioAssumption ==
    /\ Runs \subseteq {"rest", "graphql"}
    /\ MaxHead \in Nat /\ MaxEvents \in Nat /\ MaxLosses \in Nat
    /\ MaxPolls \in Nat \ {0}
    /\ Sound \subseteq PRs \X Heads
    /\ None \notin Nat /\ None \notin PRs /\ None \notin Runs

VARIABLES
    gh,        \* GitHub's state of each pull request
    events,    \* bound of the environment
    losses,    \* bound of the failed requests
    pc,        \* each run's position
    todo,      \* entries each run has still to handle in its current job
    entry,     \* head_sha of each run's manifest entry, or None
    archived,  \* the head whose files its archive holds, or None
    cur,       \* the entry at hand, or None
    polls,     \* polls made of it
    reported,  \* `merged`: what the run reports
    mergedBy,  \* history: the run whose request merged the pull request
    warned,    \* history: pull requests the run was warned about (see Take, Promote)
    abandoned  \* history: promotions that a failed request left behind

envVars == <<events, losses>>
history == <<mergedBy, warned, abandoned>>
vars == <<gh, envVars, pc, todo, entry, archived, cur, polls, reported, history>>

View == [state : {"open", "closed", "merged"}, draft : BOOLEAN, head : Heads,
         objection : {"none", "comment", "review"}, clean : BOOLEAN, green : BOOLEAN]

TypeOK ==
    /\ gh \in [PRs -> View]
    /\ events \in 0..MaxEvents /\ losses \in 0..MaxLosses
    /\ pc \in [Runs -> {"inspect", "archive", "validate", "next", "gate", "gateRest",
                        "promote", "poll", "pollAgain", "postChecks", "merge",
                        "verify", "restore", "done"}]
    /\ todo \in [Runs -> SUBSET PRs]
    /\ entry \in [Runs -> [PRs -> Heads \cup {None}]]
    /\ archived \in [Runs -> [PRs -> Heads \cup {None}]]
    /\ cur \in [Runs -> PRs \cup {None}]
    /\ polls \in [Runs -> 0..MaxPolls]
    /\ reported \in [Runs -> SUBSET PRs]
    /\ mergedBy \in [PRs -> Runs \cup {None}]
    /\ warned \in [Runs -> SUBSET PRs]
    /\ abandoned \subseteq PRs

Init ==
    /\ gh = [p \in PRs |-> [state |-> "open", draft |-> TRUE, head |-> 0,
                            objection |-> "none", clean |-> TRUE, green |-> TRUE]]
    /\ events = 0 /\ losses = 0
    /\ pc = [r \in Runs |-> "inspect"]
    /\ todo = [r \in Runs |-> PRs]
    /\ entry = [r \in Runs |-> [p \in PRs |-> None]]
    /\ archived = [r \in Runs |-> [p \in PRs |-> None]]
    /\ cur = [r \in Runs |-> None]
    /\ polls = [r \in Runs |-> 0]
    /\ reported = [r \in Runs |-> {}]
    /\ mergedBy = [p \in PRs |-> None]
    /\ warned = [r \in Runs |-> {}]
    /\ abandoned = {}

-----------------------------------------------------------------------------
(* Authors, reviewers, CI and other mergers.                               *)

Environment(p, v) ==
    /\ gh[p].state = "open"
    /\ events < MaxEvents /\ events' = events + 1
    /\ gh' = [gh EXCEPT ![p] = v]
    /\ UNCHANGED <<losses, pc, todo, entry, archived, cur, polls, reported, history>>

\* A push, or a forced push back to an earlier head.
Push(p) ==
    \E h \in Heads \ {gh[p].head}, c \in BOOLEAN :
        Environment(p, [gh[p] EXCEPT !.head = h, !.clean = c])

Recheck(p) ==
    \E c, g \in BOOLEAN : Environment(p, [gh[p] EXCEPT !.clean = c, !.green = g])

\* A comment, a veto or a request for changes; none is withdrawn.
Object(p) ==
    /\ gh[p].objection = "none"
    /\ \E o \in {"comment", "review"} : Environment(p, [gh[p] EXCEPT !.objection = o])

CloseOrMerge(p) ==
    \E s \in {"closed", "merged"} : Environment(p, [gh[p] EXCEPT !.state = s])

-----------------------------------------------------------------------------
(* Discovery and validation.                                               *)

Goto(r, l) == pc' = [pc EXCEPT ![r] = l]

Handled(r, p) == todo' = [todo EXCEPT ![r] = @ \ {p}]

\* inspectPortfolio, or the loop over the GraphQL search.
Inspect(r, p) ==
    /\ pc[r] = "inspect" /\ p \in todo[r]
    /\ Handled(r, p)
    /\ entry' = [entry EXCEPT ![r][p] =
          IF /\ gh[p].state = "open" /\ gh[p].draft /\ gh[p].clean
             /\ gh[p].objection = "none"
             /\ r = "rest" => gh[p].green
          THEN gh[p].head ELSE None]
    /\ UNCHANGED <<gh, envVars, pc, archived, cur, polls, reported, history>>

Inspected(r) ==
    /\ pc[r] = "inspect" /\ todo[r] = {}
    /\ Goto(r, "archive")
    /\ todo' = [todo EXCEPT ![r] = {p \in PRs : entry[r][p] # None}]
    /\ UNCHANGED <<gh, envVars, entry, archived, cur, polls, reported, history>>

\* Mutant: the archive is the branch's, and is not compared with the head.
ArchiveOfBranch(r, p) ==
    /\ pc[r] = "archive" /\ p \in todo[r]
    /\ Handled(r, p)
    /\ archived' = [archived EXCEPT ![r][p] = gh[p].head]
    /\ UNCHANGED <<gh, envVars, pc, entry, cur, polls, reported, history>>

\* The tarball of head_sha ("rest"), or a clone of the branch that must still be
\* at headRefOid ("graphql"): else the entry fails and is dropped.
Archive(r, p) ==
    /\ pc[r] = "archive" /\ p \in todo[r]
    /\ Handled(r, p)
    /\ \/ /\ r = "graphql" => gh[p].head = entry[r][p]
          /\ archived' = [archived EXCEPT ![r][p] = entry[r][p]]
       \/ UNCHANGED archived
    /\ UNCHANGED <<gh, envVars, pc, entry, cur, polls, reported, history>>

Archived(r) ==
    /\ pc[r] = "archive" /\ todo[r] = {}
    /\ Goto(r, IF \E p \in PRs : archived[r][p] # None THEN "validate" ELSE "done")
    /\ UNCHANGED <<gh, envVars, todo, entry, archived, cur, polls, reported, history>>

\* validate-ready-portfolios.py: each archive's digest, extraction, scan and
\* tests; an empty result fails the job, so the merge job does not start.
Validate(r) ==
    LET accepted == {p \in PRs : <<p, archived[r][p]>> \in Sound}
    IN  /\ pc[r] = "validate"
        /\ todo' = [todo EXCEPT ![r] = accepted]
        /\ Goto(r, IF accepted = {} THEN "done" ELSE "next")
        /\ UNCHANGED <<gh, envVars, entry, archived, cur, polls, reported, history>>

-----------------------------------------------------------------------------
(* The merge job.                                                          *)

This(r) == gh[cur[r]]
HeadIsExact(r) == This(r).head = entry[r][cur[r]]

Warn(r, p) ==
    warned' = IF gh[p].objection = "none" THEN warned
              ELSE [warned EXCEPT ![r] = @ \cup {p}]

\* The loop over the validated entries.  An objection that stands now must
\* stop the run: it is read by the gate.
Take(r, p) ==
    /\ pc[r] = "next" /\ p \in todo[r]
    /\ Handled(r, p)
    /\ cur' = [cur EXCEPT ![r] = p]
    /\ polls' = [polls EXCEPT ![r] = 0]
    /\ Warn(r, p)
    /\ Goto(r, "gate")
    /\ UNCHANGED <<gh, envVars, entry, archived, reported, mergedBy, abandoned>>

Finish(r) ==
    /\ pc[r] = "next" /\ todo[r] = {}
    /\ Goto(r, "done")
    /\ UNCHANGED <<gh, envVars, todo, entry, archived, cur, polls, reported, history>>

\* What a run changes in the merge job but the pull request and the histories.
Stay(r) == UNCHANGED <<todo, entry, archived, cur>>

\* freshMergeGate, up to the first answer, or the whole of `gate`: the first
\* sees comments and vetoes, the second requests for changes as well.
Gate(r) ==
    /\ pc[r] = "gate"
    /\ Goto(r, IF /\ This(r).state = "open" /\ This(r).draft /\ This(r).clean
                  /\ HeadIsExact(r)
                  /\ This(r).objection \in (IF r = "rest" THEN {"none", "review"} ELSE {"none"})
               THEN IF r = "rest" THEN "gateRest" ELSE "promote"
               ELSE "next")
    /\ Stay(r) /\ UNCHANGED <<gh, envVars, polls, reported, history>>

\* The other answers of freshMergeGate: reviews and checks.
GateRest(r) ==
    /\ pc[r] = "gateRest"
    /\ Goto(r, IF This(r).objection # "review" /\ This(r).green THEN "promote" ELSE "next")
    /\ Stay(r) /\ UNCHANGED <<gh, envVars, polls, reported, history>>

\* GitHub: convertPullRequestToDraft and markPullRequestReadyForReview.
SetDraft(p, d) ==
    gh' = [gh EXCEPT ![p].draft = IF gh[p].state = "open" THEN d ELSE @]

\* The GraphQL gate is asked again in every poll: it is warned anew here.
Promote(r) ==
    /\ pc[r] = "promote"
    /\ SetDraft(cur[r], FALSE)
    /\ IF r = "graphql" THEN Warn(r, cur[r]) ELSE UNCHANGED warned
    /\ Goto(r, "poll")
    /\ Stay(r) /\ UNCHANGED <<envVars, polls, reported, mergedBy, abandoned>>

\* The poll did not succeed: another one, or the way out.
PollAnew(r, n) == Goto(r, IF n = MaxPolls THEN "restore" ELSE "poll")

\* Mutant: GraphQL polls go by the draft flag, whatever other reasons stand.
SettledByFlag(r) == ~This(r).draft /\ (r = "rest" => HeadIsExact(r) /\ This(r).clean)

\* "rest" reads the pull request; "graphql" asks the gate, whose only reason
\* must be that the pull request is no open draft.
Settled(r) ==
    /\ HeadIsExact(r) /\ This(r).clean
    /\ ~This(r).draft \/ (r = "graphql" /\ This(r).state = "closed")
    /\ r = "graphql" => This(r).objection = "none" /\ This(r).state # "merged"

Polled(r) == IF r = "rest" THEN "postChecks" ELSE "pollAgain"

\* Mutant: the polls are not counted.
PollUncounted(r) ==
    /\ pc[r] = "poll"
    /\ Goto(r, IF Settled(r) THEN Polled(r) ELSE "poll")
    /\ Stay(r) /\ UNCHANGED <<gh, envVars, polls, reported, history>>

Poll(r) ==
    /\ pc[r] = "poll"
    /\ polls' = [polls EXCEPT ![r] = @ + 1]
    /\ IF Settled(r) THEN Goto(r, Polled(r)) ELSE PollAnew(r, polls[r] + 1)
    /\ Stay(r) /\ UNCHANGED <<gh, envVars, reported, history>>

\* The query after that gate.
PollAgain(r) ==
    /\ pc[r] = "pollAgain"
    /\ IF ~This(r).draft /\ HeadIsExact(r) /\ This(r).clean
       THEN Goto(r, "merge")
       ELSE PollAnew(r, polls[r])
    /\ Stay(r) /\ UNCHANGED <<gh, envVars, polls, reported, history>>

PostChecks(r) ==
    /\ pc[r] = "postChecks"
    /\ Goto(r, IF This(r).green THEN "merge" ELSE "restore")
    /\ Stay(r) /\ UNCHANGED <<gh, envVars, polls, reported, history>>

NoMethod(r) ==
    /\ pc[r] = "merge"
    /\ Goto(r, "restore")
    /\ Stay(r) /\ UNCHANGED <<gh, envVars, polls, reported, history>>

\* GitHub merges an open, ready, mergeable pull request at the expected head.
Mergeable(r) ==
    This(r).state = "open" /\ ~This(r).draft /\ This(r).clean /\ HeadIsExact(r)

Merges(r) ==
    /\ Mergeable(r)
    /\ gh' = [gh EXCEPT ![cur[r]].state = "merged"]
    /\ mergedBy' = [mergedBy EXCEPT ![cur[r]] = r]

Report(r) == reported' = [reported EXCEPT ![r] = @ \cup {cur[r]}]

\* The GraphQL answer is the verification; "rest" reads the pull request again.
Merge(r) ==
    /\ pc[r] = "merge"
    /\ Merges(r)
    /\ IF r = "rest" THEN Goto(r, "verify") /\ UNCHANGED reported
                     ELSE Goto(r, "next") /\ Report(r)
    /\ Stay(r) /\ UNCHANGED <<envVars, polls, warned, abandoned>>

MergeRefused(r) ==
    /\ pc[r] = "merge" /\ ~Mergeable(r)
    /\ Goto(r, "restore")
    /\ Stay(r) /\ UNCHANGED <<gh, envVars, polls, reported, history>>

Verify(r) ==
    /\ pc[r] = "verify"
    /\ IF This(r).state = "merged" /\ HeadIsExact(r) THEN Report(r) ELSE UNCHANGED reported
    /\ Goto(r, "next")
    /\ Stay(r) /\ UNCHANGED <<gh, envVars, polls, history>>

Restore(r) ==
    /\ pc[r] = "restore"
    /\ SetDraft(cur[r], TRUE)
    /\ Goto(r, "next")
    /\ Stay(r) /\ UNCHANGED <<envVars, polls, reported, history>>

-----------------------------------------------------------------------------
(* Failed requests.                                                        *)

Lose(r) == losses < MaxLosses /\ losses' = losses + 1 /\ UNCHANGED <<events, polls, reported>>

Abandon(r) == abandoned' = abandoned \cup {cur[r]}

\* Mutant: the catch of the GraphQL loop restores nothing.
CatchOnly(r) == Goto(r, "next") /\ UNCHANGED abandoned

\* An exception after the gate has answered: the GraphQL loop catches it and
\* restores; mergeValidated catches it too, but only records it.
Thrown(r) ==
    IF r = "graphql"
      THEN Goto(r, "restore") /\ UNCHANGED abandoned
      ELSE /\ Goto(r, "next")
           /\ IF pc[r] \in {"promote", "poll", "postChecks"}
                THEN Abandon(r) ELSE UNCHANGED abandoned

GateFails(r) ==
    /\ pc[r] \in {"gate", "gateRest"} /\ Lose(r)
    /\ Goto(r, "next")
    /\ Stay(r) /\ UNCHANGED <<gh, history>>

ReadFails(r) ==
    /\ pc[r] \in {"poll", "pollAgain", "postChecks", "verify"} /\ Lose(r)
    /\ Thrown(r)
    /\ Stay(r) /\ UNCHANGED <<gh, mergedBy, warned>>

PromoteFails(r) ==
    /\ pc[r] = "promote" /\ Lose(r)
    /\ SetDraft(cur[r], FALSE) \/ UNCHANGED gh
    /\ Thrown(r)
    /\ Stay(r) /\ UNCHANGED <<mergedBy, warned>>

\* The repeated request of a merge that was applied is refused; both scripts
\* then ask for a draft and report a skip.
MergeFails(r) ==
    /\ pc[r] = "merge" /\ Lose(r)
    /\ Merges(r) \/ UNCHANGED <<gh, mergedBy>>
    /\ Goto(r, "restore")
    /\ Stay(r) /\ UNCHANGED <<warned, abandoned>>

\* `.catch(() => {})`.
RestoreFails(r) ==
    /\ pc[r] = "restore" /\ Lose(r)
    /\ SetDraft(cur[r], TRUE) \/ UNCHANGED gh
    /\ Abandon(r)
    /\ Goto(r, "next")
    /\ Stay(r) /\ UNCHANGED <<mergedBy, warned>>

-----------------------------------------------------------------------------
Step(r) ==
    \/ \E p \in PRs : Inspect(r, p) \/ Archive(r, p) \/ Take(r, p)
    \/ Inspected(r) \/ Archived(r) \/ Validate(r) \/ Finish(r)
    \/ Gate(r) \/ GateRest(r) \/ Promote(r) \/ Poll(r) \/ PollAgain(r)
    \/ PostChecks(r) \/ NoMethod(r) \/ Merge(r) \/ MergeRefused(r) \/ Verify(r)
    \/ Restore(r)
    \/ GateFails(r) \/ ReadFails(r) \/ PromoteFails(r) \/ MergeFails(r) \/ RestoreFails(r)

Next ==
    \/ \E p \in PRs : Push(p) \/ Recheck(p) \/ Object(p) \/ CloseOrMerge(p)
    \/ \E r \in Runs : Step(r)

Spec == Init /\ [][Next]_vars

\* A job's process runs on; GitHub's other users need not do anything.
FairSpec == Spec /\ \A r \in Runs : WF_vars(Step(r))

-----------------------------------------------------------------------------
(* Properties.                                                             *)

\* What a run merges is the head of its manifest, and the files of that head are
\* those the credential-free job accepted, whatever is pushed in between and
\* whatever the other pipeline does; and a run reports only its own merges.
MergedWasValidated ==
    \A r \in Runs, p \in PRs :
        /\ mergedBy[p] = r => /\ gh[p].state = "merged"
                              /\ gh[p].head = entry[r][p]
                              /\ <<p, gh[p].head>> \in Sound
        /\ p \in reported[r] => mergedBy[p] = r

\* A pull request that is out of draft is in the hands of a run that will merge
\* it or restore it, unless a failed request left it behind: a failed restore of
\* either script, or any failed request of the REST script after its promotion
\* (ready-portfolio-fleet.mjs:312-325).  Neither run undoes this for the other.
Held(p) ==
    \E r \in Runs : cur[r] = p /\ pc[r] \in {"poll", "pollAgain", "postChecks", "merge", "restore"}

NoneLeftPromoted ==
    \A p \in PRs : gh[p].state = "open" /\ ~gh[p].draft => Held(p) \/ p \in abandoned

\* An objection that stood when a run took up a pull request, or when the GraphQL
\* run promoted it, keeps that run from merging it.  One that comes later may be
\* missed: the REST script reads none after its gate.
ObjectionsStop == \A r \in Runs, p \in PRs : mergedBy[p] = r => p \notin warned[r]

\* Every run comes to its end, whatever changes and fails under it.
RunEnds == \A r \in Runs : <>(pc[r] = "done")
=============================================================================
