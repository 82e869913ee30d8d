----------------------- MODULE PortfolioMergeProofs -----------------------
(***************************************************************************)
(* What a portfolio merger merges was validated and stood without          *)
(* objection, and what it takes out of draft does not stay so: for any     *)
(* pull requests, heads, failures and steps of others.                     *)
(***************************************************************************)
EXTENDS PortfolioMerge, TLAPS

Preparing == {"inspect", "archive", "validate"}
Active == {"gate", "gateRest", "promote", "poll", "pollAgain", "postChecks",
           "merge", "verify", "restore"}

-----------------------------------------------------------------------------
(* What happens to GitHub's pull requests in one step.                     *)

\* A pull request that is no longer open is never touched, and an objection is
\* never withdrawn.
Settles ==
    /\ gh' \in [PRs -> View]
    /\ \A p \in PRs :
          /\ gh[p].state # "open" => gh'[p] = gh[p]
          /\ gh[p].objection # "none" => gh'[p].objection = gh[p].objection

LEMMA ViewUpdates ==
    ASSUME NEW v \in View
    PROVE  /\ \A d \in BOOLEAN : [v EXCEPT !.draft = d] \in View
           /\ \A s \in {"open", "closed", "merged"} : [v EXCEPT !.state = s] \in View
           /\ \A o \in {"none", "comment", "review"} : [v EXCEPT !.objection = o] \in View
           /\ \A h \in Heads, c \in BOOLEAN : [v EXCEPT !.head = h, !.clean = c] \in View
           /\ \A c, g \in BOOLEAN : [v EXCEPT !.clean = c, !.green = g] \in View
BY DEF View

\* The environment changes one open pull request, and not its draft flag.
LEMMA OthersStep ==
    ASSUME TypeOK,
           NEW p \in PRs,
           Push(p) \/ Recheck(p) \/ Object(p) \/ CloseOrMerge(p)
    PROVE  /\ Settles
           /\ events' \in 0..MaxEvents
           /\ \A q \in PRs : gh'[q].draft = gh[q].draft
           /\ \A q \in PRs : gh'[q].state = "open" => gh[q].state = "open"
           /\ UNCHANGED <<losses, pc, todo, entry, archived, cur, polls, reported, history>>
<1> DEFINE Fits(v) == /\ v \in View /\ v.draft = gh[p].draft
                      /\ gh[p].objection # "none" => v.objection = gh[p].objection
<1>0. gh[p] \in View
  BY DEF TypeOK
<1>1. PICK v : Fits(v) /\ Environment(p, v)
  <2>1. CASE Push(p)
    <3>1. PICK h \in Heads, c \in BOOLEAN :
             Environment(p, [gh[p] EXCEPT !.head = h, !.clean = c])
      BY <2>1 DEF Push
    <3> DEFINE w == [gh[p] EXCEPT !.head = h, !.clean = c]
    <3>2. w \in View
      BY <1>0 DEF View
    <3>3. w.draft = gh[p].draft /\ (gh[p].objection # "none" => w.objection = gh[p].objection)
      BY <1>0 DEF View
    <3> QED  BY <3>1, <3>2, <3>3
  <2>2. CASE Recheck(p)
    <3>1. PICK c \in BOOLEAN, g \in BOOLEAN :
             Environment(p, [gh[p] EXCEPT !.clean = c, !.green = g])
      BY <2>2 DEF Recheck
    <3> DEFINE w == [gh[p] EXCEPT !.clean = c, !.green = g]
    <3>2. w \in View
      BY <1>0 DEF View
    <3>3. w.draft = gh[p].draft /\ (gh[p].objection # "none" => w.objection = gh[p].objection)
      BY <1>0 DEF View
    <3> QED  BY <3>1, <3>2, <3>3
  <2>3. CASE Object(p)
    <3>1. PICK o \in {"comment", "review"} : Environment(p, [gh[p] EXCEPT !.objection = o])
      BY <2>3 DEF Object
    <3> DEFINE w == [gh[p] EXCEPT !.objection = o]
    <3>2. w \in View
      BY <1>0 DEF View
    <3>3. w.draft = gh[p].draft /\ (gh[p].objection # "none" => w.objection = gh[p].objection)
      BY <1>0, <2>3 DEF View, Object
    <3> QED  BY <3>1, <3>2, <3>3
  <2>4. CASE CloseOrMerge(p)
    <3>1. PICK s \in {"closed", "merged"} : Environment(p, [gh[p] EXCEPT !.state = s])
      BY <2>4 DEF CloseOrMerge
    <3> DEFINE w == [gh[p] EXCEPT !.state = s]
    <3>2. w \in View
      BY <1>0 DEF View
    <3>3. w.draft = gh[p].draft /\ (gh[p].objection # "none" => w.objection = gh[p].objection)
      BY <1>0 DEF View
    <3> QED  BY <3>1, <3>2, <3>3
  <2> QED
    BY <2>1, <2>2, <2>3, <2>4
<1>2. /\ gh[p].state = "open" /\ gh' = [gh EXCEPT ![p] = v]
      /\ events < MaxEvents /\ events' = events + 1
      /\ UNCHANGED <<losses, pc, todo, entry, archived, cur, polls, reported, history>>
  BY <1>1 DEF Environment
<1>3. Fits(v)
  BY <1>1
<1> QED
  BY <1>2, <1>3, PortfolioAssumption DEF TypeOK, Settles

\* The draft flag of one open pull request is set.
LEMMA SetDraftStep ==
    ASSUME TypeOK, NEW p \in PRs, NEW d \in BOOLEAN, SetDraft(p, d)
    PROVE  /\ Settles
           /\ \A q \in PRs : /\ q # p => gh'[q] = gh[q]
                             /\ gh'[q].state = gh[q].state
           /\ gh[p].state = "open" => gh'[p].draft = d
<1> DEFINE v == [gh[p] EXCEPT !.draft = IF gh[p].state = "open" THEN d ELSE @]
<1>1. gh[p] \in View
  BY DEF TypeOK
<1>2. /\ v \in View /\ v.state = gh[p].state /\ v.objection = gh[p].objection
      /\ gh[p].state = "open" => v.draft = d
      /\ gh[p].state # "open" => v = gh[p]
  BY <1>1 DEF View
<1>3. gh' = [gh EXCEPT ![p] = v]
  BY DEF SetDraft
<1> HIDE DEF v
<1> QED
  BY <1>2, <1>3 DEF TypeOK, Settles

\* A run merges the pull request at hand.
LEMMA MergesStep ==
    ASSUME TypeOK, NEW r \in Runs, cur[r] \in PRs, Merges(r)
    PROVE  /\ Settles
           /\ gh[cur[r]].state = "open"
           /\ gh'[cur[r]].state = "merged"
           /\ gh'[cur[r]].head = entry[r][cur[r]]
           /\ gh'[cur[r]].objection = gh[cur[r]].objection
           /\ \A q \in PRs : q # cur[r] => gh'[q] = gh[q]
           /\ mergedBy' \in [PRs -> Runs \cup {None}]
           /\ \A q \in PRs : mergedBy'[q] = IF q = cur[r] THEN r ELSE mergedBy[q]
<1> DEFINE p == cur[r]
<1> DEFINE v == [gh[p] EXCEPT !.state = "merged"]
<1>1. gh[p] \in View
  BY DEF TypeOK
<1>2. /\ v \in View /\ v.state = "merged" /\ v.objection = gh[p].objection
      /\ v.head = gh[p].head
  BY <1>1 DEF View
<1>3. /\ gh' = [gh EXCEPT ![p] = v] /\ gh[p].state = "open"
      /\ gh[p].head = entry[r][p]
      /\ mergedBy' = [mergedBy EXCEPT ![p] = r]
  BY DEF Merges, Mergeable, This, HeadIsExact
<1> HIDE DEF v
<1> QED
  BY <1>2, <1>3 DEF TypeOK, Settles

-----------------------------------------------------------------------------
(* Types.                                                                  *)

\* There is an entry at hand wherever one is handled, and a poll to be made
\* wherever one is made.
AtHand(r) ==
    /\ pc[r] \in Active => cur[r] \in PRs
    /\ pc[r] = "poll" => polls[r] < MaxPolls
    /\ pc[r] \in {"gate", "gateRest", "promote"} => polls[r] = 0

Typed == TypeOK /\ \A r \in Runs : AtHand(r)

\* Every variable has its type, through every failure and change: in particular
\* no run looks at a pull request when it has none at hand.
THEOREM Typing == Spec => []Typed
<1> USE DEF Typed, AtHand, Active, envVars, history
<1>1. Init => Typed
  BY PortfolioAssumption DEF Init, TypeOK, View, Heads
<1>2. Typed /\ [Next]_vars => Typed'
  <2> SUFFICES ASSUME Typed, [Next]_vars PROVE Typed'
    OBVIOUS
  <2> USE PortfolioAssumption
  <2>1. ASSUME NEW p \in PRs, Push(p) \/ Recheck(p) \/ Object(p) \/ CloseOrMerge(p)
        PROVE  Typed'
    BY <2>1, OthersStep DEF TypeOK, Settles
  <2> USE DEF Goto, Handled, Stay, This
  <2>2. ASSUME NEW r \in Runs, Step(r) PROVE Typed'
    <3>1. ASSUME NEW p \in PRs, Inspect(r, p) PROVE Typed'
      BY <3>1 DEF TypeOK, Inspect, View
    <3>2. ASSUME NEW p \in PRs, Archive(r, p) PROVE Typed'
      BY <3>2 DEF TypeOK, Archive
    <3>3. ASSUME NEW p \in PRs, Take(r, p) PROVE Typed'
      <4>1. warned' \in [Runs -> SUBSET PRs]
        BY <3>3 DEF TypeOK, Take, Warn
      <4>2. todo' \in [Runs -> SUBSET PRs] /\ cur' \in [Runs -> PRs \cup {None}]
        BY <3>3 DEF TypeOK, Take
      <4>3. polls' \in [Runs -> 0..MaxPolls]
        BY <3>3 DEF TypeOK, Take
      <4>4. \A q \in Runs : AtHand(q)'
        BY <3>3 DEF TypeOK, Take
      <4> QED
        BY <3>3, <4>1, <4>2, <4>3, <4>4 DEF TypeOK, Take
    <3>4. CASE Inspected(r)
      BY <3>4 DEF TypeOK, Inspected
    <3>5. CASE Archived(r)
      BY <3>5 DEF TypeOK, Archived
    <3>6. CASE Validate(r)
      BY <3>6 DEF TypeOK, Validate
    <3>7. CASE Finish(r)
      BY <3>7 DEF TypeOK, Finish
    <3>8. CASE Gate(r)
      BY <3>8 DEF TypeOK, Gate
    <3>9. CASE GateRest(r)
      BY <3>9 DEF TypeOK, GateRest
    <3>10. CASE Promote(r)
      <4>1. Settles
        BY <3>10, SetDraftStep DEF Promote
      <4> QED
        BY <3>10, <4>1 DEF TypeOK, Promote, Warn, Settles
    <3>11. CASE Poll(r)
      BY <3>11 DEF TypeOK, Poll, PollAnew, Polled
    <3>12. CASE PollAgain(r)
      BY <3>12 DEF TypeOK, PollAgain, PollAnew
    <3>13. CASE PostChecks(r)
      BY <3>13 DEF TypeOK, PostChecks
    <3>14. CASE NoMethod(r)
      BY <3>14 DEF TypeOK, NoMethod
    <3>15. CASE Merge(r)
      <4>1. Settles /\ mergedBy' \in [PRs -> Runs \cup {None}]
        BY <3>15, MergesStep DEF Merge
      <4> QED
        BY <3>15, <4>1 DEF TypeOK, Merge, Report, Settles
    <3>16. CASE MergeRefused(r)
      BY <3>16 DEF TypeOK, MergeRefused
    <3>17. CASE Verify(r)
      BY <3>17 DEF TypeOK, Verify, Report
    <3>18. CASE Restore(r)
      <4>1. Settles
        BY <3>18, SetDraftStep DEF Restore
      <4> QED
        BY <3>18, <4>1 DEF TypeOK, Restore, Settles
    <3>19. CASE GateFails(r)
      BY <3>19 DEF TypeOK, GateFails, Lose
    <3>20. CASE ReadFails(r)
      BY <3>20 DEF TypeOK, ReadFails, Lose, Thrown, Abandon
    <3>21. CASE PromoteFails(r)
      <4>1. Settles
        BY <3>21, SetDraftStep DEF PromoteFails, TypeOK, Settles
      <4> QED
        BY <3>21, <4>1 DEF TypeOK, PromoteFails, Lose, Thrown, Abandon, Settles
    <3>22. CASE MergeFails(r)
      <4>1. Settles /\ mergedBy' \in [PRs -> Runs \cup {None}]
        BY <3>22, MergesStep DEF MergeFails, TypeOK, Settles
      <4> QED
        BY <3>22, <4>1 DEF TypeOK, MergeFails, Lose, Settles
    <3>23. CASE RestoreFails(r)
      <4>1. Settles
        BY <3>23, SetDraftStep DEF RestoreFails, TypeOK, Settles
      <4> QED
        <5>1. abandoned' \subseteq PRs /\ losses' \in 0..MaxLosses
          BY <3>23 DEF TypeOK, RestoreFails, Lose, Abandon
        <5>2. \A q \in Runs : AtHand(q)'
          BY <3>23 DEF TypeOK, RestoreFails, Lose
        <5> QED
          BY <3>23, <4>1, <5>1, <5>2 DEF TypeOK, RestoreFails, Lose, Settles
    <3> QED
      BY <2>2, <3>1, <3>2, <3>3, <3>4, <3>5, <3>6, <3>7, <3>8, <3>9, <3>10, <3>11,
         <3>12, <3>13, <3>14, <3>15, <3>16, <3>17, <3>18, <3>19, <3>20, <3>21,
         <3>22, <3>23 DEF Step
  <2>3. CASE UNCHANGED vars
    BY <2>3 DEF vars, TypeOK
  <2> QED
    BY <2>1, <2>2, <2>3 DEF Next
<1> QED
  BY <1>1, <1>2, PTL DEF Spec

-----------------------------------------------------------------------------
(* What a run merges.                                                      *)

\* An archive is that of the manifest's head; what is left to merge, and what is
\* at hand, was accepted at that head; and what the run merged, it merged so.
Pipeline(r) ==
    /\ pc[r] = "inspect" => \A p \in PRs : archived[r][p] = None
    /\ \A p \in PRs : archived[r][p] \in {None, entry[r][p]}
    /\ pc[r] \in Preparing => \A p \in PRs : mergedBy[p] # r
    /\ pc[r] \notin Preparing => \A p \in todo[r] : <<p, entry[r][p]>> \in Sound
    /\ pc[r] \in Active => <<cur[r], entry[r][cur[r]]>> \in Sound /\ cur[r] \notin todo[r]
    /\ pc[r] \in Active \ {"verify", "restore"} => mergedBy[cur[r]] # r
    /\ pc[r] = "verify" => mergedBy[cur[r]] = r
    /\ \A p \in PRs : mergedBy[p] = r =>
          /\ gh[p].state = "merged" /\ gh[p].head = entry[r][p]
          /\ <<p, entry[r][p]>> \in Sound /\ p \notin todo[r]
    /\ \A p \in reported[r] : mergedBy[p] = r

\* Objections are not withdrawn, so one that stood when the run was warned keeps
\* the pull request from the places that lead to a merge.
Heeded(r) ==
    /\ \A p \in warned[r] : gh[p].objection # "none"
    /\ \A p \in PRs : mergedBy[p] = r => p \notin warned[r]
    /\ pc[r] = "gateRest" /\ cur[r] \in warned[r] => gh[cur[r]].objection = "review"
    /\ pc[r] \in {"promote", "pollAgain", "postChecks", "merge", "verify"} => cur[r] \notin warned[r]
    /\ pc[r] = "poll" /\ r = "rest" => cur[r] \notin warned[r]

\* Nothing of run r changed but what others do to the pull requests.
Undisturbed(r) ==
    /\ pc'[r] = pc[r] /\ todo'[r] = todo[r] /\ entry'[r] = entry[r]
    /\ archived'[r] = archived[r] /\ cur'[r] = cur[r]
    /\ reported'[r] = reported[r] /\ warned'[r] = warned[r]

LEMMA UndisturbedStep ==
    ASSUME Typed, NEW r \in Runs, Pipeline(r), Heeded(r), Undisturbed(r), Settles,
           \A p \in PRs : \/ mergedBy'[p] = mergedBy[p]
                          \/ gh[p].state = "open" /\ mergedBy'[p] # r
    PROVE  Pipeline(r)' /\ Heeded(r)'
<1>1. /\ pc[r] \in Active => cur[r] \in PRs
      /\ todo[r] \subseteq PRs /\ reported[r] \subseteq PRs /\ warned[r] \subseteq PRs
  BY DEF Typed, AtHand, TypeOK
<1>2. \A p \in PRs : (mergedBy'[p] = r) <=> (mergedBy[p] = r)
  BY DEF Pipeline
<1>3. \A p \in PRs : mergedBy[p] = r => gh'[p] = gh[p]
  BY DEF Pipeline, Settles
<1>4. Pipeline(r)'
  BY <1>1, <1>2, <1>3 DEF Pipeline, Undisturbed, Active
<1>5. Heeded(r)'
  BY <1>1, <1>2 DEF Heeded, Undisturbed, Settles, Active
<1> QED
  BY <1>4, <1>5

\* A merge adds the pull request at hand to those the run merged.
LEMMA PipelineMerges ==
    ASSUME Typed, NEW r \in Runs, Pipeline(r), pc[r] = "merge", Merges(r),
           UNCHANGED <<todo, entry, archived, cur>>,
           pc'[r] \in {"verify", "next", "restore"},
           reported'[r] \subseteq reported[r] \cup {cur[r]}
    PROVE  Pipeline(r)'
<1> DEFINE p == cur[r]
<1>1. p \in PRs /\ reported[r] \subseteq PRs
  BY DEF Typed, AtHand, Active, TypeOK
<1>2. /\ <<p, entry[r][p]>> \in Sound /\ p \notin todo[r] /\ mergedBy[p] # r
      /\ \A q \in todo[r] : <<q, entry[r][q]>> \in Sound
  BY DEF Pipeline, Active, Preparing
<1>3. /\ gh'[p].state = "merged" /\ gh'[p].head = entry[r][p]
      /\ \A q \in PRs : q # p => gh'[q] = gh[q]
      /\ \A q \in PRs : mergedBy'[q] = IF q = p THEN r ELSE mergedBy[q]
  BY <1>1, MergesStep DEF Typed
<1>4. \A q \in PRs : mergedBy'[q] = r =>
         /\ gh'[q].state = "merged" /\ gh'[q].head = entry[r][q]
         /\ <<q, entry[r][q]>> \in Sound /\ q \notin todo[r]
  BY <1>2, <1>3 DEF Pipeline
<1>5. \A q \in reported'[r] : mergedBy'[q] = r
  BY <1>1, <1>3 DEF Pipeline
<1>6. mergedBy'[p] = r
  BY <1>1, <1>3
<1> QED
  BY <1>2, <1>4, <1>5, <1>6 DEF Pipeline, Preparing, Active

\* What a step of r has to show for the invariant.
Framed(r) ==
    /\ Settles
    /\ \A q \in Runs \ {r} : Undisturbed(q)
    /\ \A p \in PRs : \/ mergedBy'[p] = mergedBy[p]
                      \/ gh[p].state = "open" /\ mergedBy'[p] = r
Kept(r) == Framed(r) /\ Pipeline(r)' /\ Heeded(r)'

MergeInv == \A r \in Runs : Pipeline(r) /\ Heeded(r)

\* What a run has at hand passed every stage before, and what it was warned of
\* stays out of the places that lead to a merge.
THEOREM MergeInvariant == Spec => []MergeInv
<1>1. Init => MergeInv
  <2> SUFFICES ASSUME Init, NEW r \in Runs PROVE Pipeline(r) /\ Heeded(r)
    BY DEF MergeInv
  <2>1. /\ pc[r] = "inspect" /\ reported[r] = {} /\ warned[r] = {}
        /\ \A p \in PRs : archived[r][p] = None /\ mergedBy[p] # r
    BY PortfolioAssumption DEF Init
  <2> QED
    BY <2>1 DEF Pipeline, Heeded, Preparing, Active
<1>2. Typed /\ Typed' /\ MergeInv /\ [Next]_vars => MergeInv'
  <2> SUFFICES ASSUME Typed, Typed', MergeInv, [Next]_vars PROVE MergeInv'
    OBVIOUS
  <2>1. ASSUME NEW p \in PRs, Push(p) \/ Recheck(p) \/ Object(p) \/ CloseOrMerge(p)
        PROVE  MergeInv'
    BY <2>1, OthersStep, UndisturbedStep DEF Typed, MergeInv, Undisturbed, history
  <2>2. ASSUME NEW r \in Runs, Step(r) PROVE Kept(r)
    <3>0. /\ Pipeline(r) /\ Heeded(r) /\ AtHand(r)
          /\ todo[r] \subseteq PRs /\ reported[r] \subseteq PRs /\ warned[r] \subseteq PRs
          /\ TypeOK /\ Typed
      BY DEF MergeInv, Typed, TypeOK
    <3> USE DEF Goto, Handled, Stay, This, envVars, history, AtHand, TypeOK, Active
    <3>1. ASSUME NEW p \in PRs, Inspect(r, p) PROVE Kept(r)
      <4>1. Framed(r)
        BY <3>0, <3>1 DEF Framed, Undisturbed, Settles, Inspect
      <4>2. Pipeline(r)'
        BY <3>0, <3>1 DEF Pipeline, Preparing, Settles, Inspect
      <4>3. Heeded(r)'
        BY <3>0, <3>1 DEF Heeded, Pipeline, Settles, Inspect
      <4> QED
        BY <4>1, <4>2, <4>3 DEF Kept
    <3>2. ASSUME NEW p \in PRs, Archive(r, p) PROVE Kept(r)
      <4>1. Framed(r)
        BY <3>0, <3>2 DEF Framed, Undisturbed, Settles, Archive
      <4>2. Pipeline(r)'
        <5>1. \A q \in PRs : archived'[r][q] \in {archived[r][q], entry[r][q]}
          BY <3>0, <3>2 DEF Archive
        <5>2. pc[r] = "archive" /\ UNCHANGED <<gh, pc, entry, cur, reported, mergedBy>>
          BY <3>2 DEF Archive
        <5> QED
          BY <3>0, <5>1, <5>2 DEF Pipeline, Preparing
      <4>3. Heeded(r)'
        BY <3>0, <3>2 DEF Heeded, Pipeline, Settles, Archive
      <4> QED
        BY <4>1, <4>2, <4>3 DEF Kept
    <3>3. ASSUME NEW p \in PRs, Take(r, p) PROVE Kept(r)
      <4>1. Framed(r)
        BY <3>0, <3>3 DEF Framed, Undisturbed, Settles, Take, Warn
      <4>2. Pipeline(r)'
        BY <3>0, <3>3 DEF Pipeline, Preparing, Settles, Take, Warn
      <4>3. Heeded(r)'
        BY <3>0, <3>3 DEF Heeded, Pipeline, Settles, Take, Warn
      <4> QED
        BY <4>1, <4>2, <4>3 DEF Kept
    <3>4. CASE Inspected(r)
      <4>1. Framed(r)
        BY <3>0, <3>4 DEF Framed, Undisturbed, Settles, Inspected
      <4>2. Pipeline(r)'
        BY <3>0, <3>4 DEF Pipeline, Preparing, Settles, Inspected
      <4>3. Heeded(r)'
        BY <3>0, <3>4 DEF Heeded, Pipeline, Settles, Inspected
      <4> QED
        BY <4>1, <4>2, <4>3 DEF Kept
    <3>5. CASE Archived(r)
      <4>1. Framed(r)
        BY <3>0, <3>5 DEF Framed, Undisturbed, Settles, Archived
      <4>2. Pipeline(r)'
        BY <3>0, <3>5 DEF Pipeline, Preparing, Settles, Archived
      <4>3. Heeded(r)'
        BY <3>0, <3>5 DEF Heeded, Pipeline, Settles, Archived
      <4> QED
        BY <4>1, <4>2, <4>3 DEF Kept
    <3>6. CASE Validate(r)
      <4>1. Framed(r)
        BY <3>0, <3>6 DEF Framed, Undisturbed, Settles, Validate
      <4>2. Pipeline(r)'
        <5>1. \A q \in PRs : <<q, None>> \notin Sound
          BY PortfolioAssumption DEF Heads
        <5>2. /\ pc[r] = "validate" /\ pc'[r] \in {"done", "next"}
              /\ todo'[r] = {q \in PRs : <<q, archived[r][q]>> \in Sound}
              /\ UNCHANGED <<gh, entry, archived, cur, reported, mergedBy>>
          BY <3>0, <3>6 DEF Validate
        <5>3. \A q \in todo'[r] : <<q, entry[r][q]>> \in Sound
          BY <3>0, <5>1, <5>2 DEF Pipeline
        <5> QED
          BY <3>0, <5>2, <5>3 DEF Pipeline, Preparing
      <4>3. Heeded(r)'
        BY <3>0, <3>6 DEF Heeded, Pipeline, Settles, Validate
      <4> QED
        BY <4>1, <4>2, <4>3 DEF Kept
    <3>7. CASE Finish(r)
      <4>1. Framed(r)
        BY <3>0, <3>7 DEF Framed, Undisturbed, Settles, Finish
      <4>2. Pipeline(r)'
        BY <3>0, <3>7 DEF Pipeline, Preparing, Settles, Finish
      <4>3. Heeded(r)'
        BY <3>0, <3>7 DEF Heeded, Pipeline, Settles, Finish
      <4> QED
        BY <4>1, <4>2, <4>3 DEF Kept
    <3>8. CASE Gate(r)
      <4>1. Framed(r)
        BY <3>0, <3>8 DEF Framed, Undisturbed, Settles, Gate
      <4>2. Pipeline(r)'
        BY <3>0, <3>8 DEF Pipeline, Preparing, Settles, Gate
      <4>3. Heeded(r)'
        BY <3>0, <3>8 DEF Heeded, Pipeline, Settles, Gate
      <4> QED
        BY <4>1, <4>2, <4>3 DEF Kept
    <3>9. CASE GateRest(r)
      <4>1. Framed(r)
        BY <3>0, <3>9 DEF Framed, Undisturbed, Settles, GateRest
      <4>2. Pipeline(r)'
        BY <3>0, <3>9 DEF Pipeline, Preparing, Settles, GateRest
      <4>3. Heeded(r)'
        BY <3>0, <3>9 DEF Heeded, Pipeline, Settles, GateRest
      <4> QED
        BY <4>1, <4>2, <4>3 DEF Kept
    <3>10. CASE Promote(r)
      <4>1. Settles /\ (\A p \in PRs : gh'[p].state = gh[p].state)
        BY <3>0, <3>10, SetDraftStep DEF Promote, Settles
      <4>2. Framed(r)
        BY <3>0, <3>10, <4>1 DEF Framed, Undisturbed, Settles, Promote, Warn
      <4>3. Pipeline(r)'
        BY <3>0, <3>10, <4>1 DEF Pipeline, Preparing, Settles, Promote, Warn
      <4>4. Heeded(r)'
        <5>1. /\ pc[r] = "promote" /\ pc'[r] = "poll" /\ UNCHANGED <<cur, mergedBy>>
              /\ cur[r] \in PRs /\ mergedBy[cur[r]] # r
          BY <3>0, <3>10 DEF Promote, Pipeline
        <5>2. \A q \in warned'[r] :
                 \/ q \in warned[r]
                 \/ q = cur[r] /\ gh[q].objection # "none" /\ r = "graphql"
          BY <3>0, <3>10 DEF Promote, Warn
        <5>3. \A q \in PRs : gh[q].objection # "none" => gh'[q].objection # "none"
          BY <4>1 DEF Settles
        <5>4. \A q \in warned'[r] : gh'[q].objection # "none"
          BY <3>0, <5>1, <5>2, <5>3 DEF Heeded
        <5>5. /\ \A q \in PRs : mergedBy'[q] = r => q \notin warned'[r]
              /\ r = "rest" => cur'[r] \notin warned'[r]
          BY <3>0, <5>1, <5>2 DEF Heeded
        <5> QED
          BY <5>1, <5>4, <5>5 DEF Heeded
      <4> QED
        BY <4>2, <4>3, <4>4 DEF Kept
    <3>11. CASE Poll(r)
      <4>1. Framed(r)
        BY <3>0, <3>11 DEF Framed, Undisturbed, Settles, Poll, PollAnew, Polled, Settled, HeadIsExact
      <4>2. Pipeline(r)'
        BY <3>0, <3>11 DEF Pipeline, Preparing, Settles, Poll, PollAnew, Polled, Settled, HeadIsExact
      <4>3. Heeded(r)'
        <5>1. /\ pc[r] = "poll" /\ UNCHANGED <<gh, cur, warned, mergedBy>>
              /\ \/ pc'[r] \in {"restore", "poll"}
                 \/ pc'[r] = Polled(r) /\ Settled(r)
          BY <3>0, <3>11 DEF Poll, PollAnew
        <5>2. pc'[r] = Polled(r) /\ Settled(r) => cur[r] \notin warned[r]
          BY <3>0, <5>1, PortfolioAssumption DEF Heeded, Settled
        <5> QED
          BY <3>0, <5>1, <5>2 DEF Heeded, Polled
      <4> QED
        BY <4>1, <4>2, <4>3 DEF Kept
    <3>12. CASE PollAgain(r)
      <4>1. Framed(r)
        BY <3>0, <3>12 DEF Framed, Undisturbed, Settles, PollAgain, PollAnew
      <4>2. Pipeline(r)'
        BY <3>0, <3>12 DEF Pipeline, Preparing, Settles, PollAgain, PollAnew
      <4>3. Heeded(r)'
        BY <3>0, <3>12 DEF Heeded, Pipeline, Settles, PollAgain, PollAnew
      <4> QED
        BY <4>1, <4>2, <4>3 DEF Kept
    <3>13. CASE PostChecks(r)
      <4>1. Framed(r)
        BY <3>0, <3>13 DEF Framed, Undisturbed, Settles, PostChecks
      <4>2. Pipeline(r)'
        BY <3>0, <3>13 DEF Pipeline, Preparing, Settles, PostChecks
      <4>3. Heeded(r)'
        BY <3>0, <3>13 DEF Heeded, Pipeline, Settles, PostChecks
      <4> QED
        BY <4>1, <4>2, <4>3 DEF Kept
    <3>14. CASE NoMethod(r)
      <4>1. Framed(r)
        BY <3>0, <3>14 DEF Framed, Undisturbed, Settles, NoMethod
      <4>2. Pipeline(r)'
        BY <3>0, <3>14 DEF Pipeline, Preparing, Settles, NoMethod
      <4>3. Heeded(r)'
        BY <3>0, <3>14 DEF Heeded, Pipeline, Settles, NoMethod
      <4> QED
        BY <4>1, <4>2, <4>3 DEF Kept
    <3>15. CASE Merge(r)
      <4>1. \/ /\ Settles /\ gh[cur[r]].state = "open" /\ gh'[cur[r]].state = "merged"
               /\ gh'[cur[r]].head = entry[r][cur[r]]
               /\ \A q \in PRs : q # cur[r] => gh'[q] = gh[q]
               /\ \A q \in PRs : mergedBy'[q] = IF q = cur[r] THEN r ELSE mergedBy[q]
            \/ Settles /\ UNCHANGED <<gh, mergedBy>>
        BY <3>0, <3>15, MergesStep DEF Merge, Settles
      <4>2. Framed(r)
        BY <3>0, <3>15, <4>1 DEF Framed, Undisturbed, Settles, Merge, Report
      <4>3. Pipeline(r)'
        <5>1. /\ pc[r] = "merge" /\ Merges(r) /\ UNCHANGED <<todo, entry, archived, cur>>
              /\ pc'[r] \in {"verify", "next"}
              /\ reported'[r] \subseteq reported[r] \cup {cur[r]}
          BY <3>0, <3>15 DEF Merge, Report
        <5> QED
          BY <3>0, <5>1, PipelineMerges
      <4>4. Heeded(r)'
        BY <3>0, <3>15, <4>1 DEF Heeded, Pipeline, Settles, Merge, Report
      <4> QED
        BY <4>2, <4>3, <4>4 DEF Kept
    <3>16. CASE MergeRefused(r)
      <4>1. Framed(r)
        BY <3>0, <3>16 DEF Framed, Undisturbed, Settles, MergeRefused
      <4>2. Pipeline(r)'
        BY <3>0, <3>16 DEF Pipeline, Preparing, Settles, MergeRefused
      <4>3. Heeded(r)'
        BY <3>0, <3>16 DEF Heeded, Pipeline, Settles, MergeRefused
      <4> QED
        BY <4>1, <4>2, <4>3 DEF Kept
    <3>17. CASE Verify(r)
      <4>1. Framed(r)
        BY <3>0, <3>17 DEF Framed, Undisturbed, Settles, Verify, Report
      <4>2. Pipeline(r)'
        BY <3>0, <3>17 DEF Pipeline, Preparing, Settles, Verify, Report
      <4>3. Heeded(r)'
        BY <3>0, <3>17 DEF Heeded, Pipeline, Settles, Verify, Report
      <4> QED
        BY <4>1, <4>2, <4>3 DEF Kept
    <3>18. CASE Restore(r)
      <4>1. Settles /\ (\A p \in PRs : gh'[p].state = gh[p].state)
        BY <3>0, <3>18, SetDraftStep DEF Restore, Settles
      <4>2. Framed(r)
        BY <3>0, <3>18, <4>1 DEF Framed, Undisturbed, Settles, Restore
      <4>3. Pipeline(r)'
        BY <3>0, <3>18, <4>1 DEF Pipeline, Preparing, Settles, Restore
      <4>4. Heeded(r)'
        BY <3>0, <3>18, <4>1 DEF Heeded, Pipeline, Settles, Restore
      <4> QED
        BY <4>2, <4>3, <4>4 DEF Kept
    <3>19. CASE GateFails(r)
      <4>1. Framed(r)
        BY <3>0, <3>19 DEF Framed, Undisturbed, Settles, GateFails, Lose
      <4>2. Pipeline(r)'
        BY <3>0, <3>19 DEF Pipeline, Preparing, Settles, GateFails, Lose
      <4>3. Heeded(r)'
        BY <3>0, <3>19 DEF Heeded, Pipeline, Settles, GateFails, Lose
      <4> QED
        BY <4>1, <4>2, <4>3 DEF Kept
    <3>20. CASE ReadFails(r)
      <4>1. Framed(r)
        BY <3>0, <3>20 DEF Framed, Undisturbed, Settles, ReadFails, Lose, Thrown
      <4>2. Pipeline(r)'
        BY <3>0, <3>20 DEF Pipeline, Preparing, Settles, ReadFails, Lose, Thrown
      <4>3. Heeded(r)'
        BY <3>0, <3>20 DEF Heeded, Pipeline, Settles, ReadFails, Lose, Thrown
      <4> QED
        BY <4>1, <4>2, <4>3 DEF Kept
    <3>21. CASE PromoteFails(r)
      <4>1. Settles /\ (\A p \in PRs : gh'[p].state = gh[p].state)
        BY <3>0, <3>21, SetDraftStep DEF PromoteFails, Settles
      <4>2. Framed(r)
        BY <3>0, <3>21, <4>1 DEF Framed, Undisturbed, Settles, PromoteFails, Lose, Thrown
      <4>3. Pipeline(r)'
        <5>1. /\ pc[r] = "promote" /\ pc'[r] \in {"restore", "next"}
              /\ UNCHANGED <<todo, entry, archived, cur, reported, mergedBy>>
          BY <3>0, <3>21 DEF PromoteFails, Lose, Thrown
        <5>2. \A p \in PRs : gh[p].state = "merged" => gh'[p] = gh[p]
          BY <4>1 DEF Settles
        <5>3. \A p \in PRs : mergedBy'[p] = r =>
                 /\ gh'[p].state = "merged" /\ gh'[p].head = entry'[r][p]
                 /\ <<p, entry'[r][p]>> \in Sound /\ p \notin todo'[r]
          BY <3>0, <5>1, <5>2 DEF Pipeline
        <5> QED
          BY <3>0, <5>1, <5>3 DEF Pipeline, Preparing
      <4>4. Heeded(r)'
        BY <3>0, <3>21, <4>1 DEF Heeded, Pipeline, Settles, PromoteFails, Lose, Thrown
      <4> QED
        BY <4>2, <4>3, <4>4 DEF Kept
    <3>22. CASE MergeFails(r)
      <4>1. \/ /\ Settles /\ gh[cur[r]].state = "open" /\ gh'[cur[r]].state = "merged"
               /\ gh'[cur[r]].head = entry[r][cur[r]]
               /\ \A q \in PRs : q # cur[r] => gh'[q] = gh[q]
               /\ \A q \in PRs : mergedBy'[q] = IF q = cur[r] THEN r ELSE mergedBy[q]
            \/ Settles /\ UNCHANGED <<gh, mergedBy>>
        BY <3>0, <3>22, MergesStep DEF MergeFails, Settles
      <4>2. Framed(r)
        BY <3>0, <3>22, <4>1 DEF Framed, Undisturbed, Settles, MergeFails, Lose
      <4>3. Pipeline(r)'
        <5>1. /\ pc[r] = "merge" /\ pc'[r] = "restore"
              /\ UNCHANGED <<todo, entry, archived, cur, reported>>
              /\ Merges(r) \/ UNCHANGED <<gh, mergedBy>>
          BY <3>0, <3>22 DEF MergeFails, Lose
        <5>2. CASE Merges(r)
          BY <3>0, <5>1, <5>2, PipelineMerges
        <5>3. CASE UNCHANGED <<gh, mergedBy>>
          BY <3>0, <5>1, <5>3 DEF Pipeline, Preparing
        <5> QED
          BY <5>1, <5>2, <5>3
      <4>4. Heeded(r)'
        BY <3>0, <3>22, <4>1 DEF Heeded, Pipeline, Settles, MergeFails, Lose
      <4> QED
        BY <4>2, <4>3, <4>4 DEF Kept
    <3>23. CASE RestoreFails(r)
      <4>1. Settles /\ (\A p \in PRs : gh'[p].state = gh[p].state)
        BY <3>0, <3>23, SetDraftStep DEF RestoreFails, Settles
      <4>2. Framed(r)
        BY <3>0, <3>23, <4>1 DEF Framed, Undisturbed, Settles, RestoreFails, Lose
      <4>3. Pipeline(r)'
        BY <3>0, <3>23, <4>1 DEF Pipeline, Preparing, Settles, RestoreFails, Lose
      <4>4. Heeded(r)'
        BY <3>0, <3>23, <4>1 DEF Heeded, Pipeline, Settles, RestoreFails, Lose
      <4> QED
        BY <4>2, <4>3, <4>4 DEF Kept
    <3> QED
      BY <2>2, <3>1, <3>2, <3>3, <3>4, <3>5, <3>6, <3>7, <3>8, <3>9, <3>10, <3>11,
         <3>12, <3>13, <3>14, <3>15, <3>16, <3>17, <3>18, <3>19, <3>20, <3>21,
         <3>22, <3>23 DEF Step
  <2>3. ASSUME NEW r \in Runs, Step(r) PROVE MergeInv'
    BY <2>2, <2>3, UndisturbedStep DEF Kept, Framed, MergeInv
  <2>4. CASE UNCHANGED vars
    BY <2>4 DEF vars, envVars, history, MergeInv, Pipeline, Heeded
  <2> QED
    BY <2>1, <2>3, <2>4 DEF Next
<1> QED
  BY <1>1, <1>2, Typing, PTL DEF Spec

\* A run merges only the head its manifest records, whose files were validated
\* without credentials, and reports only what it merged.
THEOREM MergesAreValidated == Spec => []MergedWasValidated
<1>1. Typed /\ MergeInv => MergedWasValidated
  <2> SUFFICES ASSUME Typed, MergeInv, NEW r \in Runs, NEW p \in PRs
               PROVE  /\ mergedBy[p] = r => /\ gh[p].state = "merged"
                                            /\ gh[p].head = entry[r][p]
                                            /\ <<p, gh[p].head>> \in Sound
                      /\ p \in reported[r] => mergedBy[p] = r
    BY DEF MergedWasValidated
  <2> QED
    BY DEF MergeInv, Pipeline
<1> QED
  BY <1>1, Typing, MergeInvariant, PTL

\* An objection that stood when the run took up a pull request, or promoted it,
\* keeps it from merging it.
THEOREM ObjectionsAreHeeded == Spec => []ObjectionsStop
<1>1. MergeInv => ObjectionsStop
  BY DEF MergeInv, Heeded, ObjectionsStop
<1> QED
  BY <1>1, MergeInvariant, PTL

-----------------------------------------------------------------------------
(* What a run takes out of draft.                                          *)

HeldBy(r, p) ==
    cur[r] = p /\ pc[r] \in {"poll", "pollAgain", "postChecks", "merge", "restore"}

\* What a step of r has to show: a pull request that is out of draft after it is
\* at hand, or abandoned, or was out of draft before it and not in the hands of r.
Accounted(r) ==
    /\ abandoned \subseteq abandoned'
    /\ \A q \in Runs \ {r} : pc'[q] = pc[q] /\ cur'[q] = cur[q]
    /\ \A p \in PRs : gh'[p].state = "open" /\ ~gh'[p].draft =>
          \/ p \in abandoned'
          \/ HeldBy(r, p)'
          \/ gh[p].state = "open" /\ ~gh[p].draft /\ ~HeldBy(r, p)
    /\ pc'[r] = "pollAgain" => r = "graphql"

\* Only the GraphQL run asks twice in a poll; so no failed reading of the REST
\* run leaves a promotion behind unnoticed.
PromotedInv ==
    /\ NoneLeftPromoted
    /\ \A r \in Runs : pc[r] = "pollAgain" => r = "graphql"

LEMMA PromotedStep ==
    ASSUME PromotedInv, NEW r \in Runs, Accounted(r)
    PROVE  PromotedInv'
<1>1. ASSUME NEW p \in PRs, gh'[p].state = "open", ~gh'[p].draft
      PROVE  Held(p)' \/ p \in abandoned'
  <2>1. CASE p \in abandoned' \/ HeldBy(r, p)'
    BY <2>1 DEF Held, HeldBy
  <2>2. CASE gh[p].state = "open" /\ ~gh[p].draft /\ ~HeldBy(r, p)
    <3>1. Held(p) \/ p \in abandoned
      BY <2>2 DEF PromotedInv, NoneLeftPromoted
    <3>2. ASSUME Held(p) PROVE Held(p)'
      <4>1. PICK q \in Runs : HeldBy(q, p)
        BY <3>2 DEF Held, HeldBy
      <4>2. HeldBy(q, p)'
        BY <2>2, <4>1 DEF Accounted, HeldBy
      <4> QED
        BY <4>2 DEF Held, HeldBy
    <3> QED
      BY <3>1, <3>2 DEF Accounted
  <2> QED
    BY <1>1, <2>1, <2>2 DEF Accounted
<1>2. \A q \in Runs : pc'[q] = "pollAgain" => q = "graphql"
  BY DEF PromotedInv, Accounted
<1> QED
  BY <1>1, <1>2 DEF PromotedInv, NoneLeftPromoted

\* A pull request that is out of draft is at hand or was abandoned by a failed
\* request, with both pipelines at work and others changing the pull requests.
THEOREM NoneIsLeftPromoted == Spec => []NoneLeftPromoted
<1>1. Init => PromotedInv
  BY DEF Init, PromotedInv, NoneLeftPromoted
<1>2. Typed /\ MergeInv /\ PromotedInv /\ [Next]_vars => PromotedInv'
  <2> SUFFICES ASSUME Typed, MergeInv, PromotedInv, [Next]_vars PROVE PromotedInv'
    OBVIOUS
  <2>1. ASSUME NEW p \in PRs, Push(p) \/ Recheck(p) \/ Object(p) \/ CloseOrMerge(p)
        PROVE  PromotedInv'
    BY <2>1, OthersStep DEF Typed, PromotedInv, NoneLeftPromoted, Held, history
  <2>2. ASSUME NEW r \in Runs, Step(r) PROVE Accounted(r)
    <3>0. /\ TypeOK /\ Typed /\ AtHand(r)
          /\ pc[r] = "pollAgain" => r = "graphql"
          /\ pc[r] = "verify" => gh[cur[r]].state = "merged"
      BY DEF Typed, AtHand, Active, MergeInv, Pipeline, PromotedInv
    <3> USE DEF Goto, Handled, Stay, This, Lose, envVars, history, AtHand, TypeOK, Active
    <3>1. ASSUME NEW p \in PRs, Inspect(r, p) PROVE Accounted(r)
      BY <3>0, <3>1, PortfolioAssumption DEF Accounted, HeldBy, Inspect
    <3>2. ASSUME NEW p \in PRs, Archive(r, p) PROVE Accounted(r)
      BY <3>0, <3>2, PortfolioAssumption DEF Accounted, HeldBy, Archive
    <3>3. ASSUME NEW p \in PRs, Take(r, p) PROVE Accounted(r)
      BY <3>0, <3>3, PortfolioAssumption DEF Accounted, HeldBy, Take
    <3>4. CASE Inspected(r)
      BY <3>0, <3>4, PortfolioAssumption DEF Accounted, HeldBy, Inspected
    <3>5. CASE Archived(r)
      BY <3>0, <3>5, PortfolioAssumption DEF Accounted, HeldBy, Archived
    <3>6. CASE Validate(r)
      BY <3>0, <3>6, PortfolioAssumption DEF Accounted, HeldBy, Validate
    <3>7. CASE Finish(r)
      BY <3>0, <3>7, PortfolioAssumption DEF Accounted, HeldBy, Finish
    <3>8. CASE Gate(r)
      BY <3>0, <3>8, PortfolioAssumption DEF Accounted, HeldBy, Gate
    <3>9. CASE GateRest(r)
      BY <3>0, <3>9, PortfolioAssumption DEF Accounted, HeldBy, GateRest
    <3>10. CASE Promote(r)
      <4>1. \A q \in PRs : /\ q # cur[r] => gh'[q] = gh[q]
                            /\ gh'[q].state = gh[q].state
        BY <3>0, <3>10, SetDraftStep DEF Promote
      <4> QED
        BY <3>0, <3>10, <4>1, PortfolioAssumption DEF Accounted, HeldBy, Promote
    <3>11. CASE Poll(r)
      BY <3>0, <3>11, PortfolioAssumption DEF Accounted, HeldBy, Poll, PollAnew, Polled
    <3>12. CASE PollAgain(r)
      BY <3>0, <3>12, PortfolioAssumption DEF Accounted, HeldBy, PollAgain, PollAnew
    <3>13. CASE PostChecks(r)
      BY <3>0, <3>13, PortfolioAssumption DEF Accounted, HeldBy, PostChecks
    <3>14. CASE NoMethod(r)
      BY <3>0, <3>14, PortfolioAssumption DEF Accounted, HeldBy, NoMethod
    <3>15. CASE Merge(r)
      <4>1. /\ \A q \in PRs : q # cur[r] => gh'[q] = gh[q]
            /\ gh'[cur[r]].state = "merged"
        BY <3>0, <3>15, MergesStep DEF Merge
      <4> QED
        BY <3>0, <3>15, <4>1 DEF Accounted, HeldBy, Merge
    <3>16. CASE MergeRefused(r)
      BY <3>0, <3>16, PortfolioAssumption DEF Accounted, HeldBy, MergeRefused
    <3>17. CASE Verify(r)
      BY <3>0, <3>17, PortfolioAssumption DEF Accounted, HeldBy, Verify
    <3>18. CASE Restore(r)
      <4>1. \A q \in PRs : /\ q # cur[r] => gh'[q] = gh[q]
                            /\ gh'[q].state = gh[q].state
        BY <3>0, <3>18, SetDraftStep DEF Restore
      <4>2. gh'[cur[r]].state = "open" => gh'[cur[r]].draft
        BY <3>0, <3>18, <4>1, SetDraftStep DEF Restore
      <4> QED
        BY <3>0, <3>18, <4>1, <4>2 DEF Accounted, HeldBy, Restore
    <3>19. CASE GateFails(r)
      BY <3>0, <3>19, PortfolioAssumption DEF Accounted, HeldBy, GateFails
    <3>20. CASE ReadFails(r)
      BY <3>0, <3>20, PortfolioAssumption DEF Accounted, HeldBy, ReadFails, Thrown, Abandon
    <3>21. CASE PromoteFails(r)
      <4>1. \A q \in PRs : /\ q # cur[r] => gh'[q] = gh[q]
                            /\ gh'[q].state = gh[q].state
        BY <3>0, <3>21, SetDraftStep DEF PromoteFails
      <4> QED
        BY <3>0, <3>21, <4>1, PortfolioAssumption DEF Accounted, HeldBy, PromoteFails, Thrown, Abandon
    <3>22. CASE MergeFails(r)
      <4>1. \A q \in PRs : gh'[q] = gh[q] \/ gh'[q].state = "merged"
        BY <3>0, <3>22, MergesStep DEF MergeFails
      <4> QED
        BY <3>0, <3>22, <4>1 DEF Accounted, HeldBy, MergeFails
    <3>23. CASE RestoreFails(r)
      <4>1. \A q \in PRs : /\ q # cur[r] => gh'[q] = gh[q]
                            /\ gh'[q].state = gh[q].state
        BY <3>0, <3>23, SetDraftStep DEF RestoreFails
      <4> QED
        BY <3>0, <3>23, <4>1, PortfolioAssumption DEF Accounted, HeldBy, RestoreFails, Abandon
    <3> QED
      BY <2>2, <3>1, <3>2, <3>3, <3>4, <3>5, <3>6, <3>7, <3>8, <3>9, <3>10, <3>11,
         <3>12, <3>13, <3>14, <3>15, <3>16, <3>17, <3>18, <3>19, <3>20, <3>21,
         <3>22, <3>23 DEF Step
  <2>3. CASE UNCHANGED vars
    BY <2>3 DEF vars, history, PromotedInv, NoneLeftPromoted, Held
  <2> QED
    BY <2>1, <2>2, <2>3, PromotedStep DEF Next
<1>3. PromotedInv => NoneLeftPromoted
  BY DEF PromotedInv
<1> QED
  BY <1>1, <1>2, <1>3, Typing, MergeInvariant, PTL DEF Spec
=============================================================================
