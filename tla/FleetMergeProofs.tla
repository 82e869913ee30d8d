-------------------------- MODULE FleetMergeProofs --------------------------
(***************************************************************************)
(* Proofs about the PR-fleet merger for any pull requests, pushes, lost    *)
(* responses and bounds.                                                   *)
(***************************************************************************)
EXTENDS FleetMerge, FiniteSetTheorems, TLAPS

\* A record of View with some fields replaced is a view again.
LEMMA ViewUpdates ==
    ASSUME NEW v \in View
    PROVE  /\ v.state \in {"open", "merged", "closed"} /\ v.head \in Heads /\ v.head \in Nat
           /\ \A h \in Heads : [v EXCEPT !.head = h, !.green = FALSE, !.clean = FALSE] \in View
           /\ \A g, c, b \in BOOLEAN :
                 [v EXCEPT !.green = g, !.clean = c, !.blocked = b] \in View
           /\ \A s \in {"merged", "closed"} : [v EXCEPT !.state = s, !.clean = FALSE] \in View
           /\ \A d \in BOOLEAN : [v EXCEPT !.draft = d] \in View
<1>1. v.state \in {"open", "merged", "closed"} /\ v.head \in Heads /\ v.head \in Nat
  BY BoundsAssumption DEF View, Heads
<1>2. \A h \in Heads : [v EXCEPT !.head = h, !.green = FALSE, !.clean = FALSE] \in View
  BY DEF View
<1>3. \A g, c, b \in BOOLEAN :
         [v EXCEPT !.green = g, !.clean = c, !.blocked = b] \in View
  BY DEF View
<1>4. \A s \in {"merged", "closed"} : [v EXCEPT !.state = s, !.clean = FALSE] \in View
  BY DEF View
<1>5. \A d \in BOOLEAN : [v EXCEPT !.draft = d] \in View
  BY DEF View
<1> QED
  BY <1>1, <1>2, <1>3, <1>4, <1>5

\* What a step of authors, CI and other mergers does to GitHub: nothing to a
\* pull request that is not open, and without rewinds a head only grows.
LEMMA OthersStep ==
    ASSUME TypeOK, Others
    PROVE  /\ gh' \in [PRs -> View]
           /\ events' \in 0..MaxEvents
           /\ UNCHANGED <<pc, snap, total, queue, cur, pr, promoted, tries, merged, history>>
           /\ UNCHANGED faulty
           /\ rewound' \in BOOLEAN /\ (rewound => rewound')
           /\ \A p \in PRs : /\ ~rewound' => gh[p].head <= gh'[p].head
                             /\ gh[p].state # "open" => gh'[p] = gh[p]
                             /\ gh'[p].draft = gh[p].draft
<1>1. PICK p \in PRs : Push(p) \/ Recheck(p) \/ CloseOrMerge(p)
  BY DEF Others
<1>2. gh[p] \in View
  BY DEF TypeOK
<1>3. PICK v \in View : /\ Environment(p, v)
                        /\ gh[p].state = "open" /\ v.draft = gh[p].draft
  <2>1. CASE Push(p)
    <3>4. PICK h \in Heads : Environment(p, [gh[p] EXCEPT !.head = h, !.green = FALSE,
                                                          !.clean = FALSE])
      BY <2>1 DEF Push
    <3> DEFINE w == [gh[p] EXCEPT !.head = h, !.green = FALSE, !.clean = FALSE]
    <3>1. w \in View
      BY <1>2, ViewUpdates
    <3>2. Environment(p, w) /\ gh[p].state = "open"
      BY <2>1, <3>4 DEF Push
    <3>3. w.draft = gh[p].draft
      BY <1>2 DEF View
    <3> QED
      BY <3>1, <3>2, <3>3
  <2>2. CASE Recheck(p)
    <3>1. PICK g \in BOOLEAN, c \in BOOLEAN, b \in BOOLEAN :
            Environment(p, [gh[p] EXCEPT !.green = g, !.clean = c, !.blocked = b])
      BY <2>2 DEF Recheck
    <3> DEFINE w == [gh[p] EXCEPT !.green = g, !.clean = c, !.blocked = b]
    <3>2. w \in View
      BY <1>2, ViewUpdates
    <3>3. Environment(p, w) /\ gh[p].state = "open"
      BY <2>2, <3>1 DEF Recheck
    <3>4. w.draft = gh[p].draft
      BY <1>2 DEF View
    <3> QED
      BY <3>2, <3>3, <3>4
  <2>3. CASE CloseOrMerge(p)
    <3>1. PICK s \in {"merged", "closed"} :
            Environment(p, [gh[p] EXCEPT !.state = s, !.clean = FALSE])
      BY <2>3 DEF CloseOrMerge
    <3> DEFINE w == [gh[p] EXCEPT !.state = s, !.clean = FALSE]
    <3>2. w \in View
      BY <1>2, ViewUpdates
    <3>3. Environment(p, w) /\ gh[p].state = "open"
      BY <2>3, <3>1 DEF CloseOrMerge
    <3>4. w.draft = gh[p].draft
      BY <1>2 DEF View
    <3> QED
      BY <3>2, <3>3, <3>4
  <2> QED
    BY <1>1, <2>1, <2>2, <2>3
<1>4. /\ gh' = [gh EXCEPT ![p] = v] /\ events < MaxEvents /\ events' = events + 1
      /\ rewound' = (rewound \/ v.head < gh[p].head)
      /\ UNCHANGED <<pc, snap, total, queue, cur, pr, promoted, tries, merged, history>>
  BY <1>3 DEF Environment
<1>5. v.head \in Nat /\ \A q \in PRs : gh[q].head \in Nat
  BY ViewUpdates DEF TypeOK
<1>6. ~rewound' => gh[p].head <= v.head
  <2>1. ~rewound' => ~(v.head < gh[p].head)
    BY <1>4, Zenon
  <2> QED
    BY <1>5, <2>1
<1>7. \A q \in PRs : ~rewound' => gh[q].head <= gh'[q].head
  BY <1>4, <1>5, <1>6 DEF TypeOK
<1>8. rewound' \in BOOLEAN /\ (rewound => rewound')
  BY <1>4 DEF TypeOK
<1>9. \A q \in PRs : gh'[q].draft = gh[q].draft
  BY <1>3, <1>4 DEF TypeOK
<1> QED
  BY <1>3, <1>4, <1>7, <1>8, <1>9, BoundsAssumption DEF TypeOK, history

-----------------------------------------------------------------------------

\* What GitHub's own side of a draft conversion does.
LEMMA SetDraftStep ==
    ASSUME TypeOK, cur \in PRs, NEW d \in BOOLEAN, SetDraft(d)
    PROVE  /\ gh' \in [PRs -> View]
           /\ \A p \in PRs : /\ gh'[p].head = gh[p].head
                             /\ gh'[p].state = gh[p].state
                             /\ p # cur => gh'[p] = gh[p]
           /\ gh[cur].state = "open" => gh'[cur].draft = d
<1>1. gh[cur] \in View /\ gh[cur].draft \in BOOLEAN
  BY DEF TypeOK, View
<1> DEFINE e == IF gh[cur].draft # d /\ gh[cur].state = "open" THEN d ELSE gh[cur].draft
<1>2. gh' = [gh EXCEPT ![cur] = [gh[cur] EXCEPT !.draft = e]]
  BY DEF SetDraft
<1>3. e \in BOOLEAN
  BY <1>1
<1>4. [gh[cur] EXCEPT !.draft = e] \in View
  BY <1>1, <1>3, ViewUpdates
<1>5. /\ [gh[cur] EXCEPT !.draft = e].head = gh[cur].head
      /\ [gh[cur] EXCEPT !.draft = e].state = gh[cur].state
      /\ [gh[cur] EXCEPT !.draft = e].draft = e
  BY <1>1 DEF View
<1>6. gh[cur].state = "open" => e = d
  BY <1>1
<1> QED
  BY <1>2, <1>4, <1>5, <1>6 DEF TypeOK

\* What an applied merge request does.
LEMMA PutMergeStep ==
    ASSUME TypeOK, cur \in PRs, PutMerge
    PROVE  /\ gh' \in [PRs -> View]
           /\ gh'[cur].state = "merged" /\ gh'[cur].head = gh[cur].head
           /\ \A p \in PRs \ {cur} : gh'[p] = gh[p]
<1> DEFINE v == [gh[cur] EXCEPT !.state = "merged", !.clean = FALSE]
<1>1. gh[cur] \in View
  BY DEF TypeOK
<1>2. gh' = [gh EXCEPT ![cur] = v]
  BY DEF PutMerge
<1>3. v \in View
  BY <1>1, ViewUpdates
<1>4. v.state = "merged" /\ v.head = gh[cur].head
  BY <1>1 DEF View
<1> QED
  BY <1>2, <1>3, <1>4 DEF TypeOK

-----------------------------------------------------------------------------

\* The positions at which a candidate is being handled.
Active == {"load", "patch", "ready", "poll", "headcheck", "put", "restore", "verify"}

\* A candidate at hand is a pull request, and `pr` holds a view once loaded.
CandidateKnown ==
    /\ pc \in Active => cur \in PRs
    /\ pc \in Active \ {"load"} => pr \in View

\* Type correctness of the merger and of GitHub's state.
THEOREM Typing == Spec => [](TypeOK /\ CandidateKnown)
<1>1. Init => TypeOK /\ CandidateKnown
  <2>1. Init => gh \in [PRs -> View]
    BY DEF Init
  <2> QED
    <3> SUFFICES ASSUME Init
                 PROVE  TypeOK /\ CandidateKnown
      OBVIOUS
    <3>1. events \in 0..MaxEvents
      BY BoundsAssumption DEF Init
    <3>2. TypeOK
      BY <2>1, <3>1 DEF Init, TypeOK
    <3>3. CandidateKnown
      BY DEF Init, CandidateKnown, Active
    <3> QED
      BY <3>2, <3>3
<1>2. TypeOK /\ CandidateKnown /\ [Next]_vars => TypeOK' /\ CandidateKnown'
  <2> SUFFICES ASSUME TypeOK, CandidateKnown, [Next]_vars
               PROVE  TypeOK' /\ CandidateKnown'
    OBVIOUS
  <2> USE DEF history, ghVars, envVars, Fault, LeaveCandidate, SkipPromoted, CandidateKnown, Active
  <2>1. ASSUME NEW p \in PRs, ObservePR(p)
        PROVE  TypeOK' /\ CandidateKnown'
    <3>1. OpenCount \in Nat
      BY PRsAssumption, FS_Subset, FS_CardinalityType DEF OpenCount
    <3>2. total' \in Nat /\ gh[p] \in View
      BY <2>1, <3>1 DEF ObservePR, TypeOK
    <3> QED
      BY <2>1, <3>2 DEF ObservePR, TypeOK
  <2>2. CASE Classify \/ Finish \/ \E p \in PRs : TakeCandidate(p)
    <3>1. Observed \subseteq PRs
      BY DEF Observed
    <3>2. CASE Classify
      BY <3>1, <3>2 DEF Classify, TypeOK
    <3>3. CASE Finish
      BY <3>3 DEF Finish, TypeOK
    <3>4. ASSUME NEW p \in PRs, TakeCandidate(p)
          PROVE  TypeOK' /\ CandidateKnown'
      BY <3>4 DEF TakeCandidate, TypeOK
    <3> QED
      BY <2>2, <3>2, <3>3, <3>4
  <2>3. CASE LoadFresh \/ ScanPatch
    <3>1. gh[cur] \in View /\ gh[cur].head \in Heads
      BY <2>3, ViewUpdates DEF LoadFresh, ScanPatch, TypeOK
    <3> QED
      BY <2>3, <3>1 DEF LoadFresh, ScanPatch, TypeOK
  <2>4. CASE MarkReady
    BY <2>4, SetDraftStep DEF MarkReady, TypeOK
  <2>5. CASE Poll \/ HeadAfterPromotion \/ NoMergeMethod
    BY <2>5 DEF Poll, HeadAfterPromotion, NoMergeMethod, TypeOK
  <2>6. CASE PutMerge
    <3>1. gh' \in [PRs -> View] /\ gh[cur].head \in Heads
      BY <2>6, PutMergeStep, ViewUpdates DEF PutMerge, TypeOK
    <3> QED
      BY <2>6, <3>1 DEF PutMerge, TypeOK
  <2>7. CASE PutRefused \/ PutLost \/ Exception \/ Verify
    BY <2>7 DEF PutRefused, PutLost, Exception, Verify, TypeOK
  <2>8. CASE RestoreDraft
    BY <2>8, SetDraftStep DEF RestoreDraft, TypeOK
  <2>9. CASE Others
    BY <2>9, OthersStep DEF TypeOK
  <2>10. CASE UNCHANGED vars
    BY <2>10 DEF vars, TypeOK
  <2> QED
    BY <2>1, <2>2, <2>3, <2>4, <2>5, <2>6, <2>7, <2>8, <2>9, <2>10 DEF Next, Merger
<1> QED
  BY <1>1, <1>2, PTL DEF Spec

-----------------------------------------------------------------------------
(***************************************************************************)
(* The inductive invariant.  The snapshot does not change once the search  *)
(* is over.  Without rewinds heads only grow, so the head that was scanned *)
(* lies between the snapshot's and the current one; the merge request      *)
(* closes that interval.                                                   *)
(***************************************************************************)

\* Without rewinds a snapshot's head is at most the current one.
HeadsGrow ==
    \A p \in PRs : snap[p] # None =>
        /\ snap[p] \in View
        /\ ~rewound => snap[p].head <= gh[p].head

\* What is eligible, at hand or merged was found isolated in the snapshot.
Vetted(p) == snap[p] # None /\ Isolated(p)

AllVetted ==
    /\ pc = "snapshot" => queue = {} /\ merged = {} /\ \A p \in PRs : byRun[p] = None
    /\ \A p \in queue : Vetted(p)
    /\ pc \in Active => Vetted(cur)
    /\ \A p \in MergedByRun : Vetted(p)

\* From the fresh load on, `pr` is at the snapshot's head whenever it is used.
AtSnapshotHead ==
    pc \in {"patch", "put", "verify"} => pr.head = snap[cur].head

\* From the patch scan on, the scanned head was safe and not older.
Scanned ==
    pc \in {"ready", "poll", "headcheck", "put", "verify"} =>
        /\ scanned \in Heads /\ scanned \in SafeHeads[cur]
        /\ ~rewound => snap[cur].head <= scanned /\ scanned <= gh[cur].head

MergedExactly ==
    /\ pc = "verify" => byRun[cur] = snap[cur].head
    /\ \A p \in MergedByRun : byRun[p] = snap[p].head
    /\ ScannedHead

MergeInv ==
    HeadsGrow /\ AllVetted /\ AtSnapshotHead /\ Scanned /\ MergedExactly /\ ReportedAreMerged

\* The head of every view is a natural number.
LEMMA HeadsAreNat == ASSUME TypeOK PROVE \A p \in PRs : gh[p].head \in Nat
BY ViewUpdates DEF TypeOK

\* Steps that leave the snapshot, the merges and the candidate's evidence alone.
LEMMA QuietStep ==
    ASSUME TypeOK, CandidateKnown, MergeInv,
           rewound => rewound',
           \A p \in PRs : /\ ~rewound' => gh[p].head <= gh'[p].head
                          /\ gh[p].state = "merged" => gh'[p].state = "merged",
           \A p \in PRs : gh'[p].head \in Nat,
           pc' = "snapshot" => pc = "snapshot",
           UNCHANGED <<snap, byRun, merged, queue>>,
           pc' \in Active => cur' = cur /\ pc \in Active,
           pc' \in {"patch", "put", "verify"} => AtSnapshotHead',
           pc' \in {"ready", "poll", "headcheck", "put", "verify"} => Scanned',
           pc' = "verify" => pc = "verify"
    PROVE  MergeInv'
<1> USE DEF MergeInv
<1>1. HeadsGrow'
  <2> SUFFICES ASSUME NEW p \in PRs, snap[p] # None
               PROVE  snap[p] \in View /\ (~rewound' => snap[p].head <= gh'[p].head)
    BY DEF HeadsGrow
  <2>1. snap[p] \in View /\ (~rewound => snap[p].head <= gh[p].head)
    BY DEF HeadsGrow
  <2>2. snap[p].head \in Nat /\ gh[p].head \in Nat /\ gh'[p].head \in Nat
    BY <2>1, ViewUpdates, HeadsAreNat
  <2> QED
    BY <2>1, <2>2
<1>2. AllVetted'
  BY DEF AllVetted, Vetted, Isolated, Overlap, Observed, MergedByRun, Active
<1>3. AtSnapshotHead' /\ Scanned'
  BY DEF AtSnapshotHead, Scanned
<1>4. MergedExactly'
  BY DEF MergedExactly, MergedByRun, Active, ScannedHead
<1>5. ReportedAreMerged'
  BY DEF ReportedAreMerged, TypeOK
<1> QED
  BY <1>1, <1>2, <1>3, <1>4, <1>5

\* The steps of the script that change neither GitHub nor what it has merged.
LEMMA ScriptStep ==
    ASSUME TypeOK, CandidateKnown, MergeInv,
           \/ Finish \/ LoadFresh \/ ScanPatch \/ Poll \/ HeadAfterPromotion
           \/ NoMergeMethod \/ PutRefused \/ PutLost \/ Exception
    PROVE  MergeInv'
<1> USE DEF history, ghVars, envVars, Fault, LeaveCandidate, SkipPromoted
<1>1. /\ UNCHANGED <<gh, rewound, snap, byRun, merged, queue, cur>>
      /\ pc \in Active \cup {"next"}
      /\ pc' \in (Active \ {"load"}) \cup {"next", "done"}
      /\ pc' = "verify" => pc = "verify"
      /\ pc' \in Active => pc \in Active
  <2>1. CASE Finish \/ LoadFresh \/ Exception
    BY <2>1 DEF Finish, LoadFresh, Exception, Active
  <2>2. CASE ScanPatch
    BY <2>2 DEF ScanPatch, Active
  <2>3. CASE Poll
    BY <2>3 DEF Poll, Active
  <2>4. CASE HeadAfterPromotion \/ NoMergeMethod \/ PutRefused \/ PutLost
    BY <2>4 DEF HeadAfterPromotion, NoMergeMethod, PutRefused, PutLost, Active
  <2> QED
    BY <2>1, <2>2, <2>3, <2>4
<1>2. \A p \in PRs : gh[p].head \in Nat
  BY HeadsAreNat
<1>3. ASSUME pc' \in {"patch", "put", "verify"}
      PROVE  AtSnapshotHead'
  BY <1>1, <1>3 DEF MergeInv, AtSnapshotHead, Finish, LoadFresh, ScanPatch, Poll,
     HeadAfterPromotion, NoMergeMethod, PutRefused, PutLost, Exception
<1>4. ASSUME pc' \in {"ready", "poll", "headcheck", "put", "verify"}
      PROVE  Scanned'
  <2>1. CASE ScanPatch
    <3>1. pc = "patch" /\ cur \in PRs /\ snap[cur] # None
      BY <2>1 DEF ScanPatch, CandidateKnown, MergeInv, AllVetted, Vetted, Active
    <3>2. gh[cur].head \in Heads /\ (~rewound => snap[cur].head <= gh[cur].head)
      BY <3>1, ViewUpdates DEF TypeOK, MergeInv, HeadsGrow
    <3>3. scanned' = gh[cur].head /\ gh[cur].head \in SafeHeads[cur]
      BY <1>4, <2>1 DEF ScanPatch
    <3>4. gh[cur].head \in Nat
      BY <1>2, <3>1
    <3> QED
      BY <1>1, <3>2, <3>3, <3>4 DEF Scanned
  <2>2. CASE ~ScanPatch
    BY <1>1, <1>4, <2>2 DEF MergeInv, Scanned, Finish, LoadFresh, Poll,
       HeadAfterPromotion, NoMergeMethod, PutRefused, PutLost, Exception
  <2> QED
    BY <2>1, <2>2
<1>5. \A p \in PRs : gh[p].head <= gh'[p].head /\ gh'[p].head \in Nat
  BY <1>1, <1>2
<1> QED
  BY <1>1, <1>3, <1>4, <1>5, QuietStep DEF Active

\* The merge request is applied to an open pull request at pr's head, which is
\* the snapshot's: the scanned head, squeezed between the two, is that head.
LEMMA PutMergeKeeps ==
    ASSUME TypeOK, CandidateKnown, MergeInv, PutMerge
    PROVE  MergeInv'
<1> USE DEF history, ghVars, envVars, Fault, SkipPromoted
<1>1. /\ pc = "put" /\ cur \in PRs /\ gh[cur].head = pr.head /\ gh[cur].state = "open"
      /\ snap[cur] # None /\ Vetted(cur)
  BY DEF PutMerge, Acceptable, CandidateKnown, MergeInv, AllVetted, Vetted, Active
<1>2. /\ UNCHANGED <<rewound, snap, merged, queue, cur, pr, scanned>>
      /\ byRun' = [byRun EXCEPT ![cur] = gh[cur].head]
      /\ pc' \in {"put", "verify", "restore", "next"}
  BY DEF PutMerge
<1>3. /\ gh' \in [PRs -> View]
      /\ gh'[cur].state = "merged" /\ gh'[cur].head = gh[cur].head
      /\ \A p \in PRs \ {cur} : gh'[p] = gh[p]
  BY <1>1, PutMergeStep
<1>4. pr.head = snap[cur].head
  BY <1>1 DEF MergeInv, AtSnapshotHead
<1>5. snap[cur].head \in Nat /\ gh[cur].head \in Nat
  BY <1>1, HeadsAreNat, ViewUpdates DEF MergeInv, HeadsGrow
<1>6. /\ scanned \in Nat /\ scanned \in SafeHeads[cur]
      /\ ~rewound => snap[cur].head <= scanned /\ scanned <= gh[cur].head
  BY <1>1, BoundsAssumption DEF MergeInv, Scanned, Heads
<1>7. /\ gh[cur].head = snap[cur].head
      /\ ~rewound => gh[cur].head \in SafeHeads[cur]
  <2>1. gh[cur].head = snap[cur].head
    BY <1>1, <1>4
  <2>2. ASSUME ~rewound
        PROVE  gh[cur].head = scanned
    BY <1>5, <1>6, <2>1, <2>2
  <2> QED
    BY <1>6, <2>1, <2>2
<1>8. HeadsGrow'
  BY <1>2, <1>3 DEF MergeInv, HeadsGrow
<1>9. AllVetted'
  <2>1. MergedByRun' \subseteq MergedByRun \cup {cur}
    BY <1>1, <1>2 DEF MergedByRun, TypeOK
  <2>2. \A p : Vetted(p)' = Vetted(p)
    BY <1>2 DEF Vetted, Isolated, Overlap, Observed
  <2> QED
    BY <1>1, <1>2, <2>1, <2>2 DEF MergeInv, AllVetted
<1>10. AtSnapshotHead' /\ Scanned'
  BY <1>1, <1>2, <1>3 DEF MergeInv, AtSnapshotHead, Scanned
<1>11. MergedExactly'
  BY <1>1, <1>2, <1>7 DEF MergeInv, MergedExactly, ScannedHead, MergedByRun, TypeOK
<1>12. ReportedAreMerged'
  BY <1>1, <1>2, <1>3, <1>7 DEF MergeInv, ReportedAreMerged, TypeOK
<1> QED
  BY <1>8, <1>9, <1>10, <1>11, <1>12 DEF MergeInv

\* MergeInv is an invariant, whatever the environment does and whatever requests
\* and responses are lost.
THEOREM MergeInvariant == Spec => []MergeInv
<1>1. Init => MergeInv
  BY DEF Init, MergeInv, HeadsGrow, AllVetted, Vetted, AtSnapshotHead, Scanned, MergedExactly,
         ScannedHead, ReportedAreMerged, MergedByRun, Active
<1>2. TypeOK /\ CandidateKnown /\ MergeInv /\ [Next]_vars => MergeInv'
  <2> SUFFICES ASSUME TypeOK, CandidateKnown, MergeInv, [Next]_vars
               PROVE  MergeInv'
    OBVIOUS
  <2> USE DEF history, ghVars, envVars, Fault, LeaveCandidate, SkipPromoted
  <2>1. ASSUME NEW p \in PRs, ObservePR(p)
        PROVE  MergeInv'
    <3>1. /\ snap' = [snap EXCEPT ![p] = gh[p]] /\ gh[p] \in View /\ gh[p].head \in Nat
          /\ pc = "snapshot"
          /\ UNCHANGED <<gh, rewound, pc, queue, merged, byRun, cur, pr, scanned>>
      BY <2>1, HeadsAreNat DEF ObservePR, TypeOK
    <3>2. HeadsGrow'
      BY <3>1 DEF MergeInv, HeadsGrow, TypeOK
    <3> QED
      BY <3>1, <3>2 DEF MergeInv, AllVetted, AtSnapshotHead, Scanned, MergedExactly,
         ScannedHead, ReportedAreMerged, MergedByRun, Active
  <2>2. CASE Classify
    BY <2>2 DEF Classify, MergeInv, HeadsGrow, AllVetted, Vetted, Isolated, Overlap, Observed,
       AtSnapshotHead, Scanned, MergedExactly, ScannedHead, ReportedAreMerged, MergedByRun, Active
  <2>3. ASSUME NEW p \in PRs, TakeCandidate(p)
        PROVE  MergeInv'
    BY <2>3 DEF TakeCandidate, MergeInv, HeadsGrow, AllVetted, Vetted, Isolated, Overlap,
       Observed, AtSnapshotHead, Scanned, MergedExactly, ScannedHead, ReportedAreMerged, MergedByRun, Active
  <2>4. CASE \/ Finish \/ LoadFresh \/ ScanPatch \/ Poll \/ HeadAfterPromotion
             \/ NoMergeMethod \/ PutRefused \/ PutLost \/ Exception
    BY <2>4, ScriptStep
  <2>5. CASE PutMerge
    BY <2>5, PutMergeKeeps
  <2>6. CASE MarkReady \/ RestoreDraft
    <3>1. /\ cur \in PRs /\ pc \in {"ready", "restore"}
          /\ UNCHANGED <<rewound, snap, byRun, merged, queue, cur, scanned>>
          /\ pc' \in {"poll", "next"}
          /\ pc' = "poll" => pc = "ready"
      BY <2>6 DEF MarkReady, RestoreDraft, CandidateKnown, Active
    <3>2. /\ gh' \in [PRs -> View]
          /\ \A p \in PRs : gh'[p].head = gh[p].head /\ gh'[p].state = gh[p].state
      BY <2>6, <3>1, SetDraftStep DEF MarkReady, RestoreDraft, TypeOK
    <3>3. \A p \in PRs : gh[p].head \in Nat
      BY HeadsAreNat
    <3>4. \A p \in PRs : gh[p].head <= gh'[p].head /\ gh'[p].head \in Nat
      BY <3>2, <3>3
    <3>5. pc' = "poll" => Scanned'
      BY <3>1, <3>2 DEF MergeInv, Scanned
    <3> QED
      BY <3>1, <3>2, <3>4, <3>5, QuietStep DEF Active
  <2>7. CASE Verify
    <3>1. cur \in PRs /\ byRun[cur] = snap[cur].head
      BY <2>7 DEF Verify, MergeInv, MergedExactly, CandidateKnown, Active
    <3> QED
      BY <2>7, <3>1 DEF Verify, MergeInv, HeadsGrow, AllVetted, Vetted, Isolated, Overlap,
         Observed, AtSnapshotHead, Scanned, MergedExactly, ScannedHead, ReportedAreMerged, MergedByRun, Active
  <2>8. CASE Others
    <3>1. /\ UNCHANGED <<pc, snap, queue, cur, pr, merged, byRun, scanned>>
          /\ gh' \in [PRs -> View]
          /\ rewound => rewound'
          /\ \A p \in PRs : /\ ~rewound' => gh[p].head <= gh'[p].head
                            /\ gh[p].state # "open" => gh'[p] = gh[p]
      BY <2>8, OthersStep
    <3>2. \A p \in PRs : gh[p].head \in Nat /\ gh'[p].head \in Nat
      BY <3>1, HeadsAreNat, ViewUpdates
    <3>3. AtSnapshotHead'
      BY <3>1 DEF MergeInv, AtSnapshotHead
    <3>4. pc \in Active => cur \in PRs
      BY DEF CandidateKnown
    <3>5. Scanned'
      <4> SUFFICES ASSUME pc \in {"ready", "poll", "headcheck", "put", "verify"}
                   PROVE  /\ scanned \in Heads /\ scanned \in SafeHeads[cur]
                          /\ ~rewound' => snap[cur].head <= scanned /\ scanned <= gh'[cur].head
        BY <3>1 DEF Scanned
      <4>1. /\ cur \in PRs /\ scanned \in Heads /\ scanned \in SafeHeads[cur]
            /\ ~rewound => snap[cur].head <= scanned /\ scanned <= gh[cur].head
        BY <3>4 DEF MergeInv, Scanned, Active
      <4> QED
        BY <3>1, <3>2, <4>1, BoundsAssumption DEF Heads
    <3> QED
      BY <3>1, <3>2, <3>3, <3>5, QuietStep DEF Active
  <2>9. CASE UNCHANGED vars
    BY <2>9 DEF vars, MergeInv, HeadsGrow, AllVetted, Vetted, Isolated, Overlap, Observed,
       AtSnapshotHead, Scanned, MergedExactly, ScannedHead, ReportedAreMerged, MergedByRun, Active
  <2> QED
    BY <2>1, <2>2, <2>3, <2>4, <2>5, <2>6, <2>7, <2>8, <2>9 DEF Next, Merger
<1> QED
  BY <1>1, <1>2, Typing, PTL DEF Spec

-----------------------------------------------------------------------------

\* The exact-head guard: a pull request the run merges is merged at the head the
\* snapshot classified.
THEOREM MergesAreExactHead == Spec => []ExactHead
<1>1. MergeInv => ExactHead
  BY DEF MergeInv, AllVetted, Vetted, MergedExactly, ExactHead
<1> QED
  BY <1>1, MergeInvariant, PTL

\* Unless a forced push returns to an earlier head, the head the run merges is
\* one that passed the patch checks.
THEOREM MergesAreScanned == Spec => []ScannedHead
<1>1. MergeInv => ScannedHead
  BY DEF MergeInv, MergedExactly
<1> QED
  BY <1>1, MergeInvariant, PTL

\* Two pull requests merged by one run touch no common file.
THEOREM MergesAreIsolated == Spec => []IsolatedMerges
<1>1. MergeInv => IsolatedMerges
  BY DEF MergeInv, AllVetted, Vetted, Isolated, Overlap, Observed, MergedExactly, MergedByRun,
         IsolatedMerges
<1> QED
  BY <1>1, MergeInvariant, PTL

\* Every merge the run reports happened, at the classified head.
THEOREM ReportsAreTrue == Spec => []ReportedAreMerged
<1>1. MergeInv => ReportedAreMerged
  BY DEF MergeInv
<1> QED
  BY <1>1, MergeInvariant, PTL

-----------------------------------------------------------------------------
(***************************************************************************)
(* Promotion.  A pull request the run took out of draft, and of which no   *)
(* request was lost, is a draft again, no longer open, or the candidate at *)
(* hand, at a position from which every skip goes through restoreDraft.    *)
(***************************************************************************)

InHand(p) ==
    /\ p = cur /\ promoted
    /\ pc \in {"poll", "headcheck", "put", "restore", "verify"}

PromotedInv ==
    /\ \A p \in readied \ faulty : gh[p].state = "open" => gh[p].draft \/ InHand(p)
    /\ pc = "verify" => gh[cur].state = "merged"

\* The steps that leave GitHub, the promotions and the lost requests alone and
\* do not let a promoted candidate go.
LEMMA HeldStep ==
    ASSUME PromotedInv, UNCHANGED <<gh, readied>>, faulty \subseteq faulty',
           \A p \in readied \ faulty' : InHand(p) => InHand(p)',
           pc' = "verify" => pc = "verify" /\ cur' = cur
    PROVE  PromotedInv'
BY DEF PromotedInv

\* PromotedInv is an invariant.
THEOREM PromotedInvariant == Spec => []PromotedInv
<1>1. Init => PromotedInv
  BY DEF Init, PromotedInv
<1>2. TypeOK /\ CandidateKnown /\ PromotedInv /\ [Next]_vars => PromotedInv'
  <2> SUFFICES ASSUME TypeOK, CandidateKnown, PromotedInv, [Next]_vars
               PROVE  PromotedInv'
    OBVIOUS
  <2> USE DEF history, ghVars, envVars, Fault, LeaveCandidate, SkipPromoted
  <2>1. ASSUME NEW p \in PRs, ObservePR(p) \/ TakeCandidate(p)
        PROVE  PromotedInv'
    BY <2>1, HeldStep DEF ObservePR, TakeCandidate, InHand
  <2>2. CASE Classify \/ Finish \/ LoadFresh \/ ScanPatch
    BY <2>2, HeldStep DEF Classify, Finish, LoadFresh, ScanPatch, InHand
  <2>3. CASE Poll \/ HeadAfterPromotion \/ NoMergeMethod \/ PutRefused
    BY <2>3, HeldStep DEF Poll, HeadAfterPromotion, NoMergeMethod, PutRefused, InHand
  <2>4. CASE PutLost \/ Exception
    <3>1. /\ UNCHANGED <<gh, readied, cur, promoted>>
          /\ faulty' = faulty \cup {cur}
          /\ pc' = "verify" => pc = "verify"
      BY <2>4 DEF PutLost, Exception
    <3>2. \A p \in readied \ faulty' : ~InHand(p)
      BY <3>1 DEF InHand
    <3> QED
      BY <3>1, <3>2, HeldStep
  <2>5. CASE MarkReady
    <3>1. /\ cur \in PRs /\ pc = "ready" /\ SetDraft(FALSE) /\ UNCHANGED cur
          /\ readied' \subseteq readied \cup {cur}
          /\ \/ promoted' = TRUE /\ pc' = "poll" /\ UNCHANGED faulty
             \/ faulty' = faulty \cup {cur} /\ pc' = "next"
      BY <2>5 DEF MarkReady, CandidateKnown, Active
    <3>2. \A p \in PRs : p # cur => gh'[p] = gh[p]
      BY <3>1, SetDraftStep
    <3>3. ASSUME NEW p \in readied' \ faulty', gh'[p].state = "open"
          PROVE  gh'[p].draft \/ InHand(p)'
      <4>1. CASE p = cur
        BY <3>1, <3>3, <4>1 DEF InHand
      <4>2. CASE p # cur
        BY <3>1, <3>2, <3>3, <4>2 DEF PromotedInv, InHand, TypeOK
      <4> QED
        BY <4>1, <4>2
    <3> QED
      BY <3>1, <3>3 DEF PromotedInv
  <2>6. CASE RestoreDraft
    <3>1. /\ cur \in PRs /\ pc = "restore" /\ pc' = "next" /\ UNCHANGED <<cur, readied>>
          /\ \/ SetDraft(TRUE) /\ UNCHANGED faulty
             \/ faulty' = faulty \cup {cur} /\ UNCHANGED gh
      BY <2>6 DEF RestoreDraft, CandidateKnown, Active
    <3>2. \A p \in PRs : p # cur => gh'[p] = gh[p]
      BY <3>1, SetDraftStep
    <3>3. ASSUME NEW p \in readied' \ faulty', gh'[p].state = "open"
          PROVE  gh'[p].draft
      <4>1. CASE p = cur
        BY <3>1, <3>3, <4>1, SetDraftStep
      <4>2. CASE p # cur
        BY <3>1, <3>2, <3>3, <4>2 DEF PromotedInv, InHand, TypeOK
      <4> QED
        BY <4>1, <4>2
    <3> QED
      BY <3>1, <3>3 DEF PromotedInv
  <2>7. CASE PutMerge
    <3>1. /\ cur \in PRs /\ pc = "put" /\ UNCHANGED <<cur, readied, promoted>>
          /\ faulty \subseteq faulty'
      BY <2>7 DEF PutMerge, CandidateKnown, Active
    <3>2. gh'[cur].state = "merged" /\ \A p \in PRs \ {cur} : gh'[p] = gh[p]
      BY <2>7, <3>1, PutMergeStep
    <3>3. ASSUME NEW p \in readied' \ faulty', gh'[p].state = "open"
          PROVE  gh'[p].draft \/ InHand(p)'
      BY <3>1, <3>2, <3>3 DEF PromotedInv, InHand, TypeOK
    <3> QED
      BY <3>1, <3>2, <3>3 DEF PromotedInv
  <2>8. CASE Verify
    <3>1. /\ UNCHANGED <<gh, readied, faulty, cur>> /\ pc = "verify" /\ pc' = "next"
      BY <2>8 DEF Verify
    <3> QED
      BY <3>1 DEF PromotedInv, InHand
  <2>9. CASE Others
    <3>1. /\ UNCHANGED <<pc, cur, promoted, readied, faulty>>
          /\ \A p \in PRs : /\ gh[p].state # "open" => gh'[p] = gh[p]
                            /\ gh'[p].draft = gh[p].draft
      BY <2>9, OthersStep
    <3>2. pc = "verify" => cur \in PRs
      BY DEF CandidateKnown, Active
    <3> QED
      BY <3>1, <3>2 DEF PromotedInv, InHand, TypeOK
  <2>10. CASE UNCHANGED vars
    BY <2>10 DEF vars, PromotedInv, InHand
  <2> QED
    BY <2>1, <2>2, <2>3, <2>4, <2>5, <2>6, <2>7, <2>8, <2>9, <2>10 DEF Next, Merger
<1> QED
  BY <1>1, <1>2, Typing, PTL DEF Spec

\* When the run is over, no pull request it took out of draft is still open and
\* ready, except after a lost request of its own.
THEOREM NoneIsLeftPromoted == Spec => []NoneLeftPromoted
<1>1. PromotedInv => NoneLeftPromoted
  BY DEF PromotedInv, InHand, NoneLeftPromoted
<1> QED
  BY <1>1, PromotedInvariant, PTL
=============================================================================
