---------------------- MODULE StaticRegistryBuildProofs ----------------------
(***************************************************************************)
(* Proofs about publish_tree for any number of builders and files.         *)
(***************************************************************************)
EXTENDS StaticRegistryBuild, TLAPS

\* A complete tree is neither the empty directory nor a missing path.
LEMMA TreesAreNotEmpty ==
    \A b \in Builders : TreeOf(b) # EmptyDir /\ TreeOf(b) # Missing /\ TreeOf(b) \in Dirs
<1> SUFFICES ASSUME NEW b \in Builders
             PROVE  TreeOf(b) # EmptyDir /\ TreeOf(b) # Missing /\ TreeOf(b) \in Dirs
  OBVIOUS
<1>1. TreeOf(b) \in Dirs
  BY DEF TreeOf, Dirs
<1>2. PICK f \in Files : TRUE
  BY FilesAssumption
<1>3. TreeOf(b)[f] = b /\ EmptyDir[f] = NoFile
  BY DEF TreeOf, EmptyDir
<1> QED
  BY <1>1, <1>3, SentinelsAssumption DEF Dirs

\* Type correctness of the exporter under failures and crashes.
THEOREM Typing == Spec => []TypeOK
<1>1. Init => TypeOK
  BY DEF Init, TypeOK, EmptyDir, Dirs
<1>2. TypeOK /\ [Next]_vars => TypeOK'
  <2> SUFFICES ASSUME TypeOK, [Next]_vars
               PROVE  TypeOK'
    OBVIOUS
  <2> USE DEF TypeOK, Goto
  <2>1. EmptyDir \in Dirs
    BY DEF EmptyDir, Dirs
  <2>2. ASSUME NEW b \in Builders,
               ValidateEarly(b) \/ Validate(b) \/ PublishError(b) \/ Crash(b)
        PROVE  TypeOK'
    BY <2>2 DEF ValidateEarly, Validate, PublishError, Crash
  <2>3. ASSUME NEW b \in Builders, MakeStaging(b)
        PROVE  TypeOK'
    BY <2>1, <2>3 DEF MakeStaging
  <2>4. ASSUME NEW b \in Builders, RemoveStaging(b)
        PROVE  TypeOK'
    <3>1. \A removed \in SUBSET Files : Without(staging[b], removed) \in Dirs
      BY <2>4 DEF RemoveStaging, Without, Dirs
    <3> QED
      BY <2>4, <3>1 DEF RemoveStaging
  <2>5. ASSUME NEW b \in Builders, NEW f \in Files, WriteFile(b, f)
        PROVE  TypeOK'
    <3>1. staging[b] \in Dirs
      BY <2>5 DEF WriteFile
    <3>2. [staging[b] EXCEPT ![f] = b] \in Dirs
      BY <3>1 DEF Dirs
    <3> QED
      BY <2>5, <3>2 DEF WriteFile
  <2>6. ASSUME NEW b \in Builders, RemoveEmptyOut(b)
        PROVE  TypeOK'
    BY <2>6 DEF RemoveEmptyOut
  <2>7. ASSUME NEW b \in Builders, RecreateOut(b)
        PROVE  TypeOK'
    <3>1. notUndone' \in [Builders -> SUBSET {"rmtree", "mkdir"}]
      BY <2>7 DEF RecreateOut
    <3>2. out' \in Dirs \cup {Missing} /\ staging' = staging
      BY <2>1, <2>7 DEF RecreateOut
    <3>3. pc' = [pc EXCEPT ![b] = "error"]
      BY <2>7 DEF RecreateOut
    <3> QED
      BY <2>7, <3>1, <3>2, <3>3 DEF RecreateOut
  <2>8. ASSUME NEW b \in Builders, Replace(b)
        PROVE  TypeOK'
    BY <2>8 DEF Replace
  <2>9. CASE UNCHANGED vars
    BY <2>9 DEF vars
  <2> QED
    BY <2>2, <2>3, <2>4, <2>5, <2>6, <2>7, <2>8, <2>9 DEF Next, Build
<1> QED
  BY <1>1, <1>2, PTL DEF Spec

\* The output path changes in three ways only; a non-empty directory never does.
LEMMA OutStep ==
    ASSUME TypeOK, [Next]_vars
    PROVE  \/ out' = out
           \/ out = EmptyDir /\ out' = Missing
           \/ out = Missing /\ out' = EmptyDir
           \/ OutIsValid /\ \E b \in Builders : out' = TreeOf(b) /\ pc' = [pc EXCEPT ![b] = "done"]
BY DEF Next, vars, Build, ValidateEarly, Validate, MakeStaging, WriteFile, RemoveEmptyOut,
       Replace, PublishError, RemoveStaging, RecreateOut, Crash, Goto, OutIsValid

\* A builder becomes "done" by replacing the output only.
LEMMA DoneStep ==
    ASSUME TypeOK, [Next]_vars, NEW b \in Builders, pc'[b] = "done"
    PROVE  \/ pc[b] = "done"
           \/ out' = TreeOf(b)
BY DEF Next, vars, Build, ValidateEarly, Validate, MakeStaging, WriteFile, RemoveEmptyOut,
       Replace, PublishError, RemoveStaging, RecreateOut, Crash, Goto, TypeOK

\* Exit status 0 means the caller's own complete tree is at --out and stays
\* there, for any number of racing builders, failures and crashes
\* (build_static_registry.py:67-91, 261-270).
THEOREM SuccessIsPublication == Spec => []SuccessMeansPublished
<1>1. Init => SuccessMeansPublished
  BY DEF Init, SuccessMeansPublished
<1>2. TypeOK /\ SuccessMeansPublished /\ [Next]_vars => SuccessMeansPublished'
  <2> SUFFICES ASSUME TypeOK, SuccessMeansPublished, [Next]_vars,
                      NEW b \in Builders, pc'[b] = "done"
               PROVE  out' = TreeOf(b)
    BY DEF SuccessMeansPublished
  <2>1. CASE pc[b] = "done"
    <3>1. out = TreeOf(b)
      BY <2>1 DEF SuccessMeansPublished
    <3>2. ~OutIsValid
      BY <3>1, TreesAreNotEmpty DEF OutIsValid
    <3> QED
      BY <3>1, <3>2, OutStep DEF OutIsValid
  <2>2. CASE pc[b] # "done"
    BY <2>2, DoneStep
  <2> QED
    BY <2>1, <2>2
<1> QED
  BY <1>1, <1>2, Typing, PTL DEF Spec

\* What the exporters have yet to clean up: a staging directory exists only between its
\* mkdtemp and its removal, or was left by rmtree, and a directory of the caller that is
\* gone was removed by an exporter that is still at work, was killed, or could not make
\* it again.
Pending ==
    /\ \A b \in Builders :
          /\ pc[b] \in {"main", "validate", "mkdtemp", "done"} => staging[b] = Missing
          /\ pc[b] \in {"mkdir", "error"} /\ staging[b] # Missing => "rmtree" \in notUndone[b]
    /\ madeByCaller /\ out = Missing =>
          \E b \in Builders :
             \/ removedEmpty[b] /\ pc[b] \in {"write", "finally", "mkdir", "crashed"}
             \/ "mkdir" \in notUndone[b]

LEMMA PendingStep == TypeOK /\ Pending /\ [Next]_vars => Pending'
<1> SUFFICES ASSUME TypeOK, Pending, [Next]_vars PROVE Pending'
  OBVIOUS
<1>0. \A b \in Builders : TreeOf(b) # Missing /\ EmptyDir # Missing
  BY SentinelsAssumption DEF TreeOf, EmptyDir
<1> USE DEF Goto, TypeOK, Pending
<1>1. CASE UNCHANGED vars
  BY <1>1 DEF vars
<1>2. ASSUME NEW b \in Builders, ValidateEarly(b) \/ Validate(b) \/ PublishError(b) \/ Crash(b)
      PROVE  Pending'
  BY <1>2 DEF ValidateEarly, Validate, PublishError, Crash
<1>3. ASSUME NEW b \in Builders, MakeStaging(b) PROVE Pending'
  BY <1>3 DEF MakeStaging
<1>4. ASSUME NEW b \in Builders, NEW f \in Files, WriteFile(b, f) PROVE Pending'
  BY <1>4 DEF WriteFile
<1>5. ASSUME NEW b \in Builders, RemoveEmptyOut(b) PROVE Pending'
  BY <1>5 DEF RemoveEmptyOut
<1>6. ASSUME NEW b \in Builders, Replace(b) PROVE Pending'
  BY <1>0, <1>6 DEF Replace
<1>7. ASSUME NEW b \in Builders, RemoveStaging(b) PROVE Pending'
  BY <1>7 DEF RemoveStaging
<1>8. ASSUME NEW b \in Builders, RecreateOut(b) PROVE Pending'
  BY <1>0, <1>8 DEF RecreateOut
<1> QED
  BY <1>1, <1>2, <1>3, <1>4, <1>5, <1>6, <1>7, <1>8 DEF Next, Build

\* Exporters that end leave no staging directory behind, and the caller's output
\* directory exists, whichever of their calls failed and however they overlap: only a
\* call of the cleanup itself that fails can leave it undone.
THEOREM FailureCleansUp == Spec => []FailureRestores
<1>1. Init => Pending
  <2> SUFFICES ASSUME Init PROVE Pending
    OBVIOUS
  <2>1. EmptyDir # Missing
    BY SentinelsAssumption DEF EmptyDir
  <2>2. madeByCaller => out # Missing
    BY <2>1 DEF Init
  <2>3. \A b \in Builders :
           staging[b] = Missing /\ pc[b] = "main" /\ removedEmpty[b] = FALSE
    BY DEF Init
  <2> QED
    BY <2>2, <2>3 DEF Pending
<1>2. Pending => FailureRestores
  BY DEF Pending, FailureRestores
<1> QED
  BY <1>1, <1>2, PendingStep, Typing, PTL DEF Spec

\* publish_tree implements the write-once, all-or-nothing collection: every
\* step publishes one builder's whole tree onto nothing or changes nothing.
THEOREM ImplementsAtomicRegistry == Spec => ImplementsAtomic
<1> DEFINE pub == IF out \in {Missing, EmptyDir} THEN NoTree ELSE out
           obs == [r \in {} |-> NoTree]
<1>1. Init => Atomic!Init
  BY DEF Init, Atomic!Init
<1>2. TypeOK /\ [Next]_vars => [Atomic!Next]_<<pub, obs>>
  <2> SUFFICES ASSUME TypeOK, [Next]_vars
               PROVE  [Atomic!Next]_<<pub, obs>>
    OBVIOUS
  <2>1. CASE OutIsValid /\ \E b \in Builders : out' = TreeOf(b)
    <3>1. PICK b \in Builders : out' = TreeOf(b)
      BY <2>1
    <3>2. pub = NoTree /\ pub' = TreeOf(b)
      BY <2>1, <3>1, TreesAreNotEmpty DEF OutIsValid
    <3>3. Atomic!Publish(TreeOf(b))
      BY <3>2 DEF Atomic!Publish
    <3> QED
      BY <3>3 DEF Atomic!Next
  <2>2. CASE pub' = pub
    BY <2>2
  <2> QED
    BY <2>1, <2>2, OutStep
<1> QED
  BY <1>1, <1>2, Typing, PTL DEF Spec, ImplementsAtomic, Atomic!Spec
=============================================================================
