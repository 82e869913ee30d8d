------------------------ MODULE StaticRegistryProofs ------------------------
(***************************************************************************)
(* A sole uploader that never acknowledges a replacement, and any number   *)
(* of readers between its puts: what a reader that passes has resolved is  *)
(* one published collection, and the bucket with its readers implements    *)
(* AtomicRegistry, for all fixtures, crashes and reruns.                   *)
(***************************************************************************)
EXTENDS StaticRegistry, TLAPS

-----------------------------------------------------------------------------
(* sync_to_r2.sh alone, for every set of fixtures, trees and runs.         *)

\* A built tree holds at every path something a bucket can store there.
LEMMA TreeContents ==
    ASSUME NEW t \in Trees, NEW o \in Objects
    PROVE  t[o] \in ContentsOf(o)
BY DEF ContentsOf

\* Overwriting one object of a store by a tree's object gives a store.
LEMMA PutKeepsStore ==
    ASSUME NEW b, IsStore(b), NEW t \in Trees, NEW o \in Objects
    PROVE  /\ IsStore([b EXCEPT ![o] = t[o]])
           /\ [b EXCEPT ![o] = t[o]][o] = t[o]
           /\ \A q \in Objects \ {o} : [b EXCEPT ![o] = t[o]][q] = b[q]
<1> DEFINE c == [b EXCEPT ![o] = t[o]]
<1>1. c = [q \in Objects |-> IF q = o THEN t[o] ELSE b[q]]
  BY DEF IsStore
<1>2. \A q \in Objects : c[q] = IF q = o THEN t[o] ELSE b[q]
  BY <1>1
<1>3. c = [q \in Objects |-> c[q]]
  BY <1>1
<1>4. t[o] \in ContentsOf(o)
  BY TreeContents
<1> QED
  BY <1>2, <1>3, <1>4 DEF IsStore

\* The objects of a tree are paths.
LEMMA ListedObjects == \A t : Listed(t) \subseteq Objects
BY DEF Listed

-----------------------------------------------------------------------------

\* Type correctness of the uploaders and the bucket: every step of every
\* uploader, including failing ones, keeps the types.
THEOREM UploadTyping == UploadSpec => []UploadTypeOK
<1> USE DEF Ended
<1>1. UploadInit => UploadTypeOK
  BY MaxRunsAssumption DEF UploadInit, UploadTypeOK, IsStore, ContentsOf
<1>2. UploadTypeOK /\ [UploadNext]_uploadVars => UploadTypeOK'
  <2> SUFFICES ASSUME UploadTypeOK, [UploadNext]_uploadVars
               PROVE  UploadTypeOK'
    OBVIOUS
  <2>1. ASSUME NEW u \in Uploaders, NEW t \in Trees, NEW a \in Acks, Start(u, t, a)
        PROVE  UploadTypeOK'
    BY <2>1, AcksAssumption, MaxRunsAssumption DEF Start, UploadTypeOK, IsStore
  <2>2. ASSUME NEW u \in Uploaders, HeadCheckpoint(u) \/ HeadFails(u)
        PROVE  UploadTypeOK'
    BY <2>2, ListedObjects DEF HeadCheckpoint, HeadFails, Proceed, UploadTypeOK, IsStore
  <2>3. ASSUME NEW u \in Uploaders, HeadRefuses(u) \/ Fail(u)
        PROVE  UploadTypeOK'
    BY <2>3 DEF HeadRefuses, Fail, UploadTypeOK, IsStore
  <2>4. ASSUME NEW u \in Uploaders, NEW o \in Objects, PutObject(u, o)
        PROVE  UploadTypeOK'
    <3>1. IsStore(bucket')
      BY <2>4, PutKeepsStore DEF PutObject, UploadTypeOK
    <3> QED
      BY <2>4, <3>1 DEF PutObject, UploadTypeOK
  <2>5. ASSUME NEW u \in Uploaders, PutCheckpoint(u)
        PROVE  UploadTypeOK'
    BY <2>5 DEF PutCheckpoint, UploadTypeOK, IsStore
  <2>6. CASE UNCHANGED uploadVars
    BY <2>6 DEF uploadVars, UploadTypeOK, IsStore
  <2> QED
    BY <2>1, <2>2, <2>3, <2>4, <2>5, <2>6 DEF UploadNext, Upload
<1> QED
  BY <1>1, <1>2, PTL DEF UploadSpec

-----------------------------------------------------------------------------
(***************************************************************************)
(* One job publishes to the bucket at a time: the setting in which the     *)
(* script's own guard is enough.  Two concurrent first publications both   *)
(* pass the head-object guard, so nothing below holds without it.          *)
(***************************************************************************)
SoleUploader == \A u, w \in Uploaders : u = w

\* What the put loop has reached: the objects already taken off the list hold
\* the tree's bytes.
PutProgress ==
    \A u \in Uploaders : pc[u] = "put" =>
        \A o \in Objects : tree[u][o] # Absent /\ o \notin todo[u] => bucket[o] = tree[u][o]

\* An uploader that got past the guard replaces nothing or was told to.
Guarded ==
    \A u \in Uploaders : pc[u] = "put" => checkpoint = Absent \/ ack[u]

AckIsInput == \A u \in Uploaders : ack[u] \in Acks \cup {FALSE}

\* Each put takes the object's bytes from the local tree, and nobody else
\* writes, so the loop's progress is an invariant of a sole uploader.
LEMMA PutProgressStep ==
    ASSUME SoleUploader, UploadTypeOK, PutProgress, [UploadNext]_uploadVars
    PROVE  PutProgress'
<1>1. ASSUME NEW u \in Uploaders, NEW t \in Trees, NEW a \in Acks, Start(u, t, a)
      PROVE  PutProgress'
  BY <1>1, SoleUploader DEF SoleUploader, Start, UploadTypeOK, PutProgress
<1>2. ASSUME NEW u \in Uploaders, HeadCheckpoint(u) \/ HeadFails(u)
      PROVE  PutProgress'
  <2>1. pc'[u] = "put" /\ todo'[u] = Listed(tree[u]) /\ tree' = tree /\ bucket' = bucket
    BY <1>2 DEF HeadCheckpoint, HeadFails, Proceed, UploadTypeOK
  <2>2. \A o \in Objects : tree[u][o] # Absent => o \in todo'[u]
    BY <2>1 DEF Listed
  <2> QED
    BY <2>1, <2>2, SoleUploader DEF SoleUploader, PutProgress
<1>3. ASSUME NEW u \in Uploaders, HeadRefuses(u) \/ Fail(u)
      PROVE  PutProgress'
  BY <1>3, SoleUploader DEF SoleUploader, HeadRefuses, Fail, UploadTypeOK, PutProgress
<1>4. ASSUME NEW u \in Uploaders, NEW o \in Objects, PutObject(u, o)
      PROVE  PutProgress'
  <2>1. tree[u] \in Trees /\ IsStore(bucket)
    BY <1>4 DEF PutObject, UploadTypeOK
  <2>2. /\ bucket'[o] = tree[u][o]
        /\ \A q \in Objects \ {o} : bucket'[q] = bucket[q]
    BY <1>4, <2>1, PutKeepsStore DEF PutObject
  <2>3. tree' = tree /\ pc' = pc /\ todo'[u] = todo[u] \ {o}
    BY <1>4 DEF PutObject, UploadTypeOK
  <2> QED
    BY <1>4, <2>2, <2>3, SoleUploader DEF SoleUploader, PutProgress, PutObject
<1>5. ASSUME NEW u \in Uploaders, PutCheckpoint(u)
      PROVE  PutProgress'
  BY <1>5, SoleUploader DEF SoleUploader, PutCheckpoint, UploadTypeOK, PutProgress
<1>6. CASE UNCHANGED uploadVars
  BY <1>6 DEF uploadVars, PutProgress
<1> QED
  BY <1>1, <1>2, <1>3, <1>4, <1>5, <1>6 DEF UploadNext, Upload

\* When the guard cannot mistake an error for an absent object, a sole uploader
\* never gets past it unacknowledged while a checkpoint is visible.
LEMMA GuardedStep ==
    ASSUME SoleUploader, ~HeadMayFail, UploadTypeOK, Guarded, [UploadNext]_uploadVars
    PROVE  Guarded'
<1> USE DEF Guarded, UploadTypeOK
<1>1. ASSUME NEW u \in Uploaders, NEW t \in Trees, NEW a \in Acks, Start(u, t, a)
      PROVE  Guarded'
  BY <1>1, SoleUploader DEF SoleUploader, Start
<1>2. ASSUME NEW u \in Uploaders, HeadCheckpoint(u)
      PROVE  Guarded'
  BY <1>2, SoleUploader DEF SoleUploader, HeadCheckpoint, Proceed, HeadSucceeds
<1>3. ASSUME NEW u \in Uploaders, HeadRefuses(u) \/ Fail(u)
      PROVE  Guarded'
  BY <1>3, SoleUploader DEF SoleUploader, HeadRefuses, Fail
<1>4. ASSUME NEW u \in Uploaders, NEW o \in Objects, PutObject(u, o)
      PROVE  Guarded'
  BY <1>4 DEF PutObject
<1>5. ASSUME NEW u \in Uploaders, PutCheckpoint(u)
      PROVE  Guarded'
  BY <1>5, SoleUploader DEF SoleUploader, PutCheckpoint
<1>6. CASE UNCHANGED uploadVars
  BY <1>6 DEF uploadVars
<1>7. ~ \E u \in Uploaders : HeadFails(u)
  BY DEF HeadFails
<1> QED
  BY <1>1, <1>2, <1>3, <1>4, <1>5, <1>6, <1>7 DEF UploadNext, Upload

\* A checkpoint put follows the whole loop, so the listing it makes visible is
\* exact at that moment.
LEMMA PutCheckpointComplete ==
    ASSUME NEW u \in Uploaders, UploadTypeOK, PutProgress, PutCheckpoint(u)
    PROVE  CheckpointComplete'
BY DEF PutCheckpoint, PutProgress, CheckpointComplete

-----------------------------------------------------------------------------

\* A sole uploader overwrites a visible checkpoint only with
\* ZPKG_ALLOW_V0_REPLACE=true (sync_to_r2.sh:48-62), provided that head-object
\* fails only when there is no checkpoint.
THEOREM ReplacementIsAcknowledged ==
    ASSUME SoleUploader, ~HeadMayFail
    PROVE  UploadSpec => ReplaceAcknowledged
<1>1. UploadInit => Guarded
  BY DEF UploadInit, Guarded
<1>2. UploadTypeOK /\ Guarded /\ [UploadNext]_uploadVars => Guarded'
  BY GuardedStep, SoleUploader
<1>3. UploadTypeOK /\ Guarded
        => [\A u \in Uploaders : (PutCheckpoint(u) /\ checkpoint # Absent) => ack[u]]_uploadVars
  BY DEF Guarded, PutCheckpoint
<1> QED
  BY <1>1, <1>2, <1>3, UploadTyping, PTL DEF UploadSpec, ReplaceAcknowledged

\* The checkpoint never describes objects the bucket does not hold
\* (sync_to_r2.sh:121-128), when no run is allowed to replace a checkpoint:
\* the first completed run freezes the collection.
THEOREM CheckpointIsComplete ==
    ASSUME SoleUploader, ~HeadMayFail, Acks = {FALSE}
    PROVE  UploadSpec => []CheckpointComplete
<1> DEFINE Inv == PutProgress /\ Guarded /\ AckIsInput /\ CheckpointComplete
<1>1. UploadInit => Inv
  BY DEF UploadInit, PutProgress, Guarded, AckIsInput, CheckpointComplete
<1>2. UploadTypeOK /\ Inv /\ [UploadNext]_uploadVars => Inv'
  <2> SUFFICES ASSUME UploadTypeOK, Inv, [UploadNext]_uploadVars
               PROVE  Inv'
    OBVIOUS
  <2>1. PutProgress' /\ Guarded'
    BY PutProgressStep, GuardedStep, SoleUploader
  <2>2. AckIsInput'
    BY DEF AckIsInput, UploadNext, Upload, uploadVars, UploadTypeOK, Start, HeadCheckpoint,
           HeadFails, Proceed, HeadRefuses, PutObject, PutCheckpoint, Fail
  <2>3. CheckpointComplete'
    <3>1. CASE \E u \in Uploaders : PutCheckpoint(u)
      BY <3>1, PutCheckpointComplete
    <3>2. CASE \E u \in Uploaders : \E o \in Objects : PutObject(u, o)
      <4>1. checkpoint = Absent
        BY <3>2 DEF PutObject, Guarded, AckIsInput
      <4> QED
        BY <3>2, <4>1 DEF PutObject, CheckpointComplete
    <3>3. CASE UNCHANGED <<bucket, checkpoint>>
      BY <3>3 DEF CheckpointComplete
    <3> QED
      BY <3>1, <3>2, <3>3 DEF UploadNext, Upload, uploadVars, Start, HeadCheckpoint,
         HeadFails, Proceed, HeadRefuses, Fail
  <2> QED
    BY <2>1, <2>2, <2>3
<1> QED
  BY <1>1, <1>2, UploadTyping, PTL DEF UploadSpec

\* Whatever the operator acknowledged and whatever head-object answered, a run
\* that completed leaves a bucket its checkpoint describes.
THEOREM SettledIsComplete ==
    ASSUME SoleUploader
    PROVE  UploadSpec => []SettledComplete
<1> DEFINE Inv == PutProgress /\ SettledComplete
<1>1. UploadInit => Inv
  BY DEF UploadInit, PutProgress, SettledComplete, CheckpointComplete
<1>2. UploadTypeOK /\ Inv /\ [UploadNext]_uploadVars => Inv'
  <2> SUFFICES ASSUME UploadTypeOK, Inv, [UploadNext]_uploadVars
               PROVE  SettledComplete'
    BY PutProgressStep, SoleUploader
  <2>1. CASE \E u \in Uploaders : PutCheckpoint(u)
    BY <2>1, PutCheckpointComplete DEF SettledComplete
  <2>2. ASSUME NEW u \in Uploaders, pc'[u] \notin {"idle", "done"}
        PROVE  SettledComplete'
    BY <2>2 DEF SettledComplete
  <2>3. CASE UNCHANGED uploadVars
    BY <2>3 DEF uploadVars, SettledComplete, CheckpointComplete
  <2>4. ASSUME NEW u \in Uploaders,
               \/ \E t \in Trees, a \in Acks : Start(u, t, a)
               \/ Fail(u) \/ HeadCheckpoint(u) \/ HeadRefuses(u) \/ HeadFails(u)
               \/ \E o \in Objects : PutObject(u, o)
        PROVE  pc'[u] \notin {"idle", "done"}
    BY <2>4 DEF UploadTypeOK, Start, Fail, HeadCheckpoint, HeadRefuses, HeadFails, Proceed, PutObject
  <2> QED
    BY <2>1, <2>2, <2>3, <2>4 DEF UploadNext, Upload
<1> QED
  BY <1>1, <1>2, UploadTyping, PTL DEF UploadSpec

-----------------------------------------------------------------------------
(* The uploader and its readers.                                           *)

\* The readers do not get in the uploaders' way.
LEMMA ReadersOnlyRead == Spec => UploadSpec
<1>1. Init => UploadInit
  BY DEF Init
<1>2. [Next]_vars => [UploadNext]_uploadVars
  BY DEF Next, UploadStep, ReadStep, vars
<1> QED
  BY <1>1, <1>2, PTL DEF Spec, UploadSpec

\* Nobody passes the guard once a checkpoint is visible.
Closed == Guarded /\ AckIsInput

LEMMA StaysClosed ==
    ASSUME SoleUploader, ~HeadMayFail
    PROVE  UploadSpec => []Closed
<1>1. UploadInit => Closed
  BY DEF UploadInit, Closed, Guarded, AckIsInput
<1>2. UploadTypeOK /\ Closed /\ [UploadNext]_uploadVars => Closed'
  <2> SUFFICES ASSUME UploadTypeOK, Closed, [UploadNext]_uploadVars
               PROVE  Closed'
    OBVIOUS
  <2>1. Guarded'
    BY GuardedStep, SoleUploader DEF Closed
  <2>2. AckIsInput'
    BY DEF Closed, AckIsInput, UploadNext, Upload, uploadVars, UploadTypeOK, Start,
           HeadCheckpoint, HeadFails, Proceed, HeadRefuses, PutObject, PutCheckpoint, Fail
  <2> QED
    BY <2>1, <2>2 DEF Closed
<1> QED
  BY <1>1, <1>2, UploadTyping, PTL DEF UploadSpec

\* ... so that from then on the bucket stays as it is.
LEMMA PublishedStays ==
    ASSUME Acks = {FALSE}, UploadTypeOK, Closed, checkpoint # Absent, [UploadNext]_uploadVars
    PROVE  UNCHANGED <<bucket, checkpoint>>
<1>1. \A u \in Uploaders : pc[u] # "put"
  BY DEF Closed, Guarded, AckIsInput
<1> QED
  BY <1>1 DEF UploadNext, Upload, uploadVars, Start, HeadCheckpoint, HeadFails, Proceed,
              HeadRefuses, PutObject, PutCheckpoint, Fail

-----------------------------------------------------------------------------
(* A reader's run.                                                         *)

PerReader ==
    /\ rpc = [r \in Readers |-> rpc[r]] /\ listing = [r \in Readers |-> listing[r]]
    /\ pending = [r \in Readers |-> pending[r]] /\ parsed = [r \in Readers |-> parsed[r]]

\* What section 3 has parsed when the indexes in S are still to fetch.
ParsedBut(r, S) ==
    [o \in Objects |-> IF o \in ListedIndexes(listing[r]) \ S THEN listing[r][o] ELSE Absent]

Snapshot(r) ==
    /\ rpc[r] \in {"discovery", "checkpoint", "objects"} => parsed[r] = NothingParsed
    /\ rpc[r] \in {"objects", "indexes", "yanks", "pass"}
          => checkpoint # Absent /\ listing[r] = checkpoint
    /\ rpc[r] = "indexes" => /\ pending[r] \subseteq ListedIndexes(listing[r])
                             /\ parsed[r] = ParsedBut(r, pending[r])
    /\ rpc[r] \in {"yanks", "pass"} => parsed[r] = Resolved(r)

ReadInv == PerReader /\ \A r \in Readers : Snapshot(r)

\* A reader touches its own variables only.
LEMMA ReadsAreOwn ==
    ASSUME PerReader, NEW r \in Readers, Read(r)
    PROVE  /\ PerReader'
           /\ \A q \in Readers \ {r} : /\ rpc'[q] = rpc[q] /\ listing'[q] = listing[q]
                                       /\ pending'[q] = pending[q] /\ parsed'[q] = parsed[q]
<1> USE DEF PerReader
<1>1. CASE ReadDiscovery(r)
  BY <1>1 DEF ReadDiscovery
<1>2. CASE ReadCheckpoint(r)
  BY <1>2 DEF ReadCheckpoint
<1>3. CASE \E o \in Objects : ReadObject(r, o) \/ ReadYanked(r, o)
  BY <1>3 DEF ReadObject, ReadYanked
<1>4. CASE \E o \in Objects : ReadIndex(r, o)
  BY <1>4 DEF ReadIndex
<1>5. CASE BeginIndexes(r) \/ ReadArtifact(r)
  BY <1>5 DEF BeginIndexes, ReadArtifact
<1>6. CASE BeginYanks(r) \/ Verdict(r)
  BY <1>6 DEF BeginYanks, Verdict
<1> QED
  BY <1>1, <1>2, <1>3, <1>4, <1>5, <1>6 DEF Read

\* The index of the second fetch is the one the checkpoint lists.
LEMMA IndexStep ==
    ASSUME CheckpointComplete, PerReader, NEW r \in Readers, Snapshot(r), NEW o \in Objects,
           ReadIndex(r, o), UNCHANGED checkpoint
    PROVE  Snapshot(r)'
<1>1. /\ rpc[r] = "indexes" /\ rpc' = rpc /\ listing' = listing
      /\ o \in pending[r] /\ pending'[r] = pending[r] \ {o}
  BY DEF ReadIndex, IsFirst, PerReader
<1>2. /\ checkpoint # Absent /\ listing[r] = checkpoint /\ parsed[r] = ParsedBut(r, pending[r])
      /\ o \in ListedIndexes(listing[r]) /\ pending'[r] \subseteq ListedIndexes(listing[r])
  BY <1>1 DEF Snapshot
<1>3. bucket[o] = listing[r][o] /\ bucket[o] # Absent
  BY <1>2 DEF CheckpointComplete, ListedIndexes, Listed
<1>4. parsed'[r] = [parsed[r] EXCEPT ![o] = bucket[o]]
  BY <1>3 DEF ReadIndex, PerReader
<1>5. parsed'[r] = [q \in Objects |->
                     IF q \in ListedIndexes(listing[r]) \ pending'[r]
                       THEN listing[r][q] ELSE Absent]
  BY <1>1, <1>2, <1>3, <1>4 DEF ParsedBut
<1> QED
  BY <1>1, <1>2, <1>5 DEF Snapshot, ParsedBut

\* Section 3 ends with the indexes of the checkpoint.
LEMMA SectionThreeEnds ==
    ASSUME NEW r \in Readers, parsed[r] = ParsedBut(r, {})
    PROVE  parsed[r] = Resolved(r)
BY DEF ParsedBut, Resolved

LEMMA ReaderStep ==
    ASSUME CheckpointComplete, PerReader, NEW r \in Readers, Snapshot(r), Read(r),
           UNCHANGED <<bucket, checkpoint>>
    PROVE  Snapshot(r)'
<1> USE DEF PerReader
<1>1. CASE ReadDiscovery(r)
  BY <1>1 DEF ReadDiscovery, Snapshot
<1>2. CASE ReadCheckpoint(r)
  BY <1>2 DEF ReadCheckpoint, Snapshot
<1>3. CASE \E o \in Objects : ReadObject(r, o) \/ ReadYanked(r, o)
  BY <1>3 DEF ReadObject, ReadYanked, Snapshot, Resolved
<1>4. CASE \E o \in Objects : ReadIndex(r, o)
  BY <1>4, IndexStep
<1>5. CASE BeginIndexes(r)
  <2>1. /\ rpc[r] = "objects" /\ rpc'[r] = "indexes" /\ listing' = listing /\ parsed' = parsed
        /\ pending'[r] = ListedIndexes(listing[r])
    BY <1>5 DEF BeginIndexes
  <2>2. NothingParsed = ParsedBut(r, ListedIndexes(listing[r]))
    BY DEF NothingParsed, ParsedBut
  <2> QED
    BY <2>1, <2>2 DEF Snapshot, ParsedBut
<1>6. CASE ReadArtifact(r)
  BY <1>6 DEF ReadArtifact, Snapshot, ParsedBut
<1>7. CASE BeginYanks(r)
  <2>1. /\ rpc[r] = "indexes" /\ rpc'[r] = "yanks" /\ listing' = listing /\ parsed' = parsed
        /\ pending[r] = {}
    BY <1>7 DEF BeginYanks
  <2>2. parsed[r] = Resolved(r) /\ checkpoint # Absent /\ listing[r] = checkpoint
    BY <2>1, SectionThreeEnds DEF Snapshot
  <2> QED
    BY <2>1, <2>2 DEF Snapshot, Resolved
<1>8. CASE Verdict(r)
  BY <1>8 DEF Verdict, Snapshot, Resolved
<1> QED
  BY <1>1, <1>2, <1>3, <1>4, <1>5, <1>6, <1>7, <1>8 DEF Read

LEMMA ReadStepKeeps ==
    ASSUME Acks = {FALSE}, UploadTypeOK, Closed, CheckpointComplete, ReadInv, [Next]_vars
    PROVE  ReadInv'
<1>1. CASE UNCHANGED readVars /\ [UploadNext]_uploadVars
  <2>1. checkpoint # Absent => UNCHANGED <<bucket, checkpoint>>
    BY <1>1, PublishedStays
  <2> QED
    BY <1>1, <2>1 DEF readVars, ReadInv, PerReader, Snapshot, ParsedBut, Resolved
<1>2. ASSUME NEW r \in Readers, Read(r), UNCHANGED uploadVars
      PROVE  ReadInv'
  <2>1. UNCHANGED <<bucket, checkpoint>>
    BY <1>2 DEF uploadVars
  <2>2. Snapshot(r)' /\ PerReader'
    BY <1>2, <2>1, ReaderStep, ReadsAreOwn DEF ReadInv
  <2>3. ASSUME NEW q \in Readers \ {r} PROVE Snapshot(q)'
    <3>1. /\ rpc'[q] = rpc[q] /\ listing'[q] = listing[q]
          /\ pending'[q] = pending[q] /\ parsed'[q] = parsed[q]
      BY <1>2, ReadsAreOwn DEF ReadInv
    <3> QED
      BY <2>1, <3>1 DEF ReadInv, Snapshot, ParsedBut, Resolved
  <2> QED
    BY <2>2, <2>3 DEF ReadInv
<1> QED
  BY <1>1, <1>2 DEF Next, UploadStep, ReadStep, vars

LEMMA ReadersStart == Init => ReadInv
BY DEF Init, ReadInit, ReadInv, PerReader, Snapshot

LEMMA ReadsAreSnapshots ==
    ASSUME SoleUploader, ~HeadMayFail, Acks = {FALSE}
    PROVE  Spec => [](UploadTypeOK /\ Closed /\ CheckpointComplete /\ ReadInv)
<1>1. UploadTypeOK /\ Closed /\ CheckpointComplete /\ ReadInv /\ [Next]_vars => ReadInv'
  BY ReadStepKeeps
<1>2. UploadSpec => []Closed
  BY StaysClosed
<1>3. UploadSpec => []CheckpointComplete
  BY CheckpointIsComplete
<1> QED
  BY <1>1, <1>2, <1>3, ReadersStart, ReadersOnlyRead, UploadTyping, PTL DEF Spec

-----------------------------------------------------------------------------

\* A reader that passes has resolved from exactly the collection its checkpoint lists,
\* though it fetches each index twice and hashes only the first copy: once a checkpoint
\* is visible, a sole uploader that must not replace it puts nothing any more.
THEOREM PassesAreSnapshots ==
    ASSUME SoleUploader, ~HeadMayFail, Acks = {FALSE}
    PROVE  Spec => []PassIsSnapshot
<1>1. ReadInv => PassIsSnapshot
  BY DEF ReadInv, Snapshot, PassIsSnapshot
<1> QED
  BY <1>1, ReadsAreSnapshots, PTL

\* The bucket with its readers implements the write-once registry: the checkpoint put
\* publishes the collection, the verdict of a reader observes it, and every other step of
\* an uploader or a reader is invisible.
THEOREM ImplementsAtomicRegistry ==
    ASSUME SoleUploader, ~HeadMayFail, Acks = {FALSE}, NoTree \notin Trees
    PROVE  Spec => ImplementsAtomic
<1> DEFINE Inv == UploadTypeOK /\ Closed /\ CheckpointComplete /\ ReadInv
           pub == IF checkpoint = Absent THEN NoTree ELSE checkpoint
<1>1. Init => Atomic!Init
  BY DEF Init, UploadInit, ReadInit, Atomic!Init, Observed
<1>2. Inv /\ [Next]_vars => [Atomic!Next]_<<pub, Observed>>
  <2> SUFFICES ASSUME Inv, [Next]_vars
               PROVE  [Atomic!Next]_<<pub, Observed>>
    OBVIOUS
  <2>1. CASE UNCHANGED readVars /\ [UploadNext]_uploadVars
    <3>1. Observed' = Observed
      BY <2>1 DEF readVars, Observed, Resolved
    <3>2. pub' = pub \/ (checkpoint = Absent /\ \E u \in Uploaders : PutCheckpoint(u))
      <4>1. checkpoint # Absent => UNCHANGED checkpoint
        BY <2>1, PublishedStays
      <4> QED
        BY <2>1, <4>1 DEF UploadNext, Upload, uploadVars, Start, HeadCheckpoint, HeadFails,
                          Proceed, HeadRefuses, PutObject, Fail
    <3>3. ASSUME checkpoint = Absent, NEW u \in Uploaders, PutCheckpoint(u), pub' # pub
          PROVE  \E t \in Trees : Atomic!Publish(t)
      <4>1. checkpoint' = tree[u] /\ tree[u] \in Trees /\ pub = NoTree /\ pub' = tree[u]
        BY <3>3 DEF PutCheckpoint, UploadTypeOK
      <4> QED
        BY <3>1, <4>1 DEF Atomic!Publish
    <3> QED
      BY <3>1, <3>2, <3>3 DEF Atomic!Next
  <2>2. ASSUME NEW r \in Readers, Read(r), UNCHANGED uploadVars
        PROVE  [Atomic!Next]_<<pub, Observed>>
    <3>1. pub' = pub
      BY <2>2 DEF uploadVars
    <3>2. /\ ReadInv /\ ReadInv' /\ rpc[r] # "pass"
          /\ \A q \in Readers \ {r} : /\ rpc'[q] = rpc[q] /\ listing'[q] = listing[q]
                                      /\ parsed'[q] = parsed[q]
      <4>1. rpc[r] # "pass"
        BY <2>2 DEF Read, ReadDiscovery, ReadCheckpoint, ReadObject, BeginIndexes, ReadIndex,
                    ReadArtifact, BeginYanks, ReadYanked, Verdict
      <4> QED
        BY <2>2, <4>1, ReadStepKeeps, ReadsAreOwn DEF ReadInv
    <3>3. \A q \in Readers \ {r} : Observed'[q] = Observed[q]
      BY <3>2 DEF Observed, Resolved
    <3>4. Observed[r] = NoTree
      BY <3>2 DEF Observed
    <3>5. CASE rpc'[r] # "pass"
      <4>1. Observed' = Observed
        BY <3>3, <3>4, <3>5 DEF Observed
      <4> QED
        BY <3>1, <4>1
    <3>6. CASE rpc'[r] = "pass"
      <4>1. /\ parsed'[r] = Resolved(r)' /\ listing'[r] = checkpoint'
            /\ checkpoint' # Absent /\ checkpoint' = checkpoint
        BY <2>2, <3>2, <3>6 DEF ReadInv, Snapshot, uploadVars
      <4>2. pub = checkpoint /\ pub # NoTree
        BY <4>1 DEF UploadTypeOK
      <4>3. Observed'[r] = pub
        BY <3>6, <4>1, <4>2 DEF Observed
      <4>4. Observed' = [Observed EXCEPT ![r] = pub]
        BY <3>3, <4>3 DEF Observed
      <4>5. Atomic!Observe(r)
        BY <3>1, <3>4, <4>2, <4>4 DEF Atomic!Observe
      <4> QED
        BY <4>5 DEF Atomic!Next
    <3> QED
      BY <3>5, <3>6
  <2> QED
    BY <2>1, <2>2 DEF Next, UploadStep, ReadStep, vars
<1> QED
  BY <1>1, <1>2, ReadsAreSnapshots, PTL DEF Spec, ImplementsAtomic, Atomic!Spec
=============================================================================
