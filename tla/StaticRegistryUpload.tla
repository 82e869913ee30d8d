------------------------ MODULE StaticRegistryUpload ------------------------
(***************************************************************************)
(* sync_to_r2.sh: publication of a built v0 tree to an R2 bucket.          *)
(*                                                                         *)
(* Each uploader is one operator or CI job that runs the script, possibly  *)
(* several times.  Every S3 call is one step, so uploads, crashes and      *)
(* readers interleave between any two puts.  The bucket is an environment  *)
(* the script reaches only through head-object and put-object.             *)
(***************************************************************************)
EXTENDS StaticRegistryTree

CONSTANTS
    Uploaders,     \* processes that run sync_to_r2.sh
    Acks,          \* values ZPKG_ALLOW_V0_REPLACE may have: a subset of BOOLEAN
    HeadMayFail,   \* may head-object fail for a reason other than a 404?
    MaxRuns        \* bound: times the script is started

ASSUME AcksAssumption == Acks \subseteq BOOLEAN

ASSUME HeadMayFailAssumption == HeadMayFail \in BOOLEAN

ASSUME MaxRunsAssumption == MaxRuns \in Nat

VARIABLES
    bucket,      \* a store: the objects below the checkpoint
    checkpoint,  \* the checkpoint object: a tree's listing, or Absent
    pc,          \* where each uploader is
    tree,        \* the local tree each uploader publishes
    ack,         \* its ZPKG_ALLOW_V0_REPLACE
    todo,        \* the objects of its UPLOAD_LIST not yet put
    runs         \* number of script starts, bounded by MaxRuns

uploadVars == <<bucket, checkpoint, pc, tree, ack, todo, runs>>

Ended == {"done", "refused", "failed"}

UploadInit ==
    /\ bucket = [o \in Objects |-> Absent]
    /\ checkpoint = Absent
    /\ pc = [u \in Uploaders |-> "idle"]
    /\ tree = [u \in Uploaders |-> Absent]
    /\ ack = [u \in Uploaders |-> FALSE]
    /\ todo = [u \in Uploaders |-> {}]
    /\ runs = 0

(***************************************************************************)
(* The script is invoked on a built tree.  A tree that fails the local     *)
(* conformance check is refused before any network call.                   *)
(***************************************************************************)
Start(u, t, a) ==
    /\ pc[u] \in {"idle"} \cup Ended
    /\ runs < MaxRuns
    /\ runs' = runs + 1
    /\ tree' = [tree EXCEPT ![u] = t]
    /\ ack' = [ack EXCEPT ![u] = a]
    /\ todo' = [todo EXCEPT ![u] = {}]
    /\ pc' = [pc EXCEPT ![u] = IF LocallyConforms(t) THEN "head" ELSE "refused"]
    /\ UNCHANGED <<bucket, checkpoint>>

\* The `if aws s3api head-object ... >/dev/null 2>&1` condition: exit status
\* zero only for a visible object; every failure takes the same branch as 404.
HeadSucceeds == checkpoint # Absent

\* Mutant: the prefix filter of the listing lets only the indexes through.
ProceedWithIndexes(u) ==
    /\ pc' = [pc EXCEPT ![u] = "put"]
    /\ todo' = [todo EXCEPT ![u] = ListedIndexes(tree[u])]
    /\ UNCHANGED <<bucket, checkpoint, tree, ack, runs>>

Proceed(u) ==
    /\ pc' = [pc EXCEPT ![u] = "put"]
    /\ todo' = [todo EXCEPT ![u] = Listed(tree[u])]
    /\ UNCHANGED <<bucket, checkpoint, tree, ack, runs>>

\* Mutant: no head-object check.
HeadUnchecked(u) == pc[u] = "head" /\ Proceed(u)

HeadCheckpoint(u) ==
    /\ pc[u] = "head"
    /\ HeadSucceeds => ack[u]
    /\ Proceed(u)

\* Mutant: the refusal is printed and the script goes on.
RefusalIgnored(u) ==
    /\ pc[u] = "head"
    /\ HeadSucceeds /\ ~ack[u]
    /\ Proceed(u)

HeadRefuses(u) ==
    /\ pc[u] = "head"
    /\ HeadSucceeds /\ ~ack[u]
    /\ pc' = [pc EXCEPT ![u] = "refused"]
    /\ UNCHANGED <<bucket, checkpoint, tree, ack, todo, runs>>

\* Throttling, a network error or denied credentials: the same as no object.
HeadFails(u) ==
    /\ pc[u] = "head"
    /\ HeadMayFail
    /\ Proceed(u)

\* Mutant: objects that are in the bucket already are skipped.
PutIfAbsent(u, o) ==
    /\ pc[u] = "put"
    /\ IsFirst(o, todo[u])
    /\ bucket' = [bucket EXCEPT ![o] = IF @ = Absent THEN tree[u][o] ELSE @]
    /\ todo' = [todo EXCEPT ![u] = @ \ {o}]
    /\ UNCHANGED <<checkpoint, pc, tree, ack, runs>>

\* upload_object of the next path of the sorted list.
PutObject(u, o) ==
    /\ pc[u] = "put"
    /\ IsFirst(o, todo[u])
    /\ bucket' = [bucket EXCEPT ![o] = tree[u][o]]
    /\ todo' = [todo EXCEPT ![u] = @ \ {o}]
    /\ UNCHANGED <<checkpoint, pc, tree, ack, runs>>

\* Mutant: the checkpoint may be put before the objects it lists.
PutCheckpointEarly(u) ==
    /\ pc[u] = "put"
    /\ checkpoint' = tree[u]
    /\ pc' = [pc EXCEPT ![u] = "done"]
    /\ UNCHANGED <<bucket, tree, ack, todo, runs>>

PutCheckpoint(u) ==
    /\ pc[u] = "put"
    /\ todo[u] = {}
    /\ checkpoint' = tree[u]
    /\ pc' = [pc EXCEPT ![u] = "done"]
    /\ UNCHANGED <<bucket, tree, ack, todo, runs>>

\* A put fails (set -e ends the script) or the job is killed between two puts.
\* A put that was applied but reported as failed is PutObject, then this step.
Fail(u) ==
    /\ pc[u] \in {"head", "put"}
    /\ pc' = [pc EXCEPT ![u] = "failed"]
    /\ UNCHANGED <<bucket, checkpoint, tree, ack, todo, runs>>

Upload(u) ==
    \/ HeadCheckpoint(u)
    \/ HeadRefuses(u)
    \/ HeadFails(u)
    \/ \E o \in Objects : PutObject(u, o)
    \/ PutCheckpoint(u)

UploadNext ==
    \E u \in Uploaders :
        \/ \E t \in Trees, a \in Acks : Start(u, t, a)
        \/ Upload(u)
        \/ Fail(u)

UploadSpec == UploadInit /\ [][UploadNext]_uploadVars

-----------------------------------------------------------------------------

\* Every variable of the uploaders and the bucket has its type.
UploadTypeOK ==
    /\ IsStore(bucket)
    /\ checkpoint \in Trees \cup {Absent}
    /\ pc \in [Uploaders -> {"idle", "head", "put"} \cup Ended]
    /\ tree \in [Uploaders -> Trees \cup {Absent}]
    /\ ack \in [Uploaders -> BOOLEAN]
    /\ todo \in [Uploaders -> SUBSET Objects]
    /\ runs \in 0..MaxRuns
    /\ \A u \in Uploaders : pc[u] \in {"head", "put"} => tree[u] \in Trees

\* The checkpoint is the only publication pointer and is always last
\* (sync_to_r2.sh:127): whenever a checkpoint is visible, every object it
\* lists is in the bucket with the listed digest, whatever crashes and reruns
\* with other trees preceded it.
CheckpointComplete ==
    checkpoint # Absent =>
        \A o \in Objects : checkpoint[o] # Absent => bucket[o] = checkpoint[o]

\* Replacing an existing v0 checkpoint fails closed unless the operator
\* acknowledges the risk (sync_to_r2.sh:7-8): a visible checkpoint is only
\* overwritten by an uploader that runs with ZPKG_ALLOW_V0_REPLACE=true.
ReplaceAcknowledged ==
    [][ \A u \in Uploaders :
          (PutCheckpoint(u) /\ checkpoint # Absent) => ack[u] ]_uploadVars

\* With replacement acknowledged the collection is not atomic while a script
\* runs, but a script that completed leaves a bucket its checkpoint describes:
\* between runs, unless the last one failed part-way, the listing is exact.
SettledComplete ==
    (\A u \in Uploaders : pc[u] \in {"idle", "done"}) => CheckpointComplete
=============================================================================
