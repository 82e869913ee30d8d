--------------------------- MODULE StaticRegistry ---------------------------
(***************************************************************************)
(* The static registry as its readers see it: uploaders that publish trees *)
(* to the bucket (StaticRegistryUpload) composed with consumers that run   *)
(* check_static_registry.py --base http://... against it.  Each HTTP fetch *)
(* of run_checks is one step, so a reader interleaves with the puts.       *)
(***************************************************************************)
EXTENDS StaticRegistryUpload

CONSTANTS Readers, NoTree

VARIABLES
    rpc,      \* section of run_checks each reader is in
    listing,  \* the checkpoint it validated
    pending,  \* the paths it has still to fetch in this section
    lines,    \* in section 3: the index lines whose artifact is still to fetch
    parsed,   \* parsed_indexes: the index contents section 3 fetched
    failed    \* FAILURES is non-empty

readVars == <<rpc, listing, pending, lines, parsed, failed>>

vars == <<uploadVars, readVars>>

Verdicts == {"pass", "fail"}

NothingParsed == [o \in Objects |-> Absent]

ReadInit ==
    /\ rpc = [r \in Readers |-> "discovery"]
    /\ listing = [r \in Readers |-> Absent]
    /\ pending = [r \in Readers |-> {}]
    /\ lines = [r \in Readers |-> <<>>]
    /\ parsed = [r \in Readers |-> NothingParsed]
    /\ failed = [r \in Readers |-> FALSE]

Init == UploadInit /\ ReadInit

\* [1]: an unavailable discovery document ends the run.
ReadDiscovery(r) ==
    /\ rpc[r] = "discovery"
    /\ rpc' = [rpc EXCEPT ![r] = IF bucket[Discovery] = Absent THEN "fail" ELSE "checkpoint"]
    /\ UNCHANGED <<listing, pending, lines, parsed, failed>>

\* [2]: no checkpoint ends the run; otherwise its entries are fetched in order.
ReadCheckpoint(r) ==
    /\ rpc[r] = "checkpoint"
    /\ IF checkpoint = Absent
         THEN /\ rpc' = [rpc EXCEPT ![r] = "fail"]
              /\ UNCHANGED <<listing, pending>>
         ELSE /\ rpc' = [rpc EXCEPT ![r] = "objects"]
              /\ listing' = [listing EXCEPT ![r] = checkpoint]
              /\ pending' = [pending EXCEPT ![r] = Listed(checkpoint)]
    /\ UNCHANGED <<lines, parsed, failed>>

ReadObject(r, o) ==
    /\ rpc[r] = "objects"
    /\ IsFirst(o, pending[r])
    /\ pending' = [pending EXCEPT ![r] = @ \ {o}]
    /\ failed' = [failed EXCEPT ![r] = @ \/ bucket[o] # listing[r][o]]
    /\ UNCHANGED <<rpc, listing, lines, parsed>>

\* [3] begins: the index paths are the checkpoint's.
BeginIndexes(r) ==
    /\ rpc[r] = "objects" /\ pending[r] = {}
    /\ rpc' = [rpc EXCEPT ![r] = "indexes"]
    /\ pending' = [pending EXCEPT ![r] = ListedIndexes(listing[r])]
    /\ failed' = [failed EXCEPT ![r] = @ \/ ListedIndexes(listing[r]) = {}]
    /\ UNCHANGED <<listing, lines, parsed>>

\* The index is fetched a second time and parsed; its hash is not rechecked.
ReadIndex(r, o) ==
    /\ rpc[r] = "indexes" /\ lines[r] = <<>>
    /\ IsFirst(o, pending[r])
    /\ pending' = [pending EXCEPT ![r] = @ \ {o}]
    /\ IF bucket[o] = Absent
         THEN /\ failed' = [failed EXCEPT ![r] = TRUE]
              /\ UNCHANGED <<lines, parsed>>
         ELSE /\ failed' = [failed EXCEPT ![r] = @ \/ ~AscendingUnique(bucket[o])]
              /\ lines' = [lines EXCEPT ![r] =
                    [i \in DOMAIN bucket[o] |->
                        [path |-> ArtifactPath(o[2], bucket[o][i].version),
                         cksum |-> bucket[o][i].cksum]]]
              /\ parsed' = [parsed EXCEPT ![r][o] = bucket[o]]
    /\ UNCHANGED <<rpc, listing>>

ReadArtifact(r) ==
    /\ rpc[r] = "indexes" /\ lines[r] # <<>>
    /\ LET line == Head(lines[r])
       IN  failed' = [failed EXCEPT ![r] = @ \/ bucket[line.path] # line.cksum]
    /\ lines' = [lines EXCEPT ![r] = Tail(@)]
    /\ UNCHANGED <<rpc, listing, pending, parsed>>

AllYanked(r) ==
    UNION {YankedArtifacts(o, parsed[r][o]) : o \in {q \in Objects : parsed[r][q] # Absent}}

\* [4] begins: a run that meets no yanked version fails as vacuous.
BeginYanks(r) ==
    /\ rpc[r] = "indexes" /\ pending[r] = {} /\ lines[r] = <<>>
    /\ rpc' = [rpc EXCEPT ![r] = "yanks"]
    /\ pending' = [pending EXCEPT ![r] = AllYanked(r)]
    /\ failed' = [failed EXCEPT ![r] = @ \/ AllYanked(r) = {}]
    /\ UNCHANGED <<listing, lines, parsed>>

ReadYanked(r, o) ==
    /\ rpc[r] = "yanks"
    /\ IsFirst(o, pending[r])
    /\ pending' = [pending EXCEPT ![r] = @ \ {o}]
    /\ failed' = [failed EXCEPT ![r] = @ \/ bucket[o] = Absent]
    /\ UNCHANGED <<rpc, listing, lines, parsed>>

\* [5]: the probed package is never published, so the probe is a miss.
Verdict(r) ==
    /\ rpc[r] = "yanks" /\ pending[r] = {}
    /\ rpc' = [rpc EXCEPT ![r] = IF failed[r] THEN "fail" ELSE "pass"]
    /\ UNCHANGED <<listing, pending, lines, parsed, failed>>

Read(r) ==
    \/ ReadDiscovery(r)
    \/ ReadCheckpoint(r)
    \/ \E o \in Objects : ReadObject(r, o) \/ ReadIndex(r, o) \/ ReadYanked(r, o)
    \/ BeginIndexes(r)
    \/ ReadArtifact(r)
    \/ BeginYanks(r)
    \/ Verdict(r)

UploadStep == UploadNext /\ UNCHANGED readVars

ReadStep == (\E r \in Readers : Read(r)) /\ UNCHANGED uploadVars

Next == UploadStep \/ ReadStep

\* A reader and a running upload are sequential processes that take their next
\* step unless they are killed; nothing forces an operator to start a script.
Fairness ==
    /\ \A r \in Readers : WF_vars(Read(r) /\ UNCHANGED uploadVars)
    /\ \A u \in Uploaders : WF_vars(Upload(u) /\ UNCHANGED readVars)

Spec == Init /\ [][Next]_vars

FairSpec == Spec /\ Fairness

-----------------------------------------------------------------------------

\* Every variable of the readers has its type.
TypeOK ==
    /\ UploadTypeOK
    /\ rpc \in [Readers -> {"discovery", "checkpoint", "objects", "indexes", "yanks"} \cup Verdicts]
    /\ listing \in [Readers -> Trees \cup {Absent}]
    /\ pending \in [Readers -> SUBSET Objects]
    /\ \A r \in Readers : IsStore(parsed[r])
    /\ failed \in [Readers -> BOOLEAN]

\* The indexes of the checkpoint a reader validated.
Resolved(r) ==
    [o \in Objects |-> IF o \in ListedIndexes(listing[r]) THEN listing[r][o] ELSE Absent]

\* A reader that passes resolves packages from exactly the collection its
\* checkpoint lists.  run_checks fetches each index twice and hashes only the
\* first copy (check_static_registry.py:259, 285), so this needs every index to
\* be stable from the checkpoint on.
PassIsSnapshot == \A r \in Readers : rpc[r] = "pass" => parsed[r] = Resolved(r)

\* A published registry is usable: a consumer that has yet to fetch the
\* discovery document when a checkpoint is visible ends its run with a pass.
PublishedIsReadable ==
    \A r \in Readers :
        (checkpoint # Absent /\ rpc[r] = "discovery") ~> (rpc[r] = "pass")

-----------------------------------------------------------------------------
(***************************************************************************)
(* What the static registry promises its consumers: an atomic, write-once  *)
(* collection.  The tree is published by the checkpoint put; a reader has  *)
(* observed the tree whose indexes it resolved from, or, when they are of  *)
(* no single tree, nothing the abstract registry allows.                   *)
(***************************************************************************)
Observed ==
    [r \in Readers |->
        IF rpc[r] # "pass" THEN NoTree
        ELSE IF parsed[r] = Resolved(r) THEN listing[r] ELSE "torn"]

Atomic == INSTANCE AtomicRegistry WITH
            published <- IF checkpoint = Absent THEN NoTree ELSE checkpoint,
            observed <- Observed,
            Collections <- Trees

ImplementsAtomic == Atomic!Spec
=============================================================================
