------------------------- MODULE StaticRegistryBuild -------------------------
(***************************************************************************)
(* build_static_registry.py: how a built tree reaches the output directory *)
(* (main's early validation, then publish_tree).  Several builders may be  *)
(* run with the same --out; every file-system call is a step, may fail and *)
(* may be the last one before a crash.                                     *)
(*                                                                         *)
(* A directory is the function from the tree's files to the builder whose  *)
(* bytes they hold, or NoFile.                                             *)
(***************************************************************************)
EXTENDS Naturals, FiniteSets

CONSTANTS
    Builders,   \* processes running the exporter with the same --out
    Files,      \* relative paths of the tree
    NoFile, Missing, NoTree

ASSUME FilesAssumption == Files # {}

ASSUME SentinelsAssumption ==
    /\ NoFile \notin Builders
    /\ Missing \notin [Files -> Builders \cup {NoFile}]

VARIABLES
    out,        \* the output path: Missing or a directory
    staging,    \* the mkdtemp directory of each builder: Missing or a directory
    pc,
    existedEmpty,  \* publish_tree's existed_empty
    removedEmpty,  \* publish_tree's removed_empty_output
    madeByCaller,  \* history: the output directory existed at the start
    notUndone      \* history: the calls of the finally block that failed

vars == <<out, staging, pc, existedEmpty, removedEmpty, madeByCaller, notUndone>>

EmptyDir == [f \in Files |-> NoFile]

TreeOf(b) == [f \in Files |-> b]

Without(d, removed) == [f \in Files |-> IF f \in removed THEN NoFile ELSE d[f]]

Dirs == [Files -> Builders \cup {NoFile}]

Init ==
    /\ out \in {Missing, EmptyDir}
    /\ madeByCaller = (out = EmptyDir)
    /\ staging = [b \in Builders |-> Missing]
    /\ pc = [b \in Builders |-> "main"]
    /\ existedEmpty = [b \in Builders |-> FALSE]
    /\ removedEmpty = [b \in Builders |-> FALSE]
    /\ notUndone = [b \in Builders |-> {}]

Goto(b, label) == pc' = [pc EXCEPT ![b] = label]

OutIsValid == out \in {Missing, EmptyDir}

\* main checks the destination before the compression work and exits 2 on a
\* non-empty directory or any bad fixture, having touched nothing.
ValidateEarly(b) ==
    /\ pc[b] = "main"
    /\ \/ OutIsValid /\ Goto(b, "validate")
       \/ Goto(b, "error")
    /\ UNCHANGED <<out, staging, existedEmpty, removedEmpty, madeByCaller, notUndone>>

\* publish_tree validates again and remembers whether out was an empty directory.
Validate(b) ==
    /\ pc[b] = "validate"
    /\ IF OutIsValid
         THEN /\ existedEmpty' = [existedEmpty EXCEPT ![b] = (out = EmptyDir)]
              /\ Goto(b, "mkdtemp")
         ELSE /\ Goto(b, "error")
              /\ UNCHANGED existedEmpty
    /\ UNCHANGED <<out, staging, removedEmpty, madeByCaller, notUndone>>

MakeStaging(b) ==
    /\ pc[b] = "mkdtemp"
    /\ \/ /\ staging' = [staging EXCEPT ![b] = EmptyDir]
          /\ Goto(b, "write")
       \/ /\ Goto(b, "error")
          /\ UNCHANGED staging
    /\ UNCHANGED <<out, existedEmpty, removedEmpty, madeByCaller, notUndone>>

\* The order of the writes (sorted in the code) is immaterial: any order.
WriteFile(b, f) ==
    /\ pc[b] = "write"
    /\ staging[b][f] = NoFile
    /\ staging' = [staging EXCEPT ![b][f] = b]
    /\ UNCHANGED <<out, pc, existedEmpty, removedEmpty, madeByCaller, notUndone>>

\* out.rmdir() succeeds only on an existing empty directory.
RemoveEmptyOut(b) ==
    /\ pc[b] = "write"
    /\ staging[b] = TreeOf(b)
    /\ existedEmpty[b] /\ ~removedEmpty[b]
    /\ IF out = EmptyDir
         THEN /\ out' = Missing
              /\ removedEmpty' = [removedEmpty EXCEPT ![b] = TRUE]
              /\ UNCHANGED pc
         ELSE /\ Goto(b, "finally")
              /\ UNCHANGED <<out, removedEmpty>>
    /\ UNCHANGED <<staging, existedEmpty, madeByCaller, notUndone>>

\* Mutant: an output directory that is in the way is replaced.
ReplaceAnything(b) ==
    /\ pc[b] = "write"
    /\ staging[b] = TreeOf(b)
    /\ existedEmpty[b] => removedEmpty[b]
    /\ out' = staging[b]
    /\ staging' = [staging EXCEPT ![b] = Missing]
    /\ Goto(b, "done")
    /\ UNCHANGED <<existedEmpty, removedEmpty, madeByCaller, notUndone>>

\* Mutant: the staging directory is moved before it is complete.
ReplacePartial(b) ==
    /\ pc[b] = "write"
    /\ existedEmpty[b] => removedEmpty[b]
    /\ OutIsValid
    /\ out' = staging[b]
    /\ staging' = [staging EXCEPT ![b] = Missing]
    /\ Goto(b, "done")
    /\ UNCHANGED <<existedEmpty, removedEmpty, madeByCaller, notUndone>>

\* os.replace of a directory succeeds onto nothing or onto an empty directory.
Replace(b) ==
    /\ pc[b] = "write"
    /\ staging[b] = TreeOf(b)
    /\ existedEmpty[b] => removedEmpty[b]
    /\ IF OutIsValid
         THEN /\ out' = staging[b]
              /\ staging' = [staging EXCEPT ![b] = Missing]
              /\ Goto(b, "done")
         ELSE /\ Goto(b, "finally")
              /\ UNCHANGED <<out, staging>>
    /\ UNCHANGED <<existedEmpty, removedEmpty, madeByCaller, notUndone>>

\* Any call of the try block raises OSError: full disk, permissions, I/O.
PublishError(b) ==
    /\ pc[b] = "write"
    /\ Goto(b, "finally")
    /\ UNCHANGED <<out, staging, existedEmpty, removedEmpty, madeByCaller, notUndone>>

\* Mutant: the removed output directory is not made again.
RemoveStagingOnly(b) ==
    /\ pc[b] = "finally"
    /\ staging' = [staging EXCEPT ![b] = Missing]
    /\ Goto(b, "error")
    /\ UNCHANGED <<out, existedEmpty, removedEmpty, madeByCaller, notUndone>>

\* shutil.rmtree(staging, ignore_errors=True): what cannot be removed stays, and
\* nothing is reported.
RemoveStaging(b) ==
    /\ pc[b] = "finally"
    /\ \/ /\ staging' = [staging EXCEPT ![b] = Missing]
          /\ UNCHANGED notUndone
       \/ \E removed \in SUBSET Files :
             /\ staging' = [staging EXCEPT ![b] = Without(staging[b], removed)]
             /\ notUndone' = [notUndone EXCEPT ![b] = @ \cup {"rmtree"}]
    /\ Goto(b, IF removedEmpty[b] /\ out = Missing THEN "mkdir" ELSE "error")
    /\ UNCHANGED <<out, existedEmpty, removedEmpty, madeByCaller>>

\* `not out.exists()` was tested above.  mkdir fails if out has reappeared, or for
\* a reason of its own; that error is reported instead of the first one.
RecreateOut(b) ==
    /\ pc[b] = "mkdir"
    /\ \/ /\ out' = IF out = Missing THEN EmptyDir ELSE out
          /\ UNCHANGED notUndone
       \/ /\ out = Missing
          /\ notUndone' = [notUndone EXCEPT ![b] = @ \cup {"mkdir"}]
          /\ UNCHANGED out
    /\ Goto(b, "error")
    /\ UNCHANGED <<staging, existedEmpty, removedEmpty, madeByCaller>>

Crash(b) ==
    /\ pc[b] \notin {"done", "error", "crashed"}
    /\ Goto(b, "crashed")
    /\ UNCHANGED <<out, staging, existedEmpty, removedEmpty, madeByCaller, notUndone>>

Build(b) ==
    \/ ValidateEarly(b) \/ Validate(b) \/ MakeStaging(b)
    \/ \E f \in Files : WriteFile(b, f)
    \/ RemoveEmptyOut(b) \/ Replace(b) \/ PublishError(b)
    \/ RemoveStaging(b) \/ RecreateOut(b)

Next == \E b \in Builders : Build(b) \/ Crash(b)

Spec == Init /\ [][Next]_vars

-----------------------------------------------------------------------------

\* Every variable has its type.
TypeOK ==
    /\ out \in Dirs \cup {Missing}
    /\ staging \in [Builders -> Dirs \cup {Missing}]
    /\ pc \in [Builders -> {"main", "validate", "mkdtemp", "write", "finally",
                            "mkdir", "done", "error", "crashed"}]
    /\ existedEmpty \in [Builders -> BOOLEAN]
    /\ removedEmpty \in [Builders -> BOOLEAN]
    /\ madeByCaller \in BOOLEAN
    /\ notUndone \in [Builders -> SUBSET {"rmtree", "mkdir"}]
    /\ \A b \in Builders : pc[b] \in {"write", "finally"} => staging[b] \in Dirs

\* Exit status 0 means the caller's tree is at --out, whatever other builders,
\* failures and crashes happened (build_static_registry.py:261-270).
SuccessMeansPublished ==
    \A b \in Builders : pc[b] = "done" => out = TreeOf(b)

\* A builder that ends, well or in an error, leaves no staging directory behind
\* but one that rmtree could not remove; and once nobody is at work an output
\* directory that the caller had made is there again, unless the mkdir that was
\* to bring it back failed (the finally block, lines 87-91).
FailureRestores ==
    /\ \A b \in Builders :
          pc[b] \in {"done", "error"} /\ staging[b] # Missing => "rmtree" \in notUndone[b]
    /\ (\A b \in Builders : pc[b] \in {"done", "error"}) /\ madeByCaller /\ out = Missing =>
          \E b \in Builders : "mkdir" \in notUndone[b]

-----------------------------------------------------------------------------
(***************************************************************************)
(* The output directory is the write-once collection of AtomicRegistry: it *)
(* goes from nothing (or an empty directory) to one builder's whole tree   *)
(* and never changes again.                                                *)
(***************************************************************************)
Atomic == INSTANCE AtomicRegistry WITH
            Readers <- {},
            Collections <- {TreeOf(b) : b \in Builders},
            published <- IF out \in {Missing, EmptyDir} THEN NoTree ELSE out,
            observed <- [r \in {} |-> NoTree]

\* The exporter publishes the complete tree of one builder in one step.
ImplementsAtomic == Atomic!Spec
=============================================================================
