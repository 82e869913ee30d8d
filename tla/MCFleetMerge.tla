---------------------------- MODULE MCFleetMerge ----------------------------
(***************************************************************************)
(* Instances of FleetMerge for TLC.  The first two pull requests touch     *)
(* different files until the second one is pushed to; the third overlaps   *)
(* the first.  The head a push gives the first one fails the patch checks. *)
(***************************************************************************)
EXTENDS FleetMerge

CONSTANTS p1, p2, p3

MCFilesAt == [p \in PRs |-> [h \in Heads |->
                CASE p = p1 -> {"a"}
                  [] p = p2 -> IF h = 0 THEN {"b"} ELSE {"a", "b"}
                  [] OTHER -> {"a", "c"}]]

MCSafeHeads == [p \in PRs |-> IF p = p1 THEN {0} ELSE Heads]
=============================================================================
