--------------------------- MODULE AtomicRegistry ---------------------------
(***************************************************************************)
(* The abstract promise of a static export: a collection is published once *)
(* and for all in one step, and a consumer that succeeds has observed the  *)
(* published collection.  No consumer sees a part of it or two of them.    *)
(***************************************************************************)
CONSTANTS Readers, Collections, NoTree

VARIABLES published, observed

Init ==
    /\ published = NoTree
    /\ observed = [r \in Readers |-> NoTree]

Publish(t) ==
    /\ published = NoTree
    /\ published' = t
    /\ UNCHANGED observed

Observe(r) ==
    /\ published # NoTree
    /\ observed[r] = NoTree
    /\ observed' = [observed EXCEPT ![r] = published]
    /\ UNCHANGED published

Next == \/ \E t \in Collections : Publish(t)
        \/ \E r \in Readers : Observe(r)

Spec == Init /\ [][Next]_<<published, observed>>
=============================================================================
