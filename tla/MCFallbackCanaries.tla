------------------------ MODULE MCFallbackCanaries ------------------------
(* Instances of FallbackCanaries for TLC.                                   *)
EXTENDS FallbackCanaries, TLC

Symmetry == Permutations(Publishers)
=============================================================================
