-------------------------- MODULE MCPortfolioMerge --------------------------
(* The instance of PortfolioMerge that TLC checks.                         *)
EXTENDS PortfolioMerge
CONSTANTS p1

\* The validator rejects the files that a push brings.
MCSound == {<<p1, 0>>}
=============================================================================
