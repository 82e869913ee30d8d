--------------------------- MODULE MCTakeoverLock ---------------------------
(* Every scenario against every client. *)
EXTENDS TakeoverLock

MCScenarios == AllScenarios
MCClients == AllClients
=============================================================================
