---------------------------- MODULE MCAssistantTurn ----------------------------
(* A small instance of AssistantTurn for TLC: two turns of one user, whose *)
(* session they share, and who may prepare changes in the CRM.  There is   *)
(* no symmetry, for TurnsEnd is a liveness property.                       *)
EXTENDS AssistantTurn
=============================================================================
