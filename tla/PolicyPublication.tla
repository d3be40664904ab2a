-------------------------- MODULE PolicyPublication --------------------------
(***************************************************************************)
(* What document governance promises the employees of a tenant, without    *)
(* rows, indexes, generations or failures: for every policy family one     *)
(* source at most is in force, and it changes only when a source that      *)
(* waits for review is approved.  DocumentLifecycle implements this        *)
(* specification: uploads propose, reviews approve or withdraw, a deletion *)
(* may withdraw, and reindexing, failures and crashes are invisible.       *)
(***************************************************************************)
CONSTANTS Families, Sources, None

VARIABLES
  proposed,  \* the pairs <<family, source>> waiting for a review
  served     \* the source in force for each family, or None

pubVars == <<proposed, served>>

Init ==
  /\ proposed = {}
  /\ served = [f \in Families |-> None]

(* A source that waits already, or is in force, is not proposed again. *)
Propose(f, s) ==
  /\ <<f, s>> \notin proposed
  /\ served[f] # s
  /\ proposed' = proposed \union {<<f, s>>}
  /\ UNCHANGED served

Withdraw(f, s) ==
  /\ <<f, s>> \in proposed
  /\ proposed' = proposed \ {<<f, s>>}
  /\ UNCHANGED served

Approve(f, s) ==
  /\ <<f, s>> \in proposed
  /\ proposed' = proposed \ {<<f, s>>}
  /\ served' = [served EXCEPT ![f] = s]

Next ==
  \E f \in Families, s \in Sources :
    Propose(f, s) \/ Withdraw(f, s) \/ Approve(f, s)

Spec == Init /\ [][Next]_pubVars
=============================================================================
