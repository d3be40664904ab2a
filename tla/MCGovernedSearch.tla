--------------------------- MODULE MCGovernedSearch ---------------------------
(* Small instances of GovernedSearch for TLC. *)
EXTENDS GovernedSearch, TLC

CONSTANTS policy, revised, fileA, fileB, s1, employee, admin

MCFileOf == [s \in Sources |-> IF s = revised THEN fileB ELSE fileA]
MCEffectiveOf == [s \in Sources |-> 0]
MCExpiryOf == [s \in Sources |-> IF s = policy THEN 0 ELSE LastDay + 1]
MCRoleOf == [s \in Searches |-> employee]
MCAudienceOf == [s \in Sources |-> IF s = policy THEN {} ELSE {employee}]

MCSymmetry == Permutations(Docs) \union Permutations(Tasks)
=============================================================================
