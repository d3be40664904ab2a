------------------------- MODULE MCDocumentLifecycle -------------------------
(* Small instances of DocumentLifecycle for TLC. *)
EXTENDS DocumentLifecycle, TLC

CONSTANTS policy, revised, later, fileA, fileB

(* `later` carries the file of `policy` with another validity period, the  *)
(* case for which originals are shared and rows must still be told apart.  *)
MCFileOf == [s \in Sources |-> IF s = revised THEN fileB ELSE fileA]
MCEffectiveOf == [s \in Sources |-> IF s = later THEN 1 ELSE 0]
MCExpiryOf == [s \in Sources |-> IF s = revised THEN 0 ELSE LastDay + 1]

FullSymmetry == Permutations(Docs) \union Permutations(Chunks) \union Permutations(Tasks)
=============================================================================
