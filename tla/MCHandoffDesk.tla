---------------------------- MODULE MCHandoffDesk ----------------------------
(* Small instances of HandoffDesk for TLC. *)
EXTENDS HandoffDesk, TLC

MCSymmetry ==
  Permutations(Drafts) \union Permutations(Handoffs) \union Permutations(Keys)
    \union Permutations(Staff) \union Permutations(Threads)
=============================================================================
