------------------------------ MODULE MCAccounts ------------------------------
(* A small instance of Accounts for TLC: one of the slugs is a word of the *)
(* paths as well, one is that of the seeded tenant, and one of the         *)
(* addresses has two spellings.                                            *)
EXTENDS Accounts, TLC

MCSlugs == {"acme", "admin", "demo"}
MCEmails == {"ann", "ANN", "bob"}
MCLower == ("ann" :> "ann") @@ ("ANN" :> "ann") @@ ("bob" :> "bob")
MCSymmetry == Permutations(Requests)
=============================================================================
