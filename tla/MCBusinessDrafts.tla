--------------------------- MODULE MCBusinessDrafts ---------------------------
(* A small instance of BusinessDrafts for TLC: an admin and an agent, one  *)
(* lead that may exist already, and every kind of command about it.        *)
EXTENDS BusinessDrafts

CONSTANTS admin, agent, acme

MCRole == [u \in Users |-> IF u = admin THEN "admin" ELSE "agent"]

MCCommands ==
  {[action |-> "create_lead", lead |-> acme, owner |-> None],
   [action |-> "update_lead", lead |-> acme, owner |-> agent, stage |-> "qualified"],
   [action |-> "update_lead", lead |-> acme, owner |-> admin, stage |-> None],
   [action |-> "create_follow_up_task", lead |-> acme, assignee |-> None]}

MCSymmetry ==
  Permutations(Drafts) \union Permutations(Keys) \union Permutations(Threads)
=============================================================================
