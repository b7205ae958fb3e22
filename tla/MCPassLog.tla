----------------------------- MODULE MCPassLog -----------------------------
(***************************************************************************)
(* Instances of PassLog for TLC: one task nesting polls and blocks, and two*)
(* tasks that may start one another.                                       *)
(***************************************************************************)
EXTENDS PassLog, TLC

Symmetric == Permutations(Task)

=============================================================================
