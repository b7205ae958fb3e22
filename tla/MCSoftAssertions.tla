-------------------------- MODULE MCSoftAssertions --------------------------
(***************************************************************************)
(* Instances of SoftAssertions for TLC: a main task, a coroutine and an OS *)
(* thread that may start one another, two or three blocks.                 *)
(***************************************************************************)
EXTENDS SoftAssertions, TLC

\* Sound for the invariants only: the liveness run does not use it.
Symmetric == Permutations(Block) \cup Permutations(Failure)

=============================================================================
