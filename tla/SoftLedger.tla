----------------------------- MODULE SoftLedger -----------------------------
(***************************************************************************)
(* What a reader of a test report may rely on, whatever soft blocks, tasks *)
(* and exceptions did in between: a failed assertion is known about from   *)
(* the moment it failed, it is told by an exception exactly once, and it   *)
(* is never forgotten on the way.  SoftAssertions implements this.         *)
(***************************************************************************)
CONSTANT Failure

VARIABLES
  happened,  \* the assertions that have failed
  pending,   \* those collected and not told yet
  told       \* those an exception has carried out of a block or an assertion

ledger == <<happened, pending, told>>

Init == happened = {} /\ pending = {} /\ told = {}

\* A failure is collected: nobody has been told, and somebody still has to be.
Collect(f) ==
  /\ f \notin happened
  /\ happened' = happened \cup {f}
  /\ pending' = pending \cup {f}
  /\ UNCHANGED told

\* A failure is raised where it happened.
Raise(f) ==
  /\ f \notin happened
  /\ happened' = happened \cup {f}
  /\ told' = told \cup {f}
  /\ UNCHANGED pending

\* Some collected failures go out together, in one aggregate or on one note.
Report(S) ==
  /\ pending' = pending \ S
  /\ told' = told \cup S
  /\ UNCHANGED happened

Next ==
  \/ \E f \in Failure : Collect(f) \/ Raise(f)
  \/ \E S \in (SUBSET pending) \ {{}} : Report(S)

Spec == Init /\ [][Next]_ledger

=============================================================================
