------------------------------ MODULE MCPolling ------------------------------
(***************************************************************************)
(* An instance of Polling and of PollChain for TLC, each on its own: a     *)
(* behaviour is one poll, with a window of three samples, three values and *)
(* exceptions of two classes, or the chains of a test that are run or not. *)
(***************************************************************************)
EXTENDS Polling, PollChain

CONSTANTS plain, other

Classes == [e \in Exc |-> IF e = other THEN "Other" ELSE "Plain"]

VARIABLE about

allVars == <<vars, chainVars, about>>

\* A behaviour about chains has no poll.
MCInit ==
  /\ about \in {"poll", "chains"}
  /\ Init /\ ChainsInit
  /\ about = "chains" => kind = "strict" /\ trace /\ timeout > MaxClock /\ interval = 0

MCNext ==
  \/ about = "poll" /\ Next /\ UNCHANGED <<chainVars, about>>
  \/ about = "chains" /\ ChainStep /\ UNCHANGED <<vars, about>>

\* What the polls are given says nothing of when a chain is collected.
MCSpec == MCInit /\ [][MCNext]_allVars /\ (about = "poll" => Fairness)
=============================================================================
