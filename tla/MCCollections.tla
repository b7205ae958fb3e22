---------------------------- MODULE MCCollections ----------------------------
(***************************************************************************)
(* An instance of Containment, of OneShot, of EqualTo and of ContractDrift *)
(* for TLC, each on its own: a behaviour is a question about the items of  *)
(* a collection, a chain that reads a one-shot iterator, a comparison of   *)
(* two values, or a payload held to its contract.                          *)
(*                                                                         *)
(* The objects: 1 and 1.0 are equal, a NaN equals nothing but has the hash *)
(* of another, mock.ANY equals everything, and a signalling NaN is of a    *)
(* type that hashes but refuses to be hashed.                              *)
(***************************************************************************)
EXTENDS Containment, OneShot, MCEqualTo, MCContracts

CONSTANTS uno, any, snan, odd, a, b

MCObject == {one, uno, nan, any, snan, odd}
MCValue  == MCObject \ {odd}
MCEqual  == {pair \in MCObject \X MCObject :
               /\ pair[1] # pair[2]
               /\ any \in {pair[1], pair[2]} \/ {pair[1], pair[2]} \in {{one, uno}, {one, odd}, {uno, odd}}}
MCBucket == [object \in MCObject |-> IF object \in {one, uno, nan} THEN 1 ELSE 9]
MCAccepts == {odd} \X {one, uno, any}
MCSafe    == {one, uno, nan, snan}
MCRefuses == {snan}
MCMatcher == {odd}
MCChar    == {a, b}

VARIABLE about

allVars == <<containmentVars, oneShotVars, graphVars, walkVars, driftVars, about>>

Init ==
  /\ ContainmentInit /\ OneShotInit /\ EqualToInit /\ DriftInit
  /\ about \in {"items", "chain", "graphs", "contracts"}

Next ==
  \/ about = "items" /\ ContainmentStep /\ UNCHANGED <<oneShotVars, graphVars, walkVars, driftVars, about>>
  \/ about = "chain" /\ OneShotStep /\ UNCHANGED <<containmentVars, graphVars, walkVars, driftVars, about>>
  \/ about = "graphs" /\ (HoldAny \/ EqualToStep) /\ UNCHANGED <<containmentVars, oneShotVars, driftVars, about>>
  \/ about = "contracts" /\ DriftStep /\ UNCHANGED <<containmentVars, oneShotVars, graphVars, walkVars, about>>

Done ==
  \/ about = "items" /\ ContainmentDone
  \/ about = "chain" /\ OneShotDone
  \/ about = "graphs" /\ EqualToDone
  \/ about = "contracts" /\ DriftDone

Spec == Init /\ [][Next \/ (Done /\ UNCHANGED allVars)]_allVars
=============================================================================
