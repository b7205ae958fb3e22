------------------------------ MODULE MCVerdict ------------------------------
(***************************************************************************)
(* An instance of Verdict, of Extensions and of ErrorTrees for TLC, each   *)
(* on its own: a behaviour is one builder with two pivots that is negated  *)
(* and checked, or two threads that add and remove extensions of one name, *)
(* or a chain of links about exceptions.                                   *)
(***************************************************************************)
EXTENDS Verdict, Extensions, ErrorTrees, TLC

-----------------------------------------------------------------------------
(* Extensions: two functions of the same code, as a fixture that runs      *)
(* twice makes, and a third.                                               *)

CONSTANTS one_fn, same_fn, other_fn

CodeOf == [x \in Function |-> IF x = same_fn THEN one_fn ELSE x]

-----------------------------------------------------------------------------
(* Exceptions: two, one of a class derived from that of the other, two     *)
(* groups and a KeyboardInterrupt.                                         *)

CONSTANTS bad, worse, top, sub, stop,
          Exc, BadExc, WorseExc, GroupExc, StopExc

InstanceOf == ({bad, worse, top, sub} \X {Exc}) \cup
              {<<bad, BadExc>>, <<worse, BadExc>>, <<worse, WorseExc>>,
               <<top, GroupExc>>, <<sub, GroupExc>>, <<stop, StopExc>>}

Linked(cause, context, suppressed) == [cause |-> cause, context |-> context, suppressed |-> suppressed]

Alone     == Linked(NoError, NoError, FALSE)
Unlinked  == [e \in Error |-> Alone]
UpTo(n, set) == UNION {[1 .. k -> set] : k \in 1 .. n}
Simple    == [group \in Group |-> <<bad>>]

\* Raised from one another, or while another is handled, and back, and out of themselves.
Reasons ==
  {Alone, Linked(NoError, bad, TRUE)} \cup {Linked(cause, worse, TRUE) : cause \in {bad, worse, top}}
    \cup {Linked(NoError, context, FALSE) : context \in {bad, worse, top}}

Chained ==
  {[links |-> [Unlinked EXCEPT ![bad] = one, ![worse] = other, ![top] = third], members |-> Simple] :
     one, other \in Reasons, third \in {Alone, Linked(bad, worse, TRUE), Linked(NoError, worse, FALSE)}}

Nested ==
  {[links |-> Unlinked, members |-> [group \in Group |-> IF group = top THEN upper ELSE lower]] :
     upper \in UpTo(3, {sub, bad, worse}), lower \in {<<bad>>, <<worse, bad>>, <<bad, bad>>}}

MCCircumstances == Chained \cup Nested

MCSpecs ==
  UpTo(2, {Exc, BadExc, WorseExc, <<BadExc>>, <<WorseExc, BadExc>>, <<BadExc, WorseExc>>})
    \cup [1 .. 3 -> {BadExc, WorseExc, <<WorseExc, BadExc>>}]

MCWanted == UpTo(2, {BadExc, WorseExc, GroupExc})

-----------------------------------------------------------------------------

VARIABLE about

allVars == <<vars, extensionVars, errorVars, about>>

\* What a behaviour leaves alone starts the same way in all of them.
MCInit ==
  /\ about \in {"verdicts", "extensions", "errors"}
  /\ Init /\ ExtensionsInit /\ ErrorsInit
  /\ about # "verdicts" => ~listening /\ obj[Root].kind = "strict"
  /\ about # "extensions" => ~builtIn
  /\ about # "errors" => links = Unlinked /\ members = Simple /\ soft

MCNext ==
  \/ about = "verdicts" /\ Next /\ UNCHANGED <<extensionVars, errorVars, about>>
  \/ about = "extensions" /\ ExtensionsStep /\ UNCHANGED <<vars, errorVars, about>>
  \/ about = "errors" /\ ErrorsStep /\ UNCHANGED <<vars, extensionVars, about>>

MCSpec == MCInit /\ [][MCNext]_allVars

Symmetric == Permutations(Builder \ {Root})
=============================================================================
