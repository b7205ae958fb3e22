------------------------------ MODULE OneShot ------------------------------
(***************************************************************************)
(* A chain over a one-shot iterator.  A generator gives each item once, so *)
(* the builder keeps what it has handed out (Replay), and every link reads *)
(* that first and takes from the iterator only what lies past it.          *)
(*                                                                         *)
(* One thread runs, so what is under way is a stack: a walk hands an item  *)
(* to the caller's code, which may start another link of the same chain;   *)
(* satisfies() hands the iterator itself to such code, which may take      *)
(* items from it behind the chain's back.  The iterator may raise, and may *)
(* be at its end after that or go on.                                      *)
(*                                                                         *)
(* What the chain cannot see is left out: code that kept the iterator and  *)
(* takes from it while no link has handed it over, or after a link of its  *)
(* own that read more.                                                     *)
(***************************************************************************)
EXTENDS Naturals, Sequences

CONSTANTS
  Length,      \* items the iterator holds: 1, 2, ..., Length
  MaxLinks,    \* bound: links of the chain
  MaxDepth,    \* bound: what is under way at once
  MaxErrors    \* bound: errors of the iterator

ASSUME OneShotAssumption == Length \in Nat /\ MaxLinks \in Nat /\ MaxDepth \in Nat /\ MaxErrors \in Nat

VARIABLES
  given,      \* items the iterator has given, to a link or to the caller's code
  over,       \* the iterator is at its end
  kept,       \* of the builder's Replay: "none" made yet, or its _rest is "open" or "done"
  seen,       \* its _seen
  givenAway,  \* its given_away
  frames,     \* what is under way: walks, and code of the caller's the iterator was handed to
  reads,      \* what each walk that ended had read
  links,      \* links begun
  errors      \* errors the iterator raised

source      == <<given, over, errors>>
replay      == <<kept, seen, givenAway>>
oneShotVars == <<source, replay, frames, reads, links>>

\* A walk with what it has read so far, or code with what was seen when it was handed the iterator.
Walk(items) == [kind |-> "walk", items |-> items]
Code(items) == [kind |-> "code", items |-> items]

Top        == frames[Len(frames)]
OnTop(kind) == frames # <<>> /\ Top.kind = kind
Popped     == SubSeq(frames, 1, Len(frames) - 1)

OneShotInit ==
  /\ given = 0 /\ over = FALSE /\ errors = 0
  /\ kept = "none" /\ seen = <<>> /\ givenAway = FALSE
  /\ frames = <<>> /\ reads = {} /\ links = 0

-----------------------------------------------------------------------------
(* The iterator *)

AtEnd == over \/ given = Length

\* It raises, and takes no item with it: a generator is at its end then, another iterator may go on.
Raises ==
  /\ ~over /\ errors < MaxErrors
  /\ errors' = errors + 1
  /\ over' \in BOOLEAN
  /\ UNCHANGED given

-----------------------------------------------------------------------------
(* The chain *)

\* A link starts outside of every other, or in code that was given an item or the iterator.
NewLink ==
  /\ links < MaxLinks /\ Len(frames) < MaxDepth
  /\ OnTop("walk") => Top.items # <<>>
  /\ links' = links + 1

\* _walked(): the Replay is made on the first walk; after a hand-out in the middle the link is refused.
Walked ==
  /\ ~givenAway
  /\ kept' = IF kept = "none" THEN "open" ELSE kept
  /\ UNCHANGED givenAway

Begin ==
  /\ NewLink /\ Walked
  /\ frames' = Append(frames, Walk(<<>>))
  /\ UNCHANGED <<source, seen, reads>>

\* _drained(): the rest is taken in one go, or up to the error the iterator raises.
Drain ==
  /\ NewLink /\ ~givenAway
  /\ \/ /\ kept = "done" /\ UNCHANGED <<source, replay>>
        /\ reads' = reads \cup {[items |-> seen, whole |-> TRUE]}
     \/ /\ kept # "done" /\ kept' = "done"
        /\ seen' = seen \o [i \in 1 .. (IF over THEN 0 ELSE Length - given) |-> given + i]
        /\ given' = IF over THEN given ELSE Length
        /\ reads' = reads \cup {[items |-> seen', whole |-> TRUE]}
        /\ UNCHANGED <<givenAway, over, errors>>
     \/ \E some \in 0 .. Length :
          /\ kept # "done" /\ kept' = "open"
          /\ ~over /\ some <= Length - given /\ errors < MaxErrors
          /\ seen' = seen \o [i \in 1 .. some |-> given + i]
          /\ given' = given + some
          /\ errors' = errors + 1 /\ over' \in BOOLEAN
          /\ UNCHANGED <<givenAway, reads>>
  /\ UNCHANGED frames

\* satisfies() hands the iterator over: once some of it was read and some may be left, that is noted for good.
HandOut ==
  /\ NewLink
  /\ givenAway' = (givenAway \/ (kept = "open" /\ seen # <<>>))
  /\ frames' = Append(frames, Code(seen))
  /\ UNCHANGED <<source, kept, seen, reads>>

-----------------------------------------------------------------------------
(* A walk: Replay.__iter__ *)

\* The next item is one that was seen, or the next of the iterator, kept before it is handed on.
Step(item) == frames' = [frames EXCEPT ![Len(frames)] = Walk(Append(@.items, item))]

Past == Len(Top.items) = Len(seen)

Again ==
  /\ OnTop("walk") /\ ~Past
  /\ Step(seen[Len(Top.items) + 1])
  /\ UNCHANGED <<source, replay, reads, links>>

\* A slip: a walk goes on past a hand-out that came in its middle.
TakeOn ==
  /\ OnTop("walk") /\ Past /\ kept = "open" /\ ~AtEnd
  /\ seen' = Append(seen, given + 1)
  /\ given' = given + 1
  /\ Step(given + 1)
  /\ UNCHANGED <<over, errors, kept, givenAway, reads, links>>

Take ==
  /\ OnTop("walk") /\ Past /\ kept = "open" /\ ~givenAway /\ ~AtEnd
  /\ seen' = Append(seen, given + 1)
  /\ given' = given + 1
  /\ Step(given + 1)
  /\ UNCHANGED <<over, errors, kept, givenAway, reads, links>>

Ended(whole) ==
  /\ reads' = reads \cup {[items |-> Top.items, whole |-> whole]}
  /\ frames' = Popped
  /\ UNCHANGED links

\* The items are at their end: the iterator said so now, or to an earlier link.
ReachEnd ==
  /\ OnTop("walk") /\ Past
  /\ \/ kept = "done" /\ UNCHANGED kept
     \/ kept = "open" /\ ~givenAway /\ AtEnd /\ kept' = "done"
  /\ Ended(TRUE)
  /\ UNCHANGED <<source, seen, givenAway>>

\* The walk knows enough, is refused past a hand-out, or is left by an error of the code it gave an item to.
Stop ==
  /\ OnTop("walk") /\ Ended(FALSE)
  /\ UNCHANGED <<source, replay>>

Fail ==
  /\ OnTop("walk") /\ Past /\ kept = "open" /\ ~givenAway
  /\ Raises /\ Ended(FALSE)
  /\ UNCHANGED replay

-----------------------------------------------------------------------------
(* The caller's code, with the iterator in hand *)

CodeTakes ==
  /\ OnTop("code") /\ Top.items = seen /\ ~AtEnd
  /\ given' = given + 1
  /\ UNCHANGED <<over, errors, replay, frames, reads, links>>

CodeReturns ==
  /\ OnTop("code") /\ frames' = Popped
  /\ UNCHANGED <<source, replay, reads, links>>

OneShotStep ==
  \/ Begin \/ Drain \/ HandOut
  \/ Again \/ Take \/ ReachEnd \/ Stop \/ Fail
  \/ CodeTakes \/ CodeReturns

OneShotDone == frames = <<>> /\ links = MaxLinks

OneShotSpec == OneShotInit /\ [][OneShotStep]_oneShotVars

-----------------------------------------------------------------------------

PrefixOf(one, other) == Len(one) <= Len(other) /\ \A i \in DOMAIN one : one[i] = other[i]

UnderWay == {frames[i].items : i \in {j \in DOMAIN frames : frames[j].kind = "walk"}}
AllReads == {read.items : read \in reads} \cup UnderWay

\* Every link reads the same items as the others, as far as it reads, with no gap in them and none twice; one that
\* reads to the end has all there are, and if the iterator never raised that is up to its last (Replay, _walked,
\* _handed_out, _drained): no link passes or fails over what an earlier one left.
WalksAlike ==
  /\ \A one, other \in AllReads : PrefixOf(one, other) \/ PrefixOf(other, one)
  /\ \A items \in AllReads : \A i \in DOMAIN items : items[i] = items[1] + i - 1
  /\ \A read \in reads :
       read.whole =>
         /\ \A items \in AllReads : PrefixOf(items, read.items)
         /\ errors = 0 /\ read.items # <<>> => read.items[Len(read.items)] = Length
=============================================================================
