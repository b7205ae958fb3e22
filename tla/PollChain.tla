----------------------------- MODULE PollChain ------------------------------
(***************************************************************************)
(* The chains of eventually(): AsyncAssertionBuilder in                    *)
(* assertpy2/async_assertions.py.  A chain records the calls made on it    *)
(* and runs them when it is awaited.  Each call makes a new chain with one *)
(* more step, and whoever holds the old one may still branch off it, await *)
(* it, hand it to a task, look at it or drop it.                           *)
(*                                                                         *)
(* A chain whose coroutine was made is held by the frame of it, so only    *)
(* the collector of cycles finds it; it may come at any time, and to       *)
(* several chains in any order.  The end of the interpreter, where         *)
(* warnings are gone, is left out.                                         *)
(***************************************************************************)
EXTENDS Naturals, Sequences

CONSTANT MaxChains   \* bound: chains of a test

ASSUME ChainsAssumption == MaxChains \in Nat \ {0}

VARIABLES
  chains,   \* the chains made, in turn: the fields of each, and who refers to it
  heard     \* history: what the test did to each, or was told of it

chainVars == <<chains, heard>>

\* Steps: none, only described_as(), or one that asserts.  The coroutine is made and not started ("created"), polls
\* ("running"), or is over or closed.
NewChain(parent, steps) ==
  [parent |-> parent, steps |-> steps, superseded |-> FALSE, awaited |-> FALSE, coro |-> "none",
   held |-> TRUE, iterator |-> FALSE, live |-> TRUE]

Chain == DOMAIN chains

\* Somebody has the chain in hand.
InHand(c) == c \in Chain /\ chains[c].held

ChainsInit == chains = <<NewChain(0, "none")>> /\ heard = <<{}>>

Becomes(c, chain) == chains' = [chains EXCEPT ![c] = chain]
Hears(c, what)    == heard' = [heard EXCEPT ![c] = @ \cup {what}]

-----------------------------------------------------------------------------
(* Recording *)

\* A call, or not_, on a chain: __getattr__() and _chained().
Link(c, asserts) ==
  LET steps == IF asserts THEN "asserts" ELSE IF chains[c].steps = "none" THEN "describes" ELSE chains[c].steps
  IN  /\ InHand(c) /\ Len(chains) < MaxChains
      /\ chains' = Append([chains EXCEPT ![c].superseded = TRUE], NewChain(c, steps))
      /\ heard' = Append(heard, {})

Made(coro) == IF coro = "none" THEN "created" ELSE coro

\* inspect reads a cr_ attribute, which makes the coroutine.
LooksAt(c) ==
  /\ InHand(c) /\ chains[c].steps # "none"
  /\ Becomes(c, [chains[c] EXCEPT !.coro = Made(@)])
  /\ UNCHANGED heard

-----------------------------------------------------------------------------
(* Running: __await__(), send(), throw(), close() *)

\* A slip: the chain that refuses is not marked as somebody's responsibility.
RefuseUnmarked(c) ==
  /\ InHand(c) /\ chains[c].steps # "asserts"
  /\ Hears(c, "refused")
  /\ UNCHANGED chains

\* _started() refuses a chain that asserts nothing.
Refuse(c) ==
  /\ InHand(c) /\ chains[c].steps # "asserts"
  /\ Becomes(c, [chains[c] EXCEPT !.awaited = TRUE])
  /\ Hears(c, "refused")

MayStart(c) == InHand(c) /\ chains[c].steps = "asserts"

\* __await__() hands out an iterator, which need not be run.
Await(c) ==
  /\ MayStart(c)
  /\ Becomes(c, [chains[c] EXCEPT !.coro = Made(@), !.awaited = TRUE, !.iterator = TRUE])
  /\ UNCHANGED heard

DropIterator(c) ==
  /\ c \in Chain /\ chains[c].iterator
  /\ Becomes(c, [chains[c] EXCEPT !.iterator = FALSE])
  /\ UNCHANGED heard

Begun(c) == [chains[c] EXCEPT !.coro = "running", !.awaited = TRUE]

RunIterator(c) ==
  /\ c \in Chain /\ chains[c].iterator /\ chains[c].coro = "created"
  /\ Becomes(c, Begun(c)) /\ Hears(c, "ran")

\* A task, or asyncio.run(), has the chain for a coroutine.
Send(c) ==
  /\ MayStart(c) /\ Made(chains[c].coro) = "created"
  /\ Becomes(c, Begun(c)) /\ Hears(c, "ran")

\* The poll ends, with a builder or an exception, which whoever ran it is given.
Finish(c) ==
  /\ c \in Chain /\ chains[c].live /\ chains[c].coro = "running"
  /\ Becomes(c, [chains[c] EXCEPT !.coro = "closed"])
  /\ UNCHANGED heard

\* A task that is cancelled before its first turn, or during a poll.
Throw(c) ==
  /\ MayStart(c)
  /\ Becomes(c, [chains[c] EXCEPT !.coro = "closed", !.awaited = TRUE])
  /\ Hears(c, "thrown")

Close(c) ==
  /\ InHand(c)
  /\ Becomes(c, [chains[c] EXCEPT !.coro = IF chains[c].steps = "none" THEN @ ELSE "closed", !.awaited = TRUE])
  /\ Hears(c, "discarded")

-----------------------------------------------------------------------------
(* Collection *)

Forget(c) ==
  /\ InHand(c)
  /\ Becomes(c, [chains[c] EXCEPT !.held = FALSE])
  /\ UNCHANGED heard

Warns(chain) ==
  /\ chain.steps # "none" /\ ~chain.superseded
  /\ ~(chain.awaited /\ chain.coro # "created")

\* __del__(): a coroutine that was never started is closed, or Python would warn of it too.
Collect(c) ==
  /\ c \in Chain /\ chains[c].live /\ ~chains[c].held /\ ~chains[c].iterator
  /\ Becomes(c, [chains[c] EXCEPT !.live = FALSE, !.coro = IF @ = "created" THEN "closed" ELSE @])
  /\ IF Warns(chains[c]) THEN Hears(c, "warned") ELSE UNCHANGED heard

ChainStep ==
  \E c \in 1 .. MaxChains :
    \/ \E asserts \in BOOLEAN : Link(c, asserts)
    \/ LooksAt(c) \/ Refuse(c) \/ Await(c) \/ DropIterator(c) \/ RunIterator(c) \/ Send(c) \/ Finish(c)
    \/ Throw(c) \/ Close(c) \/ Forget(c) \/ Collect(c)

ChainsSpec == ChainsInit /\ [][ChainStep]_chainVars

-----------------------------------------------------------------------------

Branches(c) == {d \in Chain : chains[d].parent = c}

\* "Only its end is awaited, so only its end warns": of a chain that is gone with steps recorded on it, the test heard.
\* It ran, was cancelled, refused or discarded, or it warned, or it was handed on and its branches answer for it.  And
\* it warned only where none of that was so: nothing that ran is called abandoned, a chain that refused to be awaited
\* is "not also reported as never awaited", and no coroutine is left for Python to warn of in the name of the library.
\* The code makes one exception to the second, which the comment at async_assertions.py:606 does not: a chain that
\* asserts nothing and of which a coroutine was made, by looking at it, warns though it was refused (__del__).
AbandonedIsHeard ==
  \A c \in Chain : ~chains[c].live =>
    /\ chains[c].steps # "none" => heard[c] # {} \/ Branches(c) # {}
    /\ "warned" \in heard[c] => heard[c] \subseteq {"warned", "refused"} /\ Branches(c) = {}
    /\ {"warned", "refused"} \subseteq heard[c] => chains[c].steps = "describes" /\ chains[c].coro # "none"
    /\ chains[c].coro # "created"
=============================================================================
