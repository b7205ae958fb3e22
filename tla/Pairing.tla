------------------------------ MODULE Pairing ------------------------------
(***************************************************************************)
(* Kuhn's algorithm, one step of a loop at a time: entries are paired with *)
(* distinct options each of them accepts, as many as can be.  A first pass *)
(* takes free options; each entry left over then looks for a chain of      *)
(* owners that can move over, depth first.                                 *)
(*                                                                         *)
(* The options of an entry come from a set, or a list, in an order that is *)
(* not the algorithm's to choose: any may be next.                         *)
(***************************************************************************)
EXTENDS Naturals, Sequences, FiniteSets

CONSTANTS
  Entry,    \* what is to be paired
  Option    \* what it is paired with

ASSUME PairingAssumption == IsFiniteSet(Entry)

VARIABLES
  options,   \* the options of each entry: the candidates, or what options_of() answers
  fresh,     \* the entries the first pass has not come to, in order
  waiting,   \* those it left over
  paired,    \* {option: entry}
  path,      \* of _augmented(): the entries of the chain that is followed
  taken,     \* the options each gave its place up for, but for the last one
  looked     \* the options looked at for the first entry of the chain

chain       == <<path, taken, looked>>
pairingVars == <<options, fresh, waiting, paired, chain>>

IsFree(option) == option \notin DOMAIN paired
Entries(pairs) == {pairs[option] : option \in DOMAIN pairs}

\* A valid pairing: each option with an entry that accepts it, and no entry with two.
IsPairing(pairs) ==
  /\ DOMAIN pairs \subseteq Option
  /\ \A option \in DOMAIN pairs : pairs[option] \in Entry /\ option \in options[pairs[option]]
  /\ \A one, other \in DOMAIN pairs : pairs[one] = pairs[other] => one = other

With(pairs, option, entry) ==
  [o \in DOMAIN pairs \cup {option} |-> IF o = option THEN entry ELSE pairs[o]]

NoChain == path = <<>> /\ taken = <<>> /\ looked = {}

\* Those that are to be tried: each once, none that is paired, and all the others that accept anything.
Tried(entries) ==
  /\ entries \in Seq(Entry)
  /\ \A i, j \in DOMAIN entries : entries[i] = entries[j] => i = j
  /\ \A i \in DOMAIN entries : entries[i] \notin Entries(paired)
  /\ \A entry \in Entry \ Entries(paired) : options[entry] # {} => \E i \in DOMAIN entries : entries[i] = entry

\* maximum_pairing() begins with no pair and all entries, completed_pairing() with any valid pairs and the rest.
PairingInit ==
  /\ options \in [Entry -> SUBSET Option]
  /\ IsPairing(paired)
  /\ \/ paired = <<>> /\ Tried(fresh) /\ waiting = <<>>
     \/ fresh = <<>> /\ Tried(waiting)
  /\ NoChain

-----------------------------------------------------------------------------
(* maximum_pairing() *)

TakeFree(option) ==
  /\ fresh # <<>> /\ option \in options[Head(fresh)] /\ IsFree(option)
  /\ paired' = With(paired, option, Head(fresh))
  /\ fresh' = Tail(fresh)
  /\ UNCHANGED <<options, waiting, chain>>

LeaveOver ==
  /\ fresh # <<>> /\ \A option \in options[Head(fresh)] : ~IsFree(option)
  /\ waiting' = Append(waiting, Head(fresh))
  /\ fresh' = Tail(fresh)
  /\ UNCHANGED <<options, paired, chain>>

-----------------------------------------------------------------------------
(* completed_pairing() and _augmented() *)

Try ==
  /\ fresh = <<>> /\ path = <<>> /\ waiting # <<>>
  /\ path' = <<Head(waiting)>>
  /\ waiting' = Tail(waiting)
  /\ UNCHANGED <<options, fresh, paired, taken, looked>>

Last == path[Len(path)]
Unseen(option) == path # <<>> /\ option \in options[Last] \ looked

\* The owner of an option is asked to move over.
Displace(option) ==
  /\ Unseen(option) /\ ~IsFree(option)
  /\ looked' = looked \cup {option}
  /\ taken' = Append(taken, option)
  /\ path' = Append(path, paired[option])
  /\ UNCHANGED <<options, fresh, waiting, paired>>

\* A slip: the last entry takes the free option, and nobody else moves.
MoveLast(option) ==
  /\ Unseen(option) /\ IsFree(option)
  /\ paired' = With(paired, option, Last)
  /\ path' = <<>> /\ taken' = <<>> /\ looked' = {}
  /\ UNCHANGED <<options, fresh, waiting>>

\* A free option ends the chain, and everyone on it moves over.
MoveOver(option) ==
  LET given == Append(taken, option)
  IN  /\ Unseen(option) /\ IsFree(option)
      /\ paired' = [o \in DOMAIN paired \cup {option} |->
                      IF \E i \in DOMAIN given : given[i] = o
                      THEN path[CHOOSE i \in DOMAIN given : given[i] = o] ELSE paired[o]]
      /\ path' = <<>> /\ taken' = <<>> /\ looked' = {}
      /\ UNCHANGED <<options, fresh, waiting>>

\* Nothing is left to ask of the last entry of the chain: back to the one before it, or the first stays unpaired.
Backtrack ==
  /\ path # <<>> /\ options[Last] \subseteq looked
  /\ path' = SubSeq(path, 1, Len(path) - 1)
  /\ taken' = IF taken = <<>> THEN <<>> ELSE SubSeq(taken, 1, Len(taken) - 1)
  /\ looked' = IF Len(path) = 1 THEN {} ELSE looked
  /\ UNCHANGED <<options, fresh, waiting, paired>>

PairingStep ==
  \/ \E option \in Option : TakeFree(option) \/ Displace(option) \/ MoveOver(option)
  \/ LeaveOver \/ Try \/ Backtrack

Paired == fresh = <<>> /\ waiting = <<>> /\ path = <<>>

PairingSpec == PairingInit /\ [][PairingStep]_pairingVars

-----------------------------------------------------------------------------

\* Every pairing there is, given what each entry accepts.
PairingsOf(accepted) ==
  UNION {{pairs \in [some -> DOMAIN accepted] :
            /\ \A option \in some : option \in accepted[pairs[option]]
            /\ \A one, other \in some : pairs[one] = pairs[other] => one = other} :
         some \in SUBSET UNION {accepted[entry] : entry \in DOMAIN accepted}}

\* At any time the pairs are a pairing, and at the end no pairing there is has more of them: no item is
\* reported as left over while another arrangement has a place for it (maximum_pairing, completed_pairing).
PairingIsMaximum ==
  /\ IsPairing(paired)
  /\ Paired => \A pairs \in PairingsOf(options) : Cardinality(DOMAIN pairs) <= Cardinality(DOMAIN paired)
=============================================================================
