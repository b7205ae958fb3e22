-------------------------- MODULE Collections_proofs --------------------------
(***************************************************************************)
(* For any entries, options and order of them: what is paired is a pairing *)
(* after every step, whoever is paired stays paired, though perhaps with   *)
(* another option, and at the end no pairing has more pairs.               *)
(*                                                                         *)
(* For an iterator of any length, any chain over it and any errors: every  *)
(* link reads the same items.                                              *)
(*                                                                         *)
(* For any objects, collections and questions about their items: every     *)
(* answer is exact.  Each search is shown to find what a definition that   *)
(* does not search says is there, a function that goes through a sequence  *)
(* by the number of elements it went through.                              *)
(***************************************************************************)
EXTENDS Containment, OneShot, FiniteSetTheorems, WellFoundedInduction, TLAPS

-----------------------------------------------------------------------------
(* Pairing *)

PairingTypes ==
  /\ options \in [Entry -> SUBSET Option]
  /\ fresh \in Seq(Entry) /\ waiting \in Seq(Entry) /\ path \in Seq(Entry)
  /\ taken \in Seq(Option) /\ looked \subseteq Option

\* Nobody who is still to be tried is paired, or is to be tried twice.
Unpaired ==
  /\ \A i \in DOMAIN fresh : fresh[i] \notin Entries(paired)
  /\ \A i \in DOMAIN waiting : waiting[i] \notin Entries(paired)
  /\ \A i, j \in DOMAIN fresh : fresh[i] = fresh[j] => i = j
  /\ \A i, j \in DOMAIN waiting : waiting[i] = waiting[j] => i = j
  /\ \A i \in DOMAIN fresh, j \in DOMAIN waiting : fresh[i] # waiting[j]

\* The first of the chain is not paired, and everyone after it owns the option before it would take.
ChainHolds ==
  /\ path = <<>> => taken = <<>>
  /\ path # <<>> =>
       /\ fresh = <<>> /\ Len(path) = Len(taken) + 1
       /\ path[1] \notin Entries(paired)
       /\ \A i \in DOMAIN waiting : waiting[i] # path[1]
  /\ \A i \in DOMAIN taken :
       /\ taken[i] \in DOMAIN paired /\ paired[taken[i]] = path[i + 1]
       /\ taken[i] \in options[path[i]] /\ taken[i] \in looked
  /\ \A i, j \in DOMAIN taken : taken[i] = taken[j] => i = j

PairingInv == PairingTypes /\ IsPairing(paired) /\ Unpaired /\ ChainHolds

\* The effect of a chain that reaches a free option, in one place: every entry on it gets the option before it.
Given(option) == Append(taken, option)

LEMMA GivenOne ==
  ASSUME PairingInv, NEW option \in Option, MoveOver(option)
  PROVE  /\ Len(Given(option)) = Len(path) /\ Given(option) \in Seq(Option)
         /\ \A i \in DOMAIN path : Given(option)[i] = IF i = Len(path) THEN option ELSE taken[i]
         /\ \A i \in DOMAIN path : i # Len(path) => i \in DOMAIN taken
         /\ \A i, j \in DOMAIN path : Given(option)[i] = Given(option)[j] => i = j
         /\ \A i \in DOMAIN path : Given(option)[i] \in options[path[i]]
<1> USE DEF PairingInv, PairingTypes
<1>1. path # <<>> /\ Len(path) = Len(taken) + 1 /\ option \in options[path[Len(path)]]
      /\ option \notin looked /\ option \notin DOMAIN paired
  BY DEF MoveOver, Unseen, Last, IsFree, ChainHolds
<1>2. Len(Given(option)) = Len(path) /\ Given(option) \in Seq(Option)
  BY <1>1 DEF Given
<1>3. \A i \in DOMAIN path : Given(option)[i] = IF i = Len(path) THEN option ELSE taken[i]
  BY <1>1 DEF Given
<1>4. \A i \in DOMAIN path : i # Len(path) => i \in DOMAIN taken
  BY <1>1
<1>5. \A i \in DOMAIN taken : taken[i] \in DOMAIN paired /\ taken[i] \in options[path[i]]
  BY DEF ChainHolds
<1>6. \A i, j \in DOMAIN path : Given(option)[i] = Given(option)[j] => i = j
  <2> SUFFICES ASSUME NEW i \in DOMAIN path, NEW j \in DOMAIN path, Given(option)[i] = Given(option)[j]
               PROVE  i = j
    OBVIOUS
  <2>1. CASE i = Len(path) /\ j = Len(path)
    BY <2>1
  <2>2. CASE i # Len(path) /\ j # Len(path)
    BY <2>2, <1>3, <1>4 DEF ChainHolds
  <2>3. CASE i = Len(path) /\ j # Len(path)
    BY <2>3, <1>1, <1>3, <1>4, <1>5
  <2>4. CASE i # Len(path) /\ j = Len(path)
    BY <2>4, <1>1, <1>3, <1>4, <1>5
  <2> QED BY <2>1, <2>2, <2>3, <2>4
<1>7. \A i \in DOMAIN path : Given(option)[i] \in options[path[i]]
  BY <1>1, <1>3, <1>4, <1>5
<1> QED BY <1>2, <1>3, <1>4, <1>6, <1>7

\* What is paired after it: an entry of the chain with its option, and everyone else as before.
LEMMA MovedOver ==
  ASSUME PairingInv, NEW option \in Option, MoveOver(option)
  PROVE  /\ DOMAIN paired' = DOMAIN paired \cup {option}
         /\ \A i \in DOMAIN path : Given(option)[i] \in DOMAIN paired' /\ paired'[Given(option)[i]] = path[i]
         /\ \A o \in DOMAIN paired' :
              \/ \E i \in DOMAIN path : o = Given(option)[i] /\ paired'[o] = path[i]
              \/ /\ \A i \in DOMAIN path : o # Given(option)[i]
                 /\ o \in DOMAIN paired /\ paired'[o] = paired[o]
<1> USE DEF PairingInv, PairingTypes
<1>1. /\ Len(Given(option)) = Len(path) /\ Given(option) \in Seq(Option)
      /\ \A i, j \in DOMAIN path : Given(option)[i] = Given(option)[j] => i = j
      /\ \A i \in DOMAIN path : Given(option)[i] = IF i = Len(path) THEN option ELSE taken[i]
      /\ \A i \in DOMAIN path : i # Len(path) => i \in DOMAIN taken
  BY GivenOne
<1>2. DOMAIN Given(option) = DOMAIN path
  BY <1>1
<1>3. paired' = [o \in DOMAIN paired \cup {option} |->
                   IF \E i \in DOMAIN path : Given(option)[i] = o
                   THEN path[CHOOSE i \in DOMAIN path : Given(option)[i] = o] ELSE paired[o]]
  BY <1>2 DEF MoveOver, Given
<1>4. ASSUME NEW i \in DOMAIN path
      PROVE  Given(option)[i] \in DOMAIN paired' /\ paired'[Given(option)[i]] = path[i]
  <2>1. Given(option)[i] \in DOMAIN paired \cup {option}
    BY <1>1 DEF ChainHolds
  <2>2. (CHOOSE j \in DOMAIN path : Given(option)[j] = Given(option)[i]) = i
    BY <1>1
  <2> QED BY <1>3, <2>1, <2>2
<1>5. ASSUME NEW o \in DOMAIN paired', \A i \in DOMAIN path : o # Given(option)[i]
      PROVE  o \in DOMAIN paired /\ paired'[o] = paired[o]
  <2>1. path # <<>> /\ Len(path) \in DOMAIN path
    BY DEF MoveOver, Unseen
  <2>2. o # option
    BY <1>1, <1>5, <2>1
  <2> QED BY <1>3, <1>5, <2>2
<1> QED BY <1>3, <1>4, <1>5

LEMMA MoveOverHolds ==
  ASSUME PairingInv, NEW option \in Option, MoveOver(option)
  PROVE  PairingInv'
<1> USE DEF PairingInv, PairingTypes
<1>1. path # <<>> /\ fresh = <<>> /\ Len(path) = Len(taken) + 1 /\ 1 \in DOMAIN path
  BY DEF MoveOver, Unseen, ChainHolds
<1>2. UNCHANGED <<options, fresh, waiting>> /\ path' = <<>> /\ taken' = <<>> /\ looked' = {}
  BY DEF MoveOver
<1>3. \A i \in DOMAIN path : Given(option)[i] \in options[path[i]] /\ path[i] \in Entry
  BY GivenOne
<1>4. /\ DOMAIN paired' = DOMAIN paired \cup {option}
      /\ \A i \in DOMAIN path : Given(option)[i] \in DOMAIN paired' /\ paired'[Given(option)[i]] = path[i]
      /\ \A o \in DOMAIN paired' :
           \/ \E i \in DOMAIN path : o = Given(option)[i] /\ paired'[o] = path[i]
           \/ /\ \A i \in DOMAIN path : o # Given(option)[i]
              /\ o \in DOMAIN paired /\ paired'[o] = paired[o]
  BY MovedOver
<1>5. \A i \in DOMAIN path : i # 1 => i - 1 \in DOMAIN taken /\ paired[taken[i - 1]] = path[i]
                                        /\ Given(option)[i - 1] = taken[i - 1] /\ i - 1 \in DOMAIN path
  BY <1>1, GivenOne DEF ChainHolds
\* The entries of the chain differ: the first is not paired, and the others own different options.
<1>6. ASSUME NEW i \in DOMAIN path, NEW j \in DOMAIN path, path[i] = path[j]
      PROVE  i = j
  <2>1. path[1] \notin Entries(paired)
    BY <1>1 DEF ChainHolds
  <2>2. \A k \in DOMAIN path : k # 1 => path[k] \in Entries(paired)
    BY <1>5 DEF ChainHolds, Entries
  <2>3. CASE i = 1 \/ j = 1
    BY <2>1, <2>2, <2>3, <1>6
  <2>4. CASE i # 1 /\ j # 1
    <3>1. taken[i - 1] = taken[j - 1]
      BY <2>4, <1>5, <1>6 DEF IsPairing, ChainHolds
    <3>2. i - 1 = j - 1
      BY <2>4, <3>1, <1>5 DEF ChainHolds
    <3> QED BY <3>2
  <2> QED BY <2>3, <2>4
\* Who keeps its option is not on the chain.
<1>7. ASSUME NEW o \in DOMAIN paired, NEW i \in DOMAIN path, \A k \in DOMAIN path : o # Given(option)[k],
             paired[o] = path[i]
      PROVE  FALSE
  <2>1. CASE i = 1
    BY <1>7, <2>1, <1>1 DEF ChainHolds, Entries
  <2>2. CASE i # 1
    <3>1. paired[taken[i - 1]] = paired[o] /\ taken[i - 1] \in DOMAIN paired
      BY <1>7, <2>2, <1>5 DEF ChainHolds
    <3>2. taken[i - 1] = o
      BY <3>1 DEF IsPairing
    <3> QED BY <1>7, <2>2, <3>2, <1>5
  <2> QED BY <2>1, <2>2
<1>8. IsPairing(paired)'
  <2>1. DOMAIN paired' \subseteq Option
    BY <1>4 DEF IsPairing
  <2>2. ASSUME NEW o \in DOMAIN paired'
        PROVE  paired'[o] \in Entry /\ o \in options'[paired'[o]]
    <3>1. CASE \E i \in DOMAIN path : o = Given(option)[i] /\ paired'[o] = path[i]
      BY <3>1, <1>2, <1>3
    <3>2. CASE o \in DOMAIN paired /\ paired'[o] = paired[o]
      BY <3>2, <1>2 DEF IsPairing
    <3> QED BY <3>1, <3>2, <1>4
  <2>3. ASSUME NEW one \in DOMAIN paired', NEW other \in DOMAIN paired', paired'[one] = paired'[other]
        PROVE  one = other
    <3> DEFINE On(o, i) == o = Given(option)[i] /\ paired'[o] = path[i]
               Off(o) == /\ \A i \in DOMAIN path : o # Given(option)[i]
                         /\ o \in DOMAIN paired /\ paired'[o] = paired[o]
    <3>0. /\ (\E i \in DOMAIN path : On(one, i)) \/ Off(one)
          /\ (\E i \in DOMAIN path : On(other, i)) \/ Off(other)
      BY <1>4
    <3>1. CASE Off(one) /\ Off(other)
      BY <3>1, <2>3 DEF IsPairing
    <3>2. ASSUME NEW i \in DOMAIN path, On(one, i), Off(other)
          PROVE  FALSE
      BY <3>2, <2>3, <1>7
    <3>3. ASSUME NEW i \in DOMAIN path, On(other, i), Off(one)
          PROVE  FALSE
      BY <3>3, <2>3, <1>7
    <3>4. ASSUME NEW i \in DOMAIN path, NEW j \in DOMAIN path, On(one, i), On(other, j)
          PROVE  one = other
      BY <3>4, <2>3, <1>6
    <3> HIDE DEF On, Off
    <3> QED BY <3>0, <3>1, <3>2, <3>3, <3>4
  <2> QED BY <2>1, <2>2, <2>3 DEF IsPairing
<1>9. Entries(paired)' \subseteq Entries(paired) \cup {path[1]}
  <2> SUFFICES ASSUME NEW o \in DOMAIN paired' PROVE paired'[o] \in Entries(paired) \cup {path[1]}
    BY DEF Entries
  <2>1. ASSUME NEW i \in DOMAIN path, paired'[o] = path[i], i # 1
        PROVE  paired'[o] \in Entries(paired)
    <3>1. paired[taken[i - 1]] = path[i] /\ taken[i - 1] \in DOMAIN paired
      BY <2>1, <1>5 DEF ChainHolds
    <3> QED BY <2>1, <3>1 DEF Entries
  <2>2. CASE \E i \in DOMAIN path : o = Given(option)[i] /\ paired'[o] = path[i]
    BY <2>1, <2>2
  <2>3. CASE o \in DOMAIN paired /\ paired'[o] = paired[o]
    BY <2>3 DEF Entries
  <2> QED BY <2>2, <2>3, <1>4
<1>10. Unpaired'
  BY <1>1, <1>2, <1>9 DEF Unpaired, ChainHolds
<1>11. ChainHolds'
  BY <1>2 DEF ChainHolds
<1> QED BY <1>2, <1>8, <1>10, <1>11

LEMMA TakeFreeHolds ==
  ASSUME PairingInv, NEW option \in Option, TakeFree(option)
  PROVE  PairingInv'
<1> USE DEF PairingInv, PairingTypes
<1> DEFINE one == fresh[1]
<1>1. /\ fresh # <<>> /\ one = Head(fresh) /\ one \in Entry /\ 1 \in DOMAIN fresh /\ path = <<>> /\ taken = <<>>
      /\ option \in options[one] /\ option \notin DOMAIN paired
      /\ UNCHANGED <<options, waiting, path, taken, looked>>
  BY DEF TakeFree, IsFree, ChainHolds, chain
<1>2. fresh' = Tail(fresh) /\ fresh' \in Seq(Entry)
      /\ \A i \in DOMAIN fresh' : i + 1 \in DOMAIN fresh /\ fresh'[i] = fresh[i + 1]
  BY <1>1 DEF TakeFree
<1>3. /\ DOMAIN paired' = DOMAIN paired \cup {option}
      /\ paired'[option] = one /\ \A o \in DOMAIN paired : paired'[o] = paired[o]
  BY <1>1 DEF TakeFree, With
<1>4. one \notin Entries(paired)
  BY <1>1 DEF Unpaired
<1>5. IsPairing(paired)'
  BY <1>1, <1>3, <1>4 DEF IsPairing, Entries
<1>6. Entries(paired)' = Entries(paired) \cup {one}
  BY <1>3 DEF Entries
<1>7. Unpaired'
  <2>1. \A i \in DOMAIN fresh' : fresh'[i] # one
    BY <1>1, <1>2 DEF Unpaired
  <2>2. \A i \in DOMAIN waiting : waiting[i] # one
    BY <1>1 DEF Unpaired
  <2> QED BY <1>1, <1>2, <1>6, <2>1, <2>2 DEF Unpaired
<1>8. ChainHolds'
  BY <1>1 DEF ChainHolds
<1> QED BY <1>1, <1>2, <1>5, <1>7, <1>8

\* The steps that look and pair nothing.
LEMMA LookingHolds ==
  ASSUME PairingInv, LeaveOver \/ Try \/ Backtrack \/ \E option \in Option : Displace(option)
  PROVE  PairingInv'
<1> USE DEF PairingInv, PairingTypes
<1>1. CASE LeaveOver
  <2>1. /\ 1 \in DOMAIN fresh /\ Head(fresh) = fresh[1] /\ path = <<>> /\ taken = <<>>
        /\ UNCHANGED <<options, paired, path, taken, looked>>
    BY <1>1 DEF LeaveOver, ChainHolds, chain
  <2>2. fresh' \in Seq(Entry) /\ \A i \in DOMAIN fresh' : i + 1 \in DOMAIN fresh /\ fresh'[i] = fresh[i + 1]
    BY <1>1, <2>1 DEF LeaveOver
  <2>3. /\ waiting' \in Seq(Entry)
        /\ \A i \in DOMAIN waiting' : IF i = Len(waiting) + 1 THEN waiting'[i] = fresh[1]
                                      ELSE i \in DOMAIN waiting /\ waiting'[i] = waiting[i]
    BY <1>1, <2>1 DEF LeaveOver
  <2>4. Unpaired'
    <3>1. \A i \in DOMAIN fresh' : fresh'[i] \notin Entries(paired)' /\ fresh'[i] # fresh[1]
      BY <2>1, <2>2 DEF Unpaired
    <3>2. \A i \in DOMAIN waiting' : waiting'[i] \notin Entries(paired)'
      BY <2>1, <2>3 DEF Unpaired
    <3>3. \A i, j \in DOMAIN fresh' : fresh'[i] = fresh'[j] => i = j
      BY <2>2 DEF Unpaired
    <3>4. \A i, j \in DOMAIN waiting' : waiting'[i] = waiting'[j] => i = j
      BY <2>1, <2>3 DEF Unpaired
    <3>5. \A i \in DOMAIN fresh', j \in DOMAIN waiting' : fresh'[i] # waiting'[j]
      BY <2>2, <2>3, <3>1 DEF Unpaired
    <3> QED BY <3>1, <3>2, <3>3, <3>4, <3>5 DEF Unpaired
  <2> QED BY <2>1, <2>2, <2>3, <2>4 DEF IsPairing, ChainHolds
<1>2. CASE Try
  <2>1. /\ 1 \in DOMAIN waiting /\ Head(waiting) = waiting[1] /\ waiting[1] \in Entry /\ taken = <<>>
        /\ fresh = <<>> /\ UNCHANGED <<options, fresh, paired, taken, looked>>
    BY <1>2 DEF Try, ChainHolds
  <2>2. path' = <<waiting[1]>> /\ path' \in Seq(Entry)
    BY <1>2, <2>1 DEF Try
  <2>3. /\ waiting' \in Seq(Entry)
        /\ \A i \in DOMAIN waiting' : i + 1 \in DOMAIN waiting /\ waiting'[i] = waiting[i + 1]
    BY <1>2, <2>1 DEF Try
  <2>4. Unpaired'
    <3>1. \A i \in DOMAIN waiting' : waiting'[i] \notin Entries(paired)'
      BY <2>1, <2>3 DEF Unpaired
    <3>2. \A i, j \in DOMAIN waiting' : waiting'[i] = waiting'[j] => i = j
      BY <2>3 DEF Unpaired
    <3> QED BY <2>1, <3>1, <3>2 DEF Unpaired
  <2>5. ChainHolds'
    BY <2>1, <2>2, <2>3 DEF ChainHolds, Unpaired, Entries
  <2> QED BY <2>1, <2>2, <2>3, <2>4, <2>5 DEF IsPairing
<1>3. CASE Backtrack
  <2>1. UNCHANGED <<options, fresh, waiting, paired>> /\ path # <<>> /\ Len(path) = Len(taken) + 1
    BY <1>3 DEF Backtrack, ChainHolds
  <2>2. /\ path' \in Seq(Entry) /\ Len(path') = Len(path) - 1
        /\ \A i \in DOMAIN path' : i \in DOMAIN path /\ path'[i] = path[i]
    BY <1>3, <2>1 DEF Backtrack
  <2>3. CASE Len(path) = 1
    <3>1. path' = <<>> /\ taken' = <<>> /\ looked' = {}
      BY <1>3, <2>1, <2>2, <2>3 DEF Backtrack
    <3> QED BY <2>1, <2>2, <3>1 DEF IsPairing, Unpaired, ChainHolds, Entries
  <2>4. CASE Len(path) # 1
    <3>1. /\ taken' \in Seq(Option) /\ Len(taken') = Len(taken) - 1 /\ looked' = looked
          /\ \A i \in DOMAIN taken' : i \in DOMAIN taken /\ taken'[i] = taken[i]
      <4>1. taken # <<>> /\ taken' = SubSeq(taken, 1, Len(taken) - 1) /\ looked' = looked
        BY <1>3, <2>1, <2>4 DEF Backtrack
      <4>2. Len(taken) - 1 \in 0 .. Len(taken)
        BY <2>1, <2>4
      <4>3. /\ SubSeq(taken, 1, Len(taken) - 1) \in Seq(Option)
            /\ Len(SubSeq(taken, 1, Len(taken) - 1)) = Len(taken) - 1
            /\ \A i \in 1 .. Len(taken) - 1 : SubSeq(taken, 1, Len(taken) - 1)[i] = taken[i]
        <5> DEFINE n == Len(taken) - 1
        <5>1. taken \in Seq(Option) /\ n \in 0 .. Len(taken)
          BY <4>2
        <5> HIDE DEF n
        <5>2. /\ SubSeq(taken, 1, n) \in Seq(Option) /\ Len(SubSeq(taken, 1, n)) = n
              /\ \A i \in 1 .. n : SubSeq(taken, 1, n)[i] = taken[i]
          BY <5>1
        <5> QED BY <5>2 DEF n
      <4> QED BY <4>1, <4>2, <4>3
    <3>2. ChainHolds'
      BY <2>1, <2>2, <2>4, <3>1 DEF ChainHolds, Entries
    <3> QED BY <2>1, <2>2, <3>1, <3>2 DEF IsPairing, Unpaired, Entries
  <2> QED BY <2>3, <2>4
<1>4. ASSUME NEW option \in Option, Displace(option)
      PROVE  PairingInv'
  <2>1. /\ UNCHANGED <<options, fresh, waiting, paired>> /\ path # <<>> /\ Len(path) = Len(taken) + 1
        /\ option \in options[path[Len(path)]] /\ option \notin looked /\ option \in DOMAIN paired
        /\ fresh = <<>> /\ looked' = looked \cup {option}
    BY <1>4 DEF Displace, Unseen, IsFree, Last, ChainHolds
  <2>2. /\ path' \in Seq(Entry) /\ Len(path') = Len(path) + 1 /\ path'[Len(path) + 1] = paired[option]
        /\ \A i \in DOMAIN path : path'[i] = path[i]
    BY <1>4, <2>1 DEF Displace, IsPairing
  <2>3. /\ taken' \in Seq(Option) /\ Len(taken') = Len(taken) + 1
        /\ \A i \in DOMAIN taken' : IF i = Len(path) THEN taken'[i] = option
                                    ELSE i \in DOMAIN taken /\ taken'[i] = taken[i]
    BY <1>4, <2>1 DEF Displace
  <2>4. ChainHolds'
    <3>1. \A i \in DOMAIN taken' :
            /\ taken'[i] \in DOMAIN paired /\ paired[taken'[i]] = path'[i + 1]
            /\ taken'[i] \in options[path'[i]] /\ taken'[i] \in looked'
      BY <2>1, <2>2, <2>3 DEF ChainHolds
    <3>2. \A i, j \in DOMAIN taken' : taken'[i] = taken'[j] => i = j
      BY <2>1, <2>3 DEF ChainHolds
    <3>3. path' # <<>> /\ path'[1] = path[1]
      <4>1. 1 \in DOMAIN path /\ Len(path') # 0
        BY <2>1, <2>2
      <4> QED BY <4>1, <2>2
    <3> QED BY <2>1, <2>2, <2>3, <3>1, <3>2, <3>3 DEF ChainHolds, Entries
  <2> QED BY <2>1, <2>2, <2>3, <2>4 DEF IsPairing, Unpaired, Entries
<1> QED BY <1>1, <1>2, <1>3, <1>4

LEMMA PairingInitHolds == PairingInit => PairingInv
<1> SUFFICES ASSUME PairingInit PROVE PairingInv
  OBVIOUS
<1>1. path = <<>> /\ taken = <<>> /\ looked = {} /\ options \in [Entry -> SUBSET Option] /\ IsPairing(paired)
  BY DEF PairingInit, NoChain
<1>2. fresh \in Seq(Entry) /\ waiting \in Seq(Entry) /\ Unpaired
  <2>1. CASE waiting = <<>> /\ Tried(fresh)
    BY <2>1 DEF Tried, Unpaired
  <2>2. CASE fresh = <<>> /\ Tried(waiting)
    BY <2>2 DEF Tried, Unpaired
  <2> QED BY <2>1, <2>2 DEF PairingInit
<1>3. ChainHolds
  BY <1>1 DEF ChainHolds
<1> QED BY <1>1, <1>2, <1>3 DEF PairingInv, PairingTypes

LEMMA PairingStepHolds == PairingInv /\ [PairingStep]_pairingVars => PairingInv'
<1> SUFFICES ASSUME PairingInv, [PairingStep]_pairingVars PROVE PairingInv'
  OBVIOUS
<1>1. CASE UNCHANGED pairingVars
  BY <1>1 DEF pairingVars, chain, PairingInv, PairingTypes, IsPairing, Unpaired, ChainHolds, Entries
<1>2. CASE PairingStep
  BY <1>2, TakeFreeHolds, MoveOverHolds, LookingHolds DEF PairingStep
<1> QED BY <1>1, <1>2

\* At any time every option that is paired is paired with an entry that accepts it, and no entry has two:
\* nothing _augmented() moves is lost or given twice, however long the chain and whatever it goes back over.
THEOREM AlwaysAPairing == PairingSpec => []IsPairing(paired)
<1>1. PairingInv => IsPairing(paired)
  BY DEF PairingInv
<1> QED BY <1>1, PairingInitHolds, PairingStepHolds, PTL DEF PairingSpec

LEMMA EntriesStay ==
  ASSUME PairingInv, PairingStep
  PROVE  Entries(paired) \subseteq Entries(paired')
<1>1. CASE \E option \in Option : TakeFree(option)
  BY <1>1 DEF TakeFree, With, Entries, IsFree
<1>2. ASSUME NEW option \in Option, MoveOver(option), NEW o \in DOMAIN paired
      PROVE  paired[o] \in Entries(paired')
  <2>0. PairingTypes /\ ChainHolds /\ path # <<>> /\ Len(path) = Len(taken) + 1
    BY <1>2 DEF PairingInv, MoveOver, Unseen, ChainHolds
  <2>a. /\ DOMAIN paired' = DOMAIN paired \cup {option}
        /\ \A i \in DOMAIN path : Given(option)[i] \in DOMAIN paired' /\ paired'[Given(option)[i]] = path[i]
        /\ \A p \in DOMAIN paired' :
             \/ \E i \in DOMAIN path : p = Given(option)[i] /\ paired'[p] = path[i]
             \/ /\ \A i \in DOMAIN path : p # Given(option)[i]
                /\ p \in DOMAIN paired /\ paired'[p] = paired[p]
    BY <1>2, MovedOver
  <2>1. CASE \E i \in DOMAIN path : o = Given(option)[i] /\ i # Len(path)
    <3>1. PICK i \in DOMAIN path : o = Given(option)[i] /\ i # Len(path)
      BY <2>1
    <3>2. i \in DOMAIN taken /\ o = taken[i] /\ i + 1 \in DOMAIN path
      BY <1>2, <3>1, <2>0, GivenOne DEF PairingTypes
    <3>3. paired[o] = path[i + 1]
      BY <3>2, <2>0 DEF ChainHolds
    <3>4. paired'[Given(option)[i + 1]] = path[i + 1] /\ Given(option)[i + 1] \in DOMAIN paired'
      BY <3>2, <2>a
    <3> QED BY <3>3, <3>4 DEF Entries
  <2>2. CASE \A i \in DOMAIN path : o # Given(option)[i]
    <3>1. o \in DOMAIN paired' /\ paired'[o] = paired[o]
      BY <2>2, <2>a
    <3> QED BY <3>1 DEF Entries
  <2>3. \A i \in DOMAIN path : o = Given(option)[i] => i # Len(path)
    BY <1>2, GivenOne DEF MoveOver, IsFree
  <2> QED BY <2>1, <2>2, <2>3
<1>3. CASE LeaveOver \/ Try \/ Backtrack \/ \E option \in Option : Displace(option)
  BY <1>3 DEF LeaveOver, Try, Backtrack, Displace, Entries
<1> QED BY <1>1, <1>2, <1>3 DEF PairingStep, Entries

\* An entry that is paired stays paired, though it may move over: what was found is never given up for less.
THEOREM PairedStays == PairingSpec => [][Entries(paired) \subseteq Entries(paired')]_pairingVars
<1>1. ASSUME PairingInv, [PairingStep]_pairingVars
      PROVE  [Entries(paired) \subseteq Entries(paired')]_pairingVars
  BY <1>1, EntriesStay
<1> QED BY <1>1, PairingInitHolds, PairingStepHolds, PTL DEF PairingSpec

-----------------------------------------------------------------------------
(* No pairing has more pairs *)

\* Those that accept only what is paired among themselves: nobody outside gains if one of them moves over.
Closed(some) == \A e \in some : \A o \in options[e] : o \in DOMAIN paired /\ paired[o] \in some
Lost(e)      == \E some \in SUBSET Entry : e \in some /\ Closed(some)

Among(entries, e) == \E i \in DOMAIN entries : entries[i] = e

\* Everyone is paired, or still to be tried, or was tried for nothing and is lost.
Settled ==
  \A e \in Entry : \/ e \in Entries(paired) \/ Among(fresh, e) \/ Among(waiting, e)
                   \/ path # <<>> /\ path[1] = e
                   \/ Lost(e)

\* Of whoever was asked to move over, all there is to ask was asked, or it is on the chain.
Explored ==
  /\ path = <<>> => looked = {}
  /\ \A o \in looked : /\ o \in DOMAIN paired
                       /\ options[paired[o]] \subseteq looked \/ Among(path, paired[o])

MaximumInv == PairingInv /\ Settled /\ Explored

Before == {p \in Nat \X Nat : p[1] < p[2]}

\* What holds somewhere in a sequence holds last somewhere.
LEMMA LastIn ==
  ASSUME NEW n \in Nat, NEW some \in SUBSET (1 .. n), some # {}
  PROVE  \E i \in some : \A j \in some : j <= i
<1> DEFINE back == {n - i : i \in some}
<1>1. back \subseteq Nat /\ back # {}
  <2>1. \A i \in some : n - i \in Nat
    OBVIOUS
  <2> QED BY <2>1
<1>2. IsWellFoundedOn(Before, Nat)
  BY NatLessThanWellFounded DEF Before, OpToRel
<1>3. PICK k \in back : \A m \in back : <<m, k>> \notin Before
  <2> HIDE DEF back
  <2> QED BY <1>1, <1>2, WFMin
<1>4. PICK i \in some : k = n - i
  OBVIOUS
<1>5. ASSUME NEW j \in some PROVE j <= i
  <2>1. n - j \in back /\ n - j \in Nat /\ k \in Nat
    OBVIOUS
  <2>2. ~(n - j < k)
    BY <1>3, <2>1 DEF Before
  <2> QED BY <1>4, <2>2
<1> QED BY <1>5

\* A chain that ends at a free option passes nobody who is lost.
LEMMA ChainAvoids ==
  ASSUME PairingInv, NEW option \in Option, MoveOver(option), NEW some \in SUBSET Entry, Closed(some)
  PROVE  \A i \in DOMAIN path : path[i] \notin some
<1> DEFINE there == {i \in DOMAIN path : path[i] \in some}
<1>1. /\ path \in Seq(Entry) /\ path # <<>> /\ Len(path) = Len(taken) + 1 /\ taken \in Seq(Option)
      /\ option \in options[path[Len(path)]] /\ option \notin DOMAIN paired
  BY DEF PairingInv, PairingTypes, MoveOver, Unseen, Last, IsFree, ChainHolds
<1>2. DOMAIN path = 1 .. Len(path) /\ Len(path) \in Nat /\ DOMAIN taken = 1 .. Len(taken)
  BY <1>1
<1> SUFFICES ASSUME there # {} PROVE FALSE
  OBVIOUS
<1>3. PICK i \in there : \A j \in there : j <= i
  <2>1. there \in SUBSET (1 .. Len(path))
    BY <1>2
  <2> HIDE DEF there
  <2> QED BY <1>2, <2>1, LastIn
<1>4. CASE i = Len(path)
  BY <1>1, <1>4 DEF Closed
<1>5. CASE i # Len(path)
  <2>1. i \in DOMAIN taken /\ i + 1 \in DOMAIN path /\ i \in Nat
    BY <1>1, <1>2, <1>5
  <2>2. taken[i] \in options[path[i]] /\ paired[taken[i]] = path[i + 1]
    BY <2>1 DEF PairingInv, ChainHolds
  <2>3. path[i + 1] \in some
    BY <2>2 DEF Closed
  <2> QED BY <1>3, <2>1, <2>3
<1> QED BY <1>4, <1>5

LEMMA ClosedStays ==
  ASSUME PairingInv, PairingStep, NEW some \in SUBSET Entry, Closed(some)
  PROVE  Closed(some)'
<1> SUFFICES ASSUME NEW e \in some, NEW o \in options[e]
             PROVE  options' = options /\ o \in DOMAIN paired' /\ paired'[o] \in some
  <2>1. options' = options
    BY DEF PairingStep, TakeFree, Displace, MoveOver, LeaveOver, Try, Backtrack
  <2> QED BY <2>1 DEF Closed
<1>1. o \in DOMAIN paired /\ paired[o] \in some
  BY DEF Closed
<1>2. options' = options
  BY DEF PairingStep, TakeFree, Displace, MoveOver, LeaveOver, Try, Backtrack
<1>3. ASSUME NEW option \in Option, TakeFree(option)
      PROVE  o \in DOMAIN paired' /\ paired'[o] \in some
  BY <1>1, <1>3 DEF TakeFree, With, IsFree
<1>4. ASSUME NEW option \in Option, MoveOver(option)
      PROVE  o \in DOMAIN paired' /\ paired'[o] \in some
  <2>1. \A i \in DOMAIN path : path[i] \notin some
    BY <1>4, ChainAvoids
  <2>2. /\ DOMAIN paired' = DOMAIN paired \cup {option}
        /\ \A i \in DOMAIN path : Given(option)[i] \in DOMAIN paired' /\ paired'[Given(option)[i]] = path[i]
        /\ \A p \in DOMAIN paired' :
             \/ \E i \in DOMAIN path : p = Given(option)[i] /\ paired'[p] = path[i]
             \/ /\ \A i \in DOMAIN path : p # Given(option)[i]
                /\ p \in DOMAIN paired /\ paired'[p] = paired[p]
    BY <1>4, MovedOver
  <2>3. ASSUME NEW i \in DOMAIN path, o = Given(option)[i] PROVE FALSE
    <3>1. i # Len(path) /\ i \in DOMAIN taken /\ o = taken[i] /\ path \in Seq(Entry) /\ Len(path) = Len(taken) + 1
      <4>1. option \notin DOMAIN paired /\ path # <<>>
        BY <1>4 DEF MoveOver, IsFree, Unseen
      <4>2. /\ Given(option)[i] = IF i = Len(path) THEN option ELSE taken[i]
            /\ i # Len(path) => i \in DOMAIN taken
        BY <1>4, GivenOne
      <4>3. i # Len(path)
        BY <1>1, <2>3, <4>1, <4>2
      <4>4. path \in Seq(Entry) /\ Len(path) = Len(taken) + 1
        BY <4>1 DEF PairingInv, PairingTypes, ChainHolds
      <4> QED BY <2>3, <4>2, <4>3, <4>4
    <3>2. i + 1 \in DOMAIN path /\ paired[o] = path[i + 1]
      BY <3>1 DEF PairingInv, ChainHolds
    <3> QED BY <1>1, <2>1, <3>2
  <2> QED BY <1>1, <2>2, <2>3
<1>5. ASSUME paired' = paired
      PROVE  o \in DOMAIN paired' /\ paired'[o] \in some
  BY <1>1, <1>5
<1> QED BY <1>2, <1>3, <1>4, <1>5 DEF PairingStep, Displace, LeaveOver, Try, Backtrack

LEMMA LostStays ==
  ASSUME PairingInv, PairingStep, NEW e, Lost(e)
  PROVE  Lost(e)'
BY ClosedStays DEF Lost

\* Once everything was asked for an entry, it and those it asked are closed.
LEMMA GivesUp ==
  ASSUME PairingInv, Explored, Backtrack, Len(path) = 1
  PROVE  Lost(path[1])
<1> DEFINE some == {path[1]} \cup {paired[o] : o \in looked}
<1>1. path \in Seq(Entry) /\ path[1] \in Entry /\ DOMAIN path = {1} /\ options[path[1]] \subseteq looked
  BY DEF PairingInv, PairingTypes, Backtrack, Last
<1>2. \A o \in looked : /\ o \in DOMAIN paired /\ paired[o] \in Entry
                        /\ options[paired[o]] \subseteq looked \/ paired[o] = path[1]
  BY <1>1 DEF Explored, Among, PairingInv, IsPairing
<1>3. some \in SUBSET Entry /\ Closed(some)
  BY <1>1, <1>2 DEF Closed
<1> QED BY <1>3 DEF Lost

LEMMA SettledStays ==
  ASSUME MaximumInv, PairingStep
  PROVE  Settled'
<1> USE DEF MaximumInv
<1>0. /\ fresh \in Seq(Entry) /\ waiting \in Seq(Entry) /\ path \in Seq(Entry)
      /\ path # <<>> => fresh = <<>> /\ Len(path) = Len(taken) + 1
  BY DEF PairingInv, PairingTypes, ChainHolds
<1> SUFFICES ASSUME NEW e \in Entry
             PROVE  \/ e \in Entries(paired') \/ Among(fresh', e) \/ Among(waiting', e)
                    \/ path' # <<>> /\ path'[1] = e
                    \/ Lost(e)'
  BY DEF Settled
<1>1. CASE e \in Entries(paired) \/ Lost(e)
  BY <1>1, EntriesStay, LostStays
<1>2. ASSUME NEW i \in DOMAIN fresh, fresh[i] = e
      PROVE  e \in Entries(paired') \/ Among(fresh', e) \/ Among(waiting', e)
  <2>1. ASSUME NEW j \in Nat, i = j + 1, j # 0, fresh' = Tail(fresh) PROVE Among(fresh', e)
    <3>1. j \in DOMAIN Tail(fresh) /\ Tail(fresh)[j] = fresh[i]
      BY <1>0, <2>1
    <3> QED BY <1>2, <2>1, <3>1 DEF Among
  <2>2. i = 1 \/ \E j \in Nat : i = j + 1 /\ j # 0
    <3>1. i \in Nat /\ i > 0
      BY <1>0
    <3>2. i = (i - 1) + 1 /\ i - 1 \in Nat
      BY <3>1
    <3> QED BY <3>1, <3>2
  <2>3. fresh # <<>> /\ Head(fresh) = fresh[1]
    BY <1>0
  <2>4. ASSUME NEW option \in Option, TakeFree(option), i = 1 PROVE e \in Entries(paired')
    BY <2>3, <2>4, <1>2 DEF TakeFree, With, Entries
  <2>5. CASE LeaveOver /\ i = 1
    <3>1. waiting' = Append(waiting, e)
      BY <2>3, <2>5, <1>2 DEF LeaveOver
    <3>2. Len(waiting) + 1 \in DOMAIN waiting' /\ waiting'[Len(waiting) + 1] = e
      BY <3>1, <1>0
    <3> QED BY <3>2 DEF Among
  <2>6. CASE UNCHANGED fresh
    BY <2>6, <1>2 DEF Among
  <2> QED BY <2>1, <2>2, <2>4, <2>5, <2>6 DEF PairingStep, TakeFree, LeaveOver, Try, Displace, MoveOver, Backtrack
<1>3. ASSUME NEW i \in DOMAIN waiting, waiting[i] = e
      PROVE  Among(waiting', e) \/ (path' # <<>> /\ path'[1] = e)
  <2>1. ASSUME NEW j \in Nat, i = j + 1, j # 0, waiting' = Tail(waiting) PROVE Among(waiting', e)
    <3>1. j \in DOMAIN Tail(waiting) /\ Tail(waiting)[j] = waiting[i]
      BY <1>0, <2>1
    <3> QED BY <1>3, <2>1, <3>1 DEF Among
  <2>2. i = 1 \/ \E j \in Nat : i = j + 1 /\ j # 0
    <3>1. i \in Nat /\ i > 0
      BY <1>0
    <3>2. i = (i - 1) + 1 /\ i - 1 \in Nat
      BY <3>1
    <3> QED BY <3>1, <3>2
  <2>3. CASE Try /\ i = 1
    <3>1. path' = <<e>>
      BY <2>3, <1>0, <1>3 DEF Try
    <3> QED BY <3>1
  <2>4. CASE LeaveOver
    <3>1. waiting' = Append(waiting, Head(fresh))
      BY <2>4 DEF LeaveOver
    <3>2. i \in DOMAIN waiting' /\ waiting'[i] = e
      BY <3>1, <1>0, <1>3
    <3> QED BY <3>2 DEF Among
  <2>5. CASE UNCHANGED waiting
    BY <2>5, <1>3 DEF Among
  <2> QED BY <2>1, <2>2, <2>3, <2>4, <2>5 DEF PairingStep, TakeFree, LeaveOver, Try, Displace, MoveOver, Backtrack
<1>4. ASSUME path # <<>>, path[1] = e
      PROVE  e \in Entries(paired') \/ (path' # <<>> /\ path'[1] = e) \/ Lost(e)'
  <2>0. 1 \in DOMAIN path /\ Len(path) \in Nat /\ fresh = <<>>
    BY <1>0, <1>4
  <2>1. ASSUME NEW option \in Option, MoveOver(option) PROVE e \in Entries(paired')
    <3>1. PICK i \in DOMAIN path : i = 1
      BY <2>0
    <3>2. \A k \in DOMAIN path : Given(option)[k] \in DOMAIN paired' /\ paired'[Given(option)[k]] = path[k]
      BY <2>1, MovedOver
    <3>3. Given(option)[i] \in DOMAIN paired' /\ paired'[Given(option)[i]] = path[i]
      BY <3>2
    <3> QED BY <3>1, <3>3, <1>4 DEF Entries
  <2>2. ASSUME NEW option \in Option, Displace(option) PROVE path' # <<>> /\ path'[1] = e
    <3>1. path' = Append(path, paired[option])
      BY <2>2 DEF Displace
    <3> QED BY <3>1, <2>0, <1>0, <1>4
  <2>3. CASE Backtrack /\ Len(path) # 1
    <3>1. path' = SubSeq(path, 1, Len(path) - 1) /\ Len(path) - 1 \in 1 .. Len(path)
      BY <2>0, <2>3, <1>0, <1>4 DEF Backtrack
    <3>2. PICK n : n = Len(path) - 1
      OBVIOUS
    <3>3. Len(SubSeq(path, 1, n)) = n /\ SubSeq(path, 1, n)[1] = path[1] /\ n # 0
      BY <3>1, <3>2, <1>0
    <3> QED BY <3>1, <3>2, <3>3, <1>4
  <2>4. CASE Backtrack /\ Len(path) = 1
    <3>1. Lost(e)
      BY <2>4, <1>4, GivesUp
    <3> QED BY <3>1, LostStays
  <2> QED BY <2>0, <2>1, <2>2, <2>3, <2>4, <1>4 DEF PairingStep, TakeFree, LeaveOver, Try
<1> QED BY <1>1, <1>2, <1>3, <1>4 DEF Settled, Among

LEMMA ExploredStays ==
  ASSUME MaximumInv, PairingStep
  PROVE  Explored'
<1> USE DEF MaximumInv
<1>0. /\ path \in Seq(Entry) /\ looked \subseteq Option /\ taken \in Seq(Option)
      /\ path # <<>> => fresh = <<>> /\ Len(path) = Len(taken) + 1
  BY DEF PairingInv, PairingTypes, ChainHolds
<1>1. CASE LeaveOver \/ \E option \in Option : TakeFree(option)
  <2>1. path = <<>> /\ looked = {} /\ UNCHANGED <<path, looked>>
    BY <1>0, <1>1 DEF LeaveOver, TakeFree, chain, Explored
  <2> QED BY <2>1 DEF Explored
<1>2. CASE Try
  BY <1>2 DEF Try, Explored
<1>3. ASSUME NEW option \in Option, MoveOver(option) PROVE Explored'
  BY <1>3 DEF MoveOver, Explored
<1>4. ASSUME NEW option \in Option, Displace(option) PROVE Explored'
  <2>1. /\ looked' = looked \cup {option} /\ path' = Append(path, paired[option]) /\ option \in DOMAIN paired
        /\ UNCHANGED <<options, paired>>
    BY <1>4 DEF Displace, IsFree
  <2>2. path' # <<>> /\ Among(path', paired[option]) /\ \A e : Among(path, e) => Among(path', e)
    <3>1. path' # <<>> /\ Len(path) + 1 \in DOMAIN path' /\ path'[Len(path) + 1] = paired[option]
          /\ \A i \in DOMAIN path : i \in DOMAIN path' /\ path'[i] = path[i]
      BY <2>1, <1>0
    <3> QED BY <3>1 DEF Among
  <2>3. ASSUME NEW o \in looked' PROVE o \in DOMAIN paired /\ (options[paired[o]] \subseteq looked' \/ Among(path', paired[o]))
    BY <2>1, <2>2 DEF Explored
  <2> QED BY <2>1, <2>2, <2>3 DEF Explored
<1>5. CASE Backtrack
  <2>1. /\ path # <<>> /\ options[path[Len(path)]] \subseteq looked /\ UNCHANGED <<options, paired>>
        /\ path' = SubSeq(path, 1, Len(path) - 1) /\ looked' = IF Len(path) = 1 THEN {} ELSE looked
    BY <1>5 DEF Backtrack, Last
  <2>2. CASE Len(path) = 1
    BY <2>1, <2>2 DEF Explored
  <2>3. CASE Len(path) # 1
    <3>1. PICK n : n = Len(path) - 1
      OBVIOUS
    <3>2. n \in 1 .. Len(path) /\ Len(path) \in Nat
      BY <2>1, <2>3, <3>1, <1>0
    <3>3. Len(SubSeq(path, 1, n)) = n /\ (\A i \in 1 .. n : SubSeq(path, 1, n)[i] = path[i]) /\ DOMAIN SubSeq(path, 1, n) = 1 .. n
      BY <3>2, <1>0
    <3>4. path' # <<>> /\ \A i \in DOMAIN path : i # Len(path) => i \in DOMAIN path' /\ path'[i] = path[i]
      <4>1. path' = SubSeq(path, 1, n)
        BY <2>1, <3>1
      <4>2. \A i \in DOMAIN path : i # Len(path) => i \in 1 .. n
        BY <3>1, <3>2, <1>0
      <4>3. Len(path') # 0
        BY <4>1, <3>2, <3>3
      <4> QED BY <4>1, <4>2, <4>3, <3>3
    <3>5. ASSUME NEW o \in looked PROVE options[paired[o]] \subseteq looked \/ Among(path', paired[o])
      BY <2>1, <3>4 DEF Explored, Among
    <3> QED BY <2>1, <2>3, <3>4, <3>5 DEF Explored
  <2> QED BY <2>2, <2>3
<1> QED BY <1>1, <1>2, <1>3, <1>4, <1>5 DEF PairingStep

LEMMA MaximumInitHolds == PairingInit => MaximumInv
<1> SUFFICES ASSUME PairingInit PROVE MaximumInv
  OBVIOUS
<1>1. PairingInv
  BY PairingInitHolds
<1>2. Explored
  BY DEF PairingInit, NoChain, Explored
<1>3. ASSUME NEW e \in Entry PROVE e \in Entries(paired) \/ Among(fresh, e) \/ Among(waiting, e) \/ Lost(e)
  <2>1. CASE options[e] = {}
    <3>1. Closed({e})
      BY <2>1 DEF Closed
    <3> QED BY <3>1 DEF Lost
  <2>2. CASE options[e] # {}
    BY <2>2 DEF PairingInit, Tried, Among
  <2> QED BY <2>1, <2>2
<1> QED BY <1>1, <1>2, <1>3 DEF MaximumInv, Settled

LEMMA MaximumStepHolds == MaximumInv /\ [PairingStep]_pairingVars => MaximumInv'
<1> SUFFICES ASSUME MaximumInv, [PairingStep]_pairingVars PROVE MaximumInv'
  OBVIOUS
<1>1. CASE UNCHANGED pairingVars
  BY <1>1, PairingStepHolds DEF MaximumInv, pairingVars, chain, Settled, Explored, Lost, Closed, Entries, Among
<1>2. CASE PairingStep
  BY <1>2, PairingStepHolds, SettledStays, ExploredStays DEF MaximumInv
<1> QED BY <1>1, <1>2

\* Whatever pairs there are, those of a lost entry stand for a pair of another that is lost, and the others are paired.
LEMMA NoneHasMore ==
  ASSUME IsFiniteSet(Entry), MaximumInv, Paired, NEW pairs \in PairingsOf(options)
  PROVE  Cardinality(DOMAIN pairs) <= Cardinality(DOMAIN paired)
<1> DEFINE lost == {e \in Entry : Lost(e)}
           B    == Entries(paired)
           g    == [o \in DOMAIN pairs |-> IF pairs[o] \in lost THEN paired[o] ELSE pairs[o]]
<1>0. IsPairing(paired) /\ options \in [Entry -> SUBSET Option] /\ Settled
  BY DEF MaximumInv, PairingInv, PairingTypes
<1>1. /\ \A o \in DOMAIN pairs : pairs[o] \in Entry /\ o \in options[pairs[o]]
      /\ \A one, other \in DOMAIN pairs : pairs[one] = pairs[other] => one = other
  BY <1>0 DEF PairingsOf
<1>2. \A e \in Entry : e \in B \/ e \in lost
  BY <1>0 DEF Paired, Settled, Among
<1>3. ASSUME NEW e \in lost, NEW o \in options[e] PROVE o \in DOMAIN paired /\ paired[o] \in lost
  <2>1. PICK some \in SUBSET Entry : e \in some /\ Closed(some)
    BY DEF Lost
  <2>2. o \in DOMAIN paired /\ paired[o] \in some
    BY <2>1 DEF Closed
  <2> QED BY <2>1, <2>2 DEF Lost
<1>4. IsFiniteSet(B) /\ B \subseteq Entry
  <2>1. B \subseteq Entry
    BY <1>0 DEF IsPairing, Entries
  <2> QED BY <2>1, FS_Subset
<1>5. g \in Injection(DOMAIN pairs, B)
  <2>1. ASSUME NEW o \in DOMAIN pairs PROVE g[o] \in B /\ (g[o] \in lost <=> pairs[o] \in lost)
    <3>1. CASE pairs[o] \in lost
      <4>1. o \in DOMAIN paired /\ paired[o] \in lost
        BY <3>1, <1>1, <1>3
      <4>2. paired[o] \in B
        BY <4>1 DEF Entries
      <4> QED BY <3>1, <4>1, <4>2
    <3>2. CASE pairs[o] \notin lost
      BY <3>2, <1>1, <1>2
    <3> QED BY <3>1, <3>2
  <2>2. ASSUME NEW one \in DOMAIN pairs, NEW other \in DOMAIN pairs, g[one] = g[other] PROVE one = other
    <3>1. CASE pairs[one] \in lost
      <4>1. pairs[other] \in lost
        BY <2>1, <2>2, <3>1
      <4>2. one \in DOMAIN paired /\ other \in DOMAIN paired
        BY <3>1, <4>1, <1>1, <1>3
      <4>3. paired[one] = paired[other]
        BY <2>2, <3>1, <4>1
      <4> QED BY <4>2, <4>3, <1>0 DEF IsPairing
    <3>2. CASE pairs[one] \notin lost
      <4>1. pairs[other] \notin lost
        BY <2>1, <2>2, <3>2
      <4> QED BY <2>2, <3>2, <4>1, <1>1
    <3> QED BY <3>1, <3>2
  <2>3. g \in [DOMAIN pairs -> B]
    BY <2>1
  <2> HIDE DEF g
  <2> QED BY <2>2, <2>3 DEF Injection, IsInjective
<1>6. Cardinality(DOMAIN pairs) <= Cardinality(B)
  <2> HIDE DEF g, B
  <2> QED BY <1>4, <1>5, FS_Injection
<1>7. Cardinality(B) = Cardinality(DOMAIN paired)
  <2> DEFINE owner == [o \in DOMAIN paired |-> paired[o]]
  <2>1. owner \in [DOMAIN paired -> B] /\ \A o \in DOMAIN paired : owner[o] = paired[o]
    BY DEF Entries
  <2>2. \A e \in B : \E o \in DOMAIN paired : paired[o] = e
    BY DEF Entries
  <2> HIDE DEF B, owner
  <2>3. owner \in Injection(DOMAIN paired, B) /\ owner \in Surjection(DOMAIN paired, B)
    BY <2>1, <2>2, <1>0 DEF Injection, IsInjective, Surjection, IsPairing
  <2> QED BY <2>3, <1>4, FS_Injection
<1> QED BY <1>6, <1>7

\* At the end no pairing there is has more pairs: an entry that was left over, and those it could have displaced, accept
\* nothing but what these have, so no item is reported missing while another arrangement has a place for it
\* (maximum_pairing, completed_pairing).
THEOREM NoPairingIsLarger == PairingSpec => []PairingIsMaximum
<1>1. MaximumInv => PairingIsMaximum
  BY PairingAssumption, NoneHasMore DEF MaximumInv, PairingInv, PairingIsMaximum
<1> QED BY <1>1, MaximumInitHolds, MaximumStepHolds, PTL DEF PairingSpec

-----------------------------------------------------------------------------
(* One-shot reading *)

Frame == [kind : {"walk", "code"}, items : Seq(Nat)]
Read  == [items : Seq(Nat), whole : BOOLEAN]

OneShotTypes ==
  /\ given \in 0 .. Length /\ over \in BOOLEAN /\ errors \in Nat /\ links \in Nat
  /\ kept \in {"none", "open", "done"} /\ seen \in Seq(Nat) /\ givenAway \in BOOLEAN
  /\ frames \in Seq(Frame) /\ reads \subseteq Read

\* What was seen is a run of the iterator's items that ends where the iterator stands, unless the iterator was
\* handed away in the middle or is done with.
SeenIsARun ==
  /\ kept = "none" => seen = <<>>
  /\ \A i \in DOMAIN seen : seen[i] = seen[1] + i - 1
  /\ kept = "open" /\ ~givenAway /\ seen # <<>> => seen[Len(seen)] = given
  /\ givenAway => kept = "open"

\* Done means at the end, and that is after the last item if the iterator never raised.
DoneIsTheEnd ==
  /\ over => errors # 0
  /\ kept = "done" => AtEnd
  /\ kept = "done" /\ errors = 0 /\ seen # <<>> => seen[Len(seen)] = Length

\* Code that was handed the iterator with some of it read makes the chain refuse what is left.
FrameHolds(frame, state, row, away) ==
  /\ PrefixOf(frame.items, row)
  /\ frame.kind = "code" /\ state = "open" /\ frame.items # <<>> => away

ReadHolds(read, state, row) ==
  /\ PrefixOf(read.items, row)
  /\ read.whole => state = "done" /\ read.items = row

Handed ==
  /\ \A i \in DOMAIN frames : FrameHolds(frames[i], kept, seen, givenAway)
  /\ \A read \in reads : ReadHolds(read, kept, seen)

OneShotInv == OneShotTypes /\ SeenIsARun /\ DoneIsTheEnd /\ Handed

\* What is under way after a step: as before, or shown to hold on its own; and so for what was read.
FramesKept ==
  /\ frames' \in Seq(Frame)
  /\ \A i \in DOMAIN frames' :
       \/ FrameHolds(frames'[i], kept', seen', givenAway')
       \/ \E j \in DOMAIN frames : frames'[i] = frames[j]

ReadsKept == reads' \subseteq Read /\ \A read \in reads' : ReadHolds(read, kept', seen') \/ read \in reads

-----------------------------------------------------------------------------

\* The places of the shorter are places of the longer.
LEMMA ShorterIsIn ==
  ASSUME NEW one \in Seq(Nat), NEW other \in Seq(Nat), Len(one) <= Len(other)
  PROVE  \A i \in DOMAIN one : i \in DOMAIN other
<1>1. Len(one) \in Nat /\ Len(other) \in Nat /\ DOMAIN one = 1 .. Len(one) /\ DOMAIN other = 1 .. Len(other)
  OBVIOUS
<1>2. 1 .. Len(one) \subseteq 1 .. Len(other)
  BY <1>1
<1> QED BY <1>1, <1>2

LEMMA Carried ==
  ASSUME NEW one \in Seq(Nat), NEW some \in Seq(Nat), NEW more \in Seq(Nat),
         PrefixOf(one, some), PrefixOf(some, more)
  PROVE  PrefixOf(one, more)
<1>1. Len(one) <= Len(some) /\ Len(some) <= Len(more)
  BY DEF PrefixOf
<1>2. \A i \in DOMAIN one : i \in DOMAIN some /\ one[i] = some[i]
  BY <1>1, ShorterIsIn DEF PrefixOf
<1>3. \A i \in DOMAIN one : one[i] = more[i]
  BY <1>2 DEF PrefixOf
<1> QED BY <1>1, <1>3 DEF PrefixOf

LEMMA Comparable ==
  ASSUME NEW one \in Seq(Nat), NEW other \in Seq(Nat), NEW all \in Seq(Nat),
         PrefixOf(one, all), PrefixOf(other, all)
  PROVE  PrefixOf(one, other) \/ PrefixOf(other, one)
<1>1. /\ \A i \in DOMAIN one : one[i] = all[i]
      /\ \A i \in DOMAIN other : other[i] = all[i]
  BY DEF PrefixOf
<1>2. CASE Len(one) <= Len(other)
  <2>1. \A i \in DOMAIN one : i \in DOMAIN other
    BY <1>2, ShorterIsIn
  <2> QED BY <1>1, <1>2, <2>1 DEF PrefixOf
<1>3. CASE Len(other) <= Len(one)
  <2>1. \A i \in DOMAIN other : i \in DOMAIN one
    BY <1>3, ShorterIsIn
  <2> QED BY <1>1, <1>3, <2>1 DEF PrefixOf
<1> QED BY <1>2, <1>3

\* Two prefixes of the same length are one.
LEMMA SameLength ==
  ASSUME NEW one \in Seq(Nat), NEW all \in Seq(Nat), PrefixOf(one, all), Len(one) = Len(all)
  PROVE  one = all
<1>1. \A i \in DOMAIN one : one[i] = all[i]
  BY DEF PrefixOf
<1>2. DOMAIN one = 1 .. Len(one) /\ DOMAIN all = 1 .. Len(one)
  OBVIOUS
<1>3. one = [i \in 1 .. Len(one) |-> one[i]] /\ all = [i \in 1 .. Len(one) |-> all[i]]
  OBVIOUS
<1> QED BY <1>1, <1>2, <1>3

\* The frames that are left when the last one goes, and when one comes on top.
LEMMA OnePopped ==
  ASSUME frames \in Seq(Frame), frames # <<>>
  PROVE  Popped \in Seq(Frame) /\ (\A i \in DOMAIN Popped : i \in DOMAIN frames /\ Popped[i] = frames[i])
         /\ Len(frames) \in DOMAIN frames /\ Top \in Frame
BY DEF Popped, Top

LEMMA OnePushed ==
  ASSUME frames \in Seq(Frame), NEW frame \in Frame, frames' = Append(frames, frame)
  PROVE  /\ frames' \in Seq(Frame)
         /\ \A i \in DOMAIN frames' : frames'[i] = frame \/ (i \in DOMAIN frames /\ frames'[i] = frames[i])
OBVIOUS

\* Where what was seen only grows, and neither the hand-out nor the end is taken back, what is under way still holds.
LEMMA StillHolds ==
  ASSUME OneShotInv, seen' \in Seq(Nat), PrefixOf(seen, seen'), kept = "done" => seen' = seen /\ kept' = "done",
         givenAway => givenAway', kept' = "open" => kept # "done",
         kept = "none" => seen = <<>>
  PROVE  /\ \A frame \in Frame : FrameHolds(frame, kept, seen, givenAway) => FrameHolds(frame, kept', seen', givenAway')
         /\ \A read \in Read : ReadHolds(read, kept, seen) => ReadHolds(read, kept', seen')
<1> USE DEF OneShotInv, OneShotTypes
<1>1. ASSUME NEW frame \in Frame, FrameHolds(frame, kept, seen, givenAway)
      PROVE  FrameHolds(frame, kept', seen', givenAway')
  <2>1. frame.items \in Seq(Nat)
    BY DEF Frame
  <2>2. PrefixOf(frame.items, seen')
    BY <1>1, <2>1, Carried DEF FrameHolds
  <2>3. kept = "none" => frame.items = <<>>
    BY <1>1, <2>1 DEF FrameHolds, PrefixOf
  <2>4. ASSUME frame.kind = "code", kept' = "open", frame.items # <<>>
        PROVE  givenAway'
    BY <1>1, <2>3, <2>4 DEF FrameHolds
  <2> QED BY <2>2, <2>4 DEF FrameHolds
<1>2. ASSUME NEW read \in Read, ReadHolds(read, kept, seen)
      PROVE  ReadHolds(read, kept', seen')
  <2>1. read.items \in Seq(Nat)
    BY DEF Read
  <2>2. PrefixOf(read.items, seen')
    BY <1>2, <2>1, Carried DEF ReadHolds
  <2> QED BY <1>2, <2>2 DEF ReadHolds
<1> QED BY <1>1, <1>2

\* Items taken from the iterator go on where what was seen ends.
LEMMA RunGoesOn ==
  ASSUME OneShotInv, kept # "done", ~givenAway, NEW some \in 0 .. Length, given + some <= Length,
         seen' = seen \o [i \in 1 .. some |-> given + i]
  PROVE  /\ seen' \in Seq(Nat) /\ PrefixOf(seen, seen')
         /\ \A i \in DOMAIN seen' : seen'[i] = seen'[1] + i - 1
         /\ seen' # <<>> => seen # <<>> \/ some # 0
         /\ seen' # <<>> => seen'[Len(seen')] = given + some
<1> USE DEF OneShotInv, OneShotTypes
<1>0. Length \in Nat /\ given \in Nat /\ some \in Nat
  BY OneShotAssumption
<1> DEFINE new == [i \in 1 .. some |-> given + i]
<1>1. new \in Seq(Nat) /\ Len(new) = some /\ \A i \in 1 .. some : new[i] = given + i
  BY <1>0
<1> HIDE DEF new
<1>2. seen' = seen \o new
  BY DEF new
<1>3. /\ seen' \in Seq(Nat) /\ Len(seen') = Len(seen) + some
      /\ \A i \in 1 .. Len(seen) : seen'[i] = seen[i]
      /\ \A i \in Len(seen) + 1 .. Len(seen) + some : seen'[i] = given + i - Len(seen)
  <2>1. seen' \in Seq(Nat) /\ Len(seen') = Len(seen) + some
        /\ \A i \in 1 .. Len(seen') : seen'[i] = IF i <= Len(seen) THEN seen[i] ELSE new[i - Len(seen)]
    BY <1>0, <1>1, <1>2
  <2> QED BY <1>0, <1>1, <2>1
<1>4. PrefixOf(seen, seen')
  BY <1>0, <1>3 DEF PrefixOf
<1>5. CASE seen = <<>>
  BY <1>0, <1>3, <1>4, <1>5
<1>6. CASE seen # <<>>
  <2>1. /\ seen[Len(seen)] = given /\ seen[Len(seen)] = seen[1] + Len(seen) - 1
        /\ seen[1] \in Nat /\ Len(seen) \in Nat \ {0}
    BY <1>6 DEF SeenIsARun
  <2>2. seen'[1] = seen[1] /\ given = seen[1] + Len(seen) - 1
    BY <1>3, <2>1
  <2>3. \A i \in DOMAIN seen' : seen'[i] = seen'[1] + i - 1
    <3> SUFFICES ASSUME NEW i \in DOMAIN seen' PROVE seen'[i] = seen'[1] + i - 1
      OBVIOUS
    <3>1. CASE i \in 1 .. Len(seen)
      <4>1. i \in DOMAIN seen /\ seen'[i] = seen[i] /\ seen[i] = seen[1] + i - 1
        BY <3>1, <1>3 DEF SeenIsARun
      <4> QED BY <4>1, <2>2
    <3>2. CASE i \in Len(seen) + 1 .. Len(seen) + some
      <4>1. seen'[i] = given + i - Len(seen) /\ i \in Nat
        BY <3>2, <1>3
      <4>2. given + i - Len(seen) = seen[1] + i - 1
        <5>1. \A first, long, at \in Nat : (first + long - 1) + at - long = first + at - 1
          OBVIOUS
        <5>2. seen[1] \in Nat /\ Len(seen) \in Nat /\ given = seen[1] + Len(seen) - 1
          BY <2>1, <2>2
        <5> QED BY <4>1, <5>1, <5>2
      <4> QED BY <4>1, <4>2, <2>2
    <3> QED BY <1>0, <1>3, <3>1, <3>2
  <2>4. seen'[Len(seen')] = given + some
    <3>1. PICK n \in Nat : n = Len(seen) + some
      BY <1>0, <2>1
    <3>2. Len(seen') = n
      BY <1>3, <3>1
    <3>3. CASE some = 0
      <4>1. n = Len(seen) /\ n \in 1 .. Len(seen)
        BY <2>1, <3>1, <3>3
      <4>2. seen'[n] = given
        BY <4>1, <1>3, <2>1
      <4>3. given + some = given
        BY <1>0, <3>3
      <4> QED BY <3>2, <4>2, <4>3
    <3>4. CASE some # 0
      <4>1. n \in Len(seen) + 1 .. Len(seen) + some
        BY <1>0, <2>1, <3>1, <3>4
      <4>2. seen'[n] = given + n - Len(seen)
        BY <4>1, <1>3
      <4> QED BY <3>1, <3>2, <4>2, <1>0, <2>1
    <3> QED BY <3>3, <3>4
  <2> QED BY <1>3, <1>4, <1>6, <2>3, <2>4
<1> QED BY <1>5, <1>6

LEMMA AsBefore ==
  ASSUME OneShotInv
  PROVE  (reads' = reads => ReadsKept) /\ (frames' = frames => FramesKept)
BY DEF OneShotInv, OneShotTypes, ReadsKept, FramesKept

LEMMA OneRead ==
  ASSUME OneShotInv, NEW row \in Seq(Nat), NEW whole \in BOOLEAN,
         reads' = reads \cup {[items |-> row, whole |-> whole]},
         PrefixOf(row, seen'), whole => kept' = "done" /\ row = seen'
  PROVE  ReadsKept
<1> DEFINE read == [items |-> row, whole |-> whole]
<1>1. read \in Read
  BY DEF Read
<1>2. ReadHolds(read, kept', seen')
  BY DEF ReadHolds
<1> HIDE DEF read
<1>3. reads' = reads \cup {read}
  BY DEF read
<1> QED BY <1>1, <1>2, <1>3 DEF ReadsKept, OneShotInv, OneShotTypes

LEMMA TopHolds ==
  ASSUME OneShotInv, frames # <<>>
  PROVE  /\ Len(frames) \in DOMAIN frames /\ Top = frames[Len(frames)] /\ Top \in Frame
         /\ Top.items \in Seq(Nat) /\ PrefixOf(Top.items, seen)
         /\ Top.kind = "code" /\ kept = "open" /\ Top.items # <<>> => givenAway
<1>1. Len(frames) \in DOMAIN frames /\ Top = frames[Len(frames)]
  BY DEF OneShotInv, OneShotTypes, Top
<1>2. Top \in Frame /\ FrameHolds(Top, kept, seen, givenAway)
  BY <1>1 DEF OneShotInv, OneShotTypes, Handed
<1> QED BY <1>1, <1>2 DEF Frame, FrameHolds

LEMMA HandedStill ==
  ASSUME OneShotInv, seen' \in Seq(Nat), PrefixOf(seen, seen'), kept = "done" => seen' = seen /\ kept' = "done",
         givenAway => givenAway', FramesKept, ReadsKept
  PROVE  Handed'
<1> USE DEF FramesKept, ReadsKept
<1>1. kept' = "open" => kept # "done"
  OBVIOUS
<1>2. kept = "none" => seen = <<>>
  BY DEF OneShotInv, SeenIsARun
<1>3. /\ \A frame \in Frame : FrameHolds(frame, kept, seen, givenAway) => FrameHolds(frame, kept', seen', givenAway')
      /\ \A read \in Read : ReadHolds(read, kept, seen) => ReadHolds(read, kept', seen')
  BY <1>1, <1>2, StillHolds
<1>4. ASSUME NEW i \in DOMAIN frames'
      PROVE  FrameHolds(frames'[i], kept', seen', givenAway')
  <2>1. ASSUME NEW j \in DOMAIN frames, frames'[i] = frames[j]
        PROVE  FrameHolds(frames'[i], kept', seen', givenAway')
    <3>1. frames[j] \in Frame /\ FrameHolds(frames[j], kept, seen, givenAway)
      BY DEF OneShotInv, OneShotTypes, Handed
    <3>2. FrameHolds(frames[j], kept', seen', givenAway')
      BY <3>1, <1>3
    <3> QED BY <2>1, <3>2 DEF FrameHolds
  <2> QED BY <2>1
<1>5. ASSUME NEW read \in reads'
      PROVE  ReadHolds(read, kept', seen')
  BY <1>3 DEF OneShotInv, OneShotTypes, Handed
<1> QED BY <1>4, <1>5 DEF Handed

LEMMA BeginHolds ==
  ASSUME OneShotInv, Begin \/ HandOut
  PROVE  OneShotInv'
<1> USE DEF OneShotInv, OneShotTypes
<1>1. UNCHANGED <<given, over, errors, seen, reads>> /\ links' \in Nat /\ (givenAway => givenAway')
  BY DEF Begin, HandOut, NewLink, Walked, source
<1>2. PrefixOf(seen, seen')
  BY <1>1 DEF PrefixOf
<1>3. CASE Begin
  <2>1. Walk(<<>>) \in Frame /\ frames' = Append(frames, Walk(<<>>)) /\ ~givenAway /\ givenAway' = givenAway
        /\ kept' = IF kept = "none" THEN "open" ELSE kept
    BY <1>3 DEF Begin, Walked, Walk, Frame
  <2>2. FrameHolds(Walk(<<>>), kept', seen', givenAway')
    BY <1>1 DEF FrameHolds, Walk, PrefixOf
  <2>3. FramesKept
    <3>1. frames' \in Seq(Frame) /\ \A i \in DOMAIN frames' :
             frames'[i] = Walk(<<>>) \/ (i \in DOMAIN frames /\ frames'[i] = frames[i])
      BY <2>1, OnePushed
    <3> QED BY <3>1, <2>2 DEF FramesKept
  <2>4. Handed'
    BY <1>1, <1>2, <2>1, <2>3, AsBefore, HandedStill
  <2>5. SeenIsARun' /\ DoneIsTheEnd'
    BY <1>1, <2>1 DEF SeenIsARun, DoneIsTheEnd, AtEnd
  <2>6. kept' \in {"none", "open", "done"} /\ givenAway' \in BOOLEAN
    BY <2>1
  <2> QED BY <1>1, <2>1, <2>3, <2>4, <2>5, <2>6 DEF FramesKept
<1>4. CASE HandOut
  <2>1. Code(seen) \in Frame /\ frames' = Append(frames, Code(seen)) /\ kept' = kept
        /\ givenAway' = (givenAway \/ (kept = "open" /\ seen # <<>>))
    BY <1>4 DEF HandOut, Code, Frame
  <2>2. FrameHolds(Code(seen), kept', seen', givenAway')
    BY <1>1, <1>2, <2>1 DEF FrameHolds, Code, PrefixOf
  <2>3. FramesKept
    <3>1. frames' \in Seq(Frame) /\ \A i \in DOMAIN frames' :
             frames'[i] = Code(seen) \/ (i \in DOMAIN frames /\ frames'[i] = frames[i])
      BY <2>1, OnePushed
    <3> QED BY <3>1, <2>2 DEF FramesKept
  <2>4. Handed'
    BY <1>1, <1>2, <2>1, <2>3, AsBefore, HandedStill
  <2>5. givenAway' \in BOOLEAN
    BY <2>1
  <2>6. SeenIsARun' /\ DoneIsTheEnd'
    BY <1>1, <2>1 DEF SeenIsARun, DoneIsTheEnd, AtEnd
  <2> QED BY <1>1, <2>1, <2>3, <2>4, <2>5, <2>6 DEF FramesKept
<1> QED BY <1>3, <1>4

LEMMA DrainHolds ==
  ASSUME OneShotInv, Drain
  PROVE  OneShotInv'
<1> USE DEF OneShotInv, OneShotTypes
<1>0. links' \in Nat /\ frames' = frames /\ ~givenAway /\ Length \in Nat /\ given \in Nat
  BY OneShotAssumption DEF Drain, NewLink
<1>1. CASE kept = "done" /\ UNCHANGED <<source, replay>> /\ reads' = reads \cup {[items |-> seen, whole |-> TRUE]}
  <2>1. UNCHANGED <<given, over, errors, kept, seen, givenAway>> /\ PrefixOf(seen, seen')
    BY <1>1 DEF source, replay, PrefixOf
  <2>2. ReadsKept
    BY <1>1, <2>1, OneRead
  <2>3. Handed'
    BY <1>0, <2>1, <2>2, AsBefore, HandedStill
  <2> QED BY <1>0, <2>1, <2>2, <2>3 DEF ReadsKept, SeenIsARun, DoneIsTheEnd, AtEnd
<1>2. CASE /\ kept # "done" /\ kept' = "done"
           /\ seen' = seen \o [i \in 1 .. (IF over THEN 0 ELSE Length - given) |-> given + i]
           /\ given' = IF over THEN given ELSE Length
           /\ reads' = reads \cup {[items |-> seen', whole |-> TRUE]}
           /\ UNCHANGED <<givenAway, over, errors>>
  <2> DEFINE some == IF over THEN 0 ELSE Length - given
  <2>1. some \in 0 .. Length /\ given + some <= Length /\ given' = given + some /\ given' \in 0 .. Length
    BY <1>0, <1>2
  <2>2. seen' = seen \o [i \in 1 .. some |-> given + i]
    BY <1>2
  <2> HIDE DEF some
  <2>3. /\ seen' \in Seq(Nat) /\ PrefixOf(seen, seen')
        /\ \A i \in DOMAIN seen' : seen'[i] = seen'[1] + i - 1
        /\ seen' # <<>> => seen'[Len(seen')] = given + some
    BY <1>0, <1>2, <2>1, <2>2, RunGoesOn
  <2>4. PrefixOf(seen', seen')
    BY <2>3 DEF PrefixOf
  <2>5. ReadsKept
    BY <1>2, <2>3, <2>4, OneRead
  <2>6. Handed'
    BY <1>0, <1>2, <2>3, <2>5, AsBefore, HandedStill
  <2>7. ~over => given + some = Length
    BY <1>0 DEF some
  <2>8. DoneIsTheEnd'
    BY <1>2, <2>1, <2>3, <2>7 DEF DoneIsTheEnd, AtEnd
  <2> QED BY <1>0, <1>2, <2>1, <2>3, <2>5, <2>6, <2>8 DEF ReadsKept, SeenIsARun
<1>3. ASSUME NEW some \in 0 .. Length,
             kept # "done", kept' = "open", some <= Length - given,
             seen' = seen \o [i \in 1 .. some |-> given + i], given' = given + some,
             errors' = errors + 1, over' \in BOOLEAN, UNCHANGED <<givenAway, reads>>
      PROVE  OneShotInv'
  <2>1. given + some <= Length /\ given' \in 0 .. Length
    BY <1>0, <1>3
  <2>2. /\ seen' \in Seq(Nat) /\ PrefixOf(seen, seen')
        /\ \A i \in DOMAIN seen' : seen'[i] = seen'[1] + i - 1
        /\ seen' # <<>> => seen'[Len(seen')] = given + some
    BY <1>0, <1>3, <2>1, RunGoesOn
  <2>3. Handed'
    BY <1>0, <1>3, <2>2, AsBefore, HandedStill
  <2>4. DoneIsTheEnd'
    BY <1>3 DEF DoneIsTheEnd
  <2>5. SeenIsARun'
    BY <1>0, <1>3, <2>2 DEF SeenIsARun
  <2>6. errors' \in Nat
    BY <1>3
  <2> QED BY <1>0, <1>3, <2>1, <2>2, <2>3, <2>4, <2>5, <2>6
<1> QED BY <1>1, <1>2, <1>3 DEF Drain

\* The frames when the walk on top reads one more item.
LEMMA OneStepped ==
  ASSUME OneShotInv, OnTop("walk"), NEW item \in Nat, Step(item),
         seen' \in Seq(Nat), PrefixOf(Append(Top.items, item), seen')
  PROVE  FramesKept
<1> USE DEF OneShotInv, OneShotTypes
<1> DEFINE stepped == Walk(Append(Top.items, item))
<1>1. frames # <<>> /\ Len(frames) \in DOMAIN frames /\ Top = frames[Len(frames)] /\ Top.items \in Seq(Nat)
  BY TopHolds DEF OnTop
<1>2. stepped \in Frame
  BY <1>1 DEF Walk, Frame
<1>3. frames' = [frames EXCEPT ![Len(frames)] = stepped]
  BY <1>1 DEF Step, Top
<1> HIDE DEF stepped
<1>4. frames' \in Seq(Frame) /\ DOMAIN frames' = DOMAIN frames
      /\ \A i \in DOMAIN frames : frames'[i] = IF i = Len(frames) THEN stepped ELSE frames[i]
  BY <1>1, <1>2, <1>3
<1>5. FrameHolds(stepped, kept', seen', givenAway')
  BY DEF stepped, FrameHolds, Walk
<1>6. ASSUME NEW i \in DOMAIN frames'
      PROVE  FrameHolds(frames'[i], kept', seen', givenAway') \/ \E j \in DOMAIN frames : frames'[i] = frames[j]
  <2>1. CASE i = Len(frames)
    <3>1. frames'[i] = stepped
      BY <1>4, <2>1
    <3> QED BY <3>1, <1>5
  <2>2. CASE i # Len(frames)
    BY <1>4, <2>2
  <2> QED BY <2>1, <2>2
<1> QED BY <1>4, <1>6 DEF FramesKept

LEMMA WalkHolds ==
  ASSUME OneShotInv, Again \/ Take
  PROVE  OneShotInv'
<1> USE DEF OneShotInv, OneShotTypes
<1>0. /\ OnTop("walk") /\ frames # <<>> /\ Len(frames) \in DOMAIN frames /\ Top = frames[Len(frames)]
      /\ Top \in Frame /\ Top.items \in Seq(Nat) /\ PrefixOf(Top.items, seen)
  BY TopHolds DEF Again, Take, OnTop
<1>1. CASE Again
  <2>1. UNCHANGED <<given, over, errors, kept, seen, givenAway, reads, links>> /\ Len(Top.items) # Len(seen)
        /\ Step(seen[Len(Top.items) + 1])
    BY <1>1 DEF Again, Past, source, replay
  <2>2. Len(Top.items) + 1 \in DOMAIN seen /\ seen[Len(Top.items) + 1] \in Nat
    BY <1>0, <2>1 DEF PrefixOf
  <2>3. PrefixOf(Append(Top.items, seen[Len(Top.items) + 1]), seen')
    BY <1>0, <2>1, <2>2 DEF PrefixOf
  <2>4. PrefixOf(seen, seen')
    BY <2>1 DEF PrefixOf
  <2>5. FramesKept
    BY <1>0, <2>1, <2>2, <2>3, OneStepped
  <2>6. Handed'
    BY <2>1, <2>4, <2>5, AsBefore, HandedStill
  <2> QED BY <2>1, <2>5, <2>6 DEF FramesKept, SeenIsARun, DoneIsTheEnd, AtEnd
<1>2. CASE Take
  <2>1. /\ UNCHANGED <<over, errors, kept, givenAway, reads, links>> /\ Len(Top.items) = Len(seen) /\ kept = "open"
        /\ ~givenAway /\ given # Length /\ Step(given + 1) /\ given' = given + 1 /\ seen' = Append(seen, given + 1)
    BY <1>2 DEF Take, Past, AtEnd
  <2>2. Length \in Nat /\ given \in Nat /\ given + 1 \in 0 .. Length /\ 1 \in 0 .. Length
    BY <2>1, OneShotAssumption
  <2>3. seen' = seen \o [i \in 1 .. 1 |-> given + i]
    BY <2>1, <2>2
  <2>4. /\ seen' \in Seq(Nat) /\ PrefixOf(seen, seen')
        /\ \A i \in DOMAIN seen' : seen'[i] = seen'[1] + i - 1
        /\ seen' # <<>> => seen'[Len(seen')] = given + 1
    <3>1. kept # "done" /\ given + 1 <= Length
      BY <2>1, <2>2
    <3> QED BY <2>1, <2>2, <2>3, <3>1, RunGoesOn
  <2>5. Top.items = seen
    BY <1>0, <2>1, SameLength
  <2>6. PrefixOf(Append(Top.items, given + 1), seen')
    BY <2>1, <2>4, <2>5 DEF PrefixOf
  <2>7. FramesKept
    BY <1>0, <2>1, <2>2, <2>4, <2>6, OneStepped
  <2>8. Handed'
    BY <2>1, <2>4, <2>7, AsBefore, HandedStill
  <2> QED BY <2>1, <2>2, <2>4, <2>7, <2>8 DEF FramesKept, SeenIsARun, DoneIsTheEnd, AtEnd
<1> QED BY <1>1, <1>2

LEMMA EndHolds ==
  ASSUME OneShotInv, ReachEnd \/ Stop \/ Fail \/ CodeReturns
  PROVE  OneShotInv'
<1> USE DEF OneShotInv, OneShotTypes
<1>0. /\ frames # <<>> /\ frames' = Popped /\ Top = frames[Len(frames)] /\ Len(frames) \in DOMAIN frames
      /\ given' = given /\ seen' = seen /\ givenAway' = givenAway /\ links' = links
  BY DEF ReachEnd, Stop, Fail, Raises, CodeReturns, Ended, OnTop, Top, source, replay
<1>1. Top \in Frame /\ Top.items \in Seq(Nat) /\ PrefixOf(Top.items, seen) /\ PrefixOf(seen, seen')
  BY <1>0, TopHolds DEF PrefixOf
<1>2. FramesKept
  BY <1>0, OnePopped DEF FramesKept
<1>3. CASE ReachEnd
  <2>1. /\ Len(Top.items) = Len(seen) /\ over' = over /\ errors' = errors /\ kept' = "done"
        /\ reads' = reads \cup {[items |-> Top.items, whole |-> TRUE]}
        /\ kept = "done" \/ (kept = "open" /\ ~givenAway /\ AtEnd)
    BY <1>3 DEF ReachEnd, Past, Ended, source
  <2>2. Top.items = seen
    BY <1>1, <2>1, SameLength
  <2>3. ReadsKept
    BY <1>0, <1>1, <2>1, <2>2, OneRead
  <2>4. Handed'
    BY <1>0, <1>1, <1>2, <2>1, <2>3, HandedStill
  <2>5. DoneIsTheEnd'
    BY <1>0, <2>1 DEF DoneIsTheEnd, AtEnd, SeenIsARun
  <2> QED BY <1>0, <1>2, <2>1, <2>3, <2>4, <2>5 DEF FramesKept, ReadsKept, SeenIsARun
<1>4. CASE Stop \/ Fail
  <2>1. /\ kept' = kept /\ reads' = reads \cup {[items |-> Top.items, whole |-> FALSE]}
        /\ errors' \in Nat /\ over' \in BOOLEAN /\ (over' => errors' # 0)
        /\ kept = "done" => over' = over /\ errors' = errors
    BY <1>4 DEF Stop, Fail, Raises, Ended, source, replay, DoneIsTheEnd
  <2>2. ReadsKept
    BY <1>0, <1>1, <2>1, OneRead
  <2>3. Handed'
    BY <1>0, <1>1, <1>2, <2>1, <2>2, HandedStill
  <2> QED BY <1>0, <1>2, <2>1, <2>2, <2>3 DEF FramesKept, ReadsKept, SeenIsARun, DoneIsTheEnd, AtEnd
<1>5. CASE CodeReturns
  <2>1. UNCHANGED <<over, errors, kept, reads>>
    BY <1>5 DEF CodeReturns, source, replay
  <2>2. Handed'
    BY <1>0, <1>1, <1>2, <2>1, AsBefore, HandedStill
  <2> QED BY <1>0, <1>2, <2>1, <2>2 DEF FramesKept, SeenIsARun, DoneIsTheEnd, AtEnd
<1> QED BY <1>3, <1>4, <1>5

LEMMA CodeTakesHolds ==
  ASSUME OneShotInv, CodeTakes
  PROVE  OneShotInv'
<1> USE DEF OneShotInv, OneShotTypes
<1>1. /\ UNCHANGED <<over, errors, kept, seen, givenAway, frames, reads, links>> /\ given' = given + 1
      /\ frames # <<>> /\ Top = frames[Len(frames)] /\ Len(frames) \in DOMAIN frames
      /\ Top.kind = "code" /\ Top.items = seen /\ ~AtEnd
  BY TopHolds DEF CodeTakes, OnTop, replay
<1>2. given' \in 0 .. Length /\ kept # "done"
  BY <1>1, OneShotAssumption DEF AtEnd, DoneIsTheEnd
<1>3. kept = "open" /\ seen # <<>> => givenAway
  BY <1>1, TopHolds
<1>4. SeenIsARun'
  BY <1>1, <1>3 DEF SeenIsARun
<1>5. DoneIsTheEnd'
  BY <1>1, <1>2 DEF DoneIsTheEnd
<1>6. PrefixOf(seen, seen')
  BY <1>1 DEF PrefixOf
<1>7. Handed'
  BY <1>1, <1>6, AsBefore, HandedStill
<1> QED BY <1>1, <1>2, <1>4, <1>5, <1>7

LEMMA OneShotInitHolds == OneShotInit => OneShotInv
<1> SUFFICES ASSUME OneShotInit PROVE OneShotInv
  OBVIOUS
<1>1. OneShotTypes
  <2>1. <<>> \in Seq(Nat) /\ <<>> \in Seq(Frame) /\ 0 \in 0 .. Length
    BY OneShotAssumption
  <2> QED BY <2>1 DEF OneShotInit, OneShotTypes
<1>2. SeenIsARun /\ DoneIsTheEnd /\ Handed
  BY DEF OneShotInit, SeenIsARun, DoneIsTheEnd, Handed
<1> QED BY <1>1, <1>2 DEF OneShotInv

LEMMA OneShotStepHolds == OneShotInv /\ [OneShotStep]_oneShotVars => OneShotInv'
<1> SUFFICES ASSUME OneShotInv, [OneShotStep]_oneShotVars PROVE OneShotInv'
  OBVIOUS
<1>1. CASE UNCHANGED oneShotVars
  <2>1. UNCHANGED <<given, over, errors, kept, seen, givenAway, frames, reads, links>>
    BY <1>1 DEF oneShotVars, source, replay
  <2> QED BY <2>1 DEF OneShotInv, OneShotTypes, SeenIsARun, DoneIsTheEnd, AtEnd, Handed, FrameHolds, ReadHolds, PrefixOf
<1>2. CASE OneShotStep
  BY <1>2, BeginHolds, DrainHolds, WalkHolds, EndHolds, CodeTakesHolds DEF OneShotStep
<1> QED BY <1>1, <1>2

\* Every link of a chain reads the same items of a one-shot iterator, without a gap, whatever stops a walk, nests
\* links or takes from the iterator in between, and one that reads to the end has them all.
THEOREM LinksReadAlike == OneShotSpec => []WalksAlike
<1>1. ASSUME OneShotInv PROVE WalksAlike
  <2> USE <1>1 DEF OneShotInv, OneShotTypes
  <2>1. \A row \in AllReads : row \in Seq(Nat) /\ PrefixOf(row, seen)
    <3>1. \A read \in reads : read.items \in Seq(Nat) /\ PrefixOf(read.items, seen)
      BY DEF Read, Handed, ReadHolds
    <3>2. ASSUME NEW i \in DOMAIN frames
          PROVE  frames[i].items \in Seq(Nat) /\ PrefixOf(frames[i].items, seen)
      <4>1. frames[i] \in Frame /\ FrameHolds(frames[i], kept, seen, givenAway)
        BY DEF Handed
      <4> QED BY <4>1 DEF Frame, FrameHolds
    <3> QED BY <3>1, <3>2 DEF AllReads, UnderWay
  <2>2. \A one, other \in AllReads : PrefixOf(one, other) \/ PrefixOf(other, one)
    BY <2>1, Comparable
  <2>3. ASSUME NEW row \in AllReads, NEW i \in DOMAIN row
        PROVE  row[i] = row[1] + i - 1
    <3>1. i \in DOMAIN seen /\ 1 \in DOMAIN row /\ row[i] = seen[i] /\ row[1] = seen[1]
      BY <2>1, <2>3 DEF PrefixOf
    <3> QED BY <3>1 DEF SeenIsARun
  <2>4. ASSUME NEW read \in reads, read.whole
        PROVE  /\ \A row \in AllReads : PrefixOf(row, read.items)
               /\ errors = 0 /\ read.items # <<>> => read.items[Len(read.items)] = Length
    <3>1. read.items = seen /\ kept = "done"
      BY <2>4 DEF Handed, ReadHolds
    <3> QED BY <3>1, <2>1 DEF DoneIsTheEnd
  <2> QED BY <2>2, <2>3, <2>4 DEF WalksAlike
<1> QED BY <1>1, OneShotInitHolds, OneShotStepHolds, PTL DEF OneShotSpec

-----------------------------------------------------------------------------
(* Containment: what a function that goes through a sequence computes *)

LEMMA FirstOf ==
  ASSUME NEW some \in SUBSET Nat, some # {}
  PROVE  \E i \in some : \A j \in some : i <= j
<1>1. IsWellFoundedOn(Before, Nat)
  BY NatLessThanWellFounded DEF Before, OpToRel
<1>2. PICK i \in some : \A j \in some : <<j, i>> \notin Before
  BY <1>1, WFMin
<1>3. ASSUME NEW j \in some PROVE i <= j
  <2>1. ~(j < i) /\ i \in Nat /\ j \in Nat
    BY <1>2 DEF Before
  <2> QED BY <2>1
<1> QED BY <1>3

\* What holds at first, and of a number if of the one before it, holds of all.
LEMMA Upward ==
  ASSUME NEW n \in Nat, NEW G, 0 \in G, \A m \in 1 .. n : m - 1 \in G => m \in G
  PROVE  0 .. n \subseteq G
<1> DEFINE bad == (0 .. n) \ G
<1> SUFFICES ASSUME bad # {} PROVE FALSE
  OBVIOUS
<1>1. bad \in SUBSET Nat
  OBVIOUS
<1>2. PICK k \in bad : \A j \in bad : k <= j
  <2> HIDE DEF bad
  <2> QED BY <1>1, FirstOf
<1>3. k \in 1 .. n /\ k - 1 \in 0 .. n /\ k \notin G
  OBVIOUS
<1>4. k - 1 \in G
  <2> SUFFICES ASSUME k - 1 \notin G PROVE FALSE
    OBVIOUS
  <2>1. k - 1 \in bad
    BY <1>3
  <2>2. k <= k - 1
    <3> HIDE DEF bad
    <3> QED BY <1>2, <2>1
  <2>3. k \in Int
    BY <1>3
  <2> HIDE DEF bad
  <2> QED BY <2>2, <2>3
<1> QED BY <1>3, <1>4

\* A function told from nothing to n.
IsToldUpTo(f, n, T, base, step) ==
  /\ f \in [0 .. n -> T] /\ f[0] = base
  /\ \A i \in 1 .. n : f[i] = step[<<i, f[i - 1]>>]

LEMMA UpwardRecursion ==
  ASSUME NEW n \in Nat, NEW T, NEW base \in T, NEW step \in [(1 .. n) \X T -> T]
  PROVE  \E f : IsToldUpTo(f, n, T, base, step)
<1> DEFINE G == {m \in 0 .. n : \E f : IsToldUpTo(f, m, T, base, step)}
<1>1. 0 \in G
  <2> DEFINE f == [i \in 0 .. 0 |-> base]
  <2>1. f \in [0 .. 0 -> T] /\ f[0] = base /\ 1 .. 0 = {}
    OBVIOUS
  <2> HIDE DEF f
  <2>2. IsToldUpTo(f, 0, T, base, step)
    BY <2>1 DEF IsToldUpTo
  <2> QED BY <2>2
<1>2. ASSUME NEW m \in 1 .. n, m - 1 \in G PROVE m \in G
  <2>1. PICK f : IsToldUpTo(f, m - 1, T, base, step)
    BY <1>2
  <2> DEFINE g == [i \in 0 .. m |-> IF i = m THEN step[<<m, f[m - 1]>>] ELSE f[i]]
  <2>2. m - 1 \in 0 .. m - 1 /\ \A i \in 0 .. m : i = m \/ i \in 0 .. m - 1
    OBVIOUS
  <2>3. f[m - 1] \in T /\ step[<<m, f[m - 1]>>] \in T /\ f \in [0 .. m - 1 -> T]
    BY <2>1, <2>2 DEF IsToldUpTo
  <2>4. g \in [0 .. m -> T]
    BY <2>2, <2>3
  <2>5. g[0] = base
    BY <2>1 DEF IsToldUpTo
  <2>6. \A i \in 0 .. m - 1 : g[i] = f[i]
    OBVIOUS
  <2>7. g[m] = step[<<m, f[m - 1]>>]
    OBVIOUS
  <2> HIDE DEF g
  <2>8. ASSUME NEW i \in 1 .. m PROVE g[i] = step[<<i, g[i - 1]>>]
    <3>1. i - 1 \in 0 .. m - 1
      OBVIOUS
    <3>2. g[i - 1] = f[i - 1]
      BY <2>6, <3>1
    <3>3. ASSUME i = m PROVE g[i] = step[<<i, g[i - 1]>>]
      <4>1. g[m - 1] = f[m - 1]
        BY <3>2, <3>3
      <4> QED BY <2>7, <3>3, <4>1
    <3>4. ASSUME i # m PROVE g[i] = step[<<i, g[i - 1]>>]
      <4>1. i \in 1 .. m - 1 /\ i \in 0 .. m - 1
        BY <3>4
      <4> QED BY <2>1, <2>6, <3>2, <4>1 DEF IsToldUpTo
    <3> QED BY <3>3, <3>4
  <2>9. IsToldUpTo(g, m, T, base, step)
    BY <2>4, <2>5, <2>8 DEF IsToldUpTo
  <2> QED BY <2>9
<1>3. n \in G
  <2> HIDE DEF G
  <2>1. 0 .. n \subseteq G
    BY <1>1, <1>2, Upward
  <2> QED BY <2>1
<1> QED BY <1>3

-----------------------------------------------------------------------------
(* Those of a sequence *)

ThoseUpTo(seq, some, upTo) ==
  /\ upTo \in [0 .. Len(seq) -> Seq(Elements(seq))] /\ upTo[0] = <<>>
  /\ \A n \in 1 .. Len(seq) :
       upTo[n] = IF seq[n] \in some THEN Append(upTo[n - 1], seq[n]) ELSE upTo[n - 1]

LEMMA ThoseTold ==
  ASSUME NEW S, NEW seq \in Seq(S), NEW some
  PROVE  \E upTo : ThoseUpTo(seq, some, upTo) /\ Those(seq, some) = upTo[Len(seq)]
<1> DEFINE L == Len(seq)
           T == Seq(Elements(seq))
           step == [q \in (1 .. L) \X T |-> IF seq[q[1]] \in some THEN Append(q[2], seq[q[1]]) ELSE q[2]]
           P(u) == u = [n \in 0 .. L |-> IF n = 0 THEN <<>>
                                         ELSE IF seq[n] \in some THEN Append(u[n - 1], seq[n]) ELSE u[n - 1]]
           upTo == CHOOSE u : P(u)
<1>1. L \in Nat /\ <<>> \in T
  OBVIOUS
<1>2. step \in [(1 .. L) \X T -> T]
  <2> SUFFICES ASSUME NEW n \in 1 .. L, NEW r \in T PROVE Append(r, seq[n]) \in T
    OBVIOUS
  <2>1. seq[n] \in Elements(seq)
    BY DEF Elements
  <2> QED BY <2>1
<1>3. PICK f : IsToldUpTo(f, L, T, <<>>, step)
  <2> HIDE DEF step, L, T
  <2> QED BY <1>1, <1>2, UpwardRecursion
<1>4. ThoseUpTo(seq, some, f)
  <2>1. f \in [0 .. L -> T] /\ f[0] = <<>> /\ \A n \in 1 .. L : f[n] = step[<<n, f[n - 1]>>]
    BY <1>3 DEF IsToldUpTo
  <2>2. ASSUME NEW n \in 1 .. L
        PROVE  f[n] = IF seq[n] \in some THEN Append(f[n - 1], seq[n]) ELSE f[n - 1]
    <3>1. n - 1 \in 0 .. L
      BY <1>1
    <3>2. <<n, f[n - 1]>> \in (1 .. L) \X T
      BY <2>1, <3>1
    <3> QED BY <2>1, <3>2
  <2> QED BY <2>1, <2>2 DEF ThoseUpTo
<1> DEFINE F(u, n) == IF n = 0 THEN <<>> ELSE IF seq[n] \in some THEN Append(u[n - 1], seq[n]) ELSE u[n - 1]
<1>5. P(f)
  <2>1. ASSUME NEW n \in 0 .. L PROVE f[n] = F(f, n)
    <3>1. n = 0 \/ (n # 0 /\ n \in 1 .. L)
      BY <1>1
    <3> QED BY <3>1, <1>4 DEF ThoseUpTo
  <2>2. f \in [0 .. L -> T]
    BY <1>4 DEF ThoseUpTo
  <2>3. f = [n \in 0 .. L |-> F(f, n)]
    <3> HIDE DEF F, L, T
    <3> QED BY <2>1, <2>2
  <2> QED BY <2>3
<1>6. P(upTo)
  <2> HIDE DEF P
  <2> QED BY <1>5
<1>7. Those(seq, some) = upTo[L]
  BY DEF Those
<1>8. ThoseUpTo(seq, some, upTo)
  <2> HIDE DEF upTo
  <2>1. upTo = [n \in 0 .. L |-> F(upTo, n)]
    BY <1>6
  <2>2. ASSUME NEW n \in 1 .. L
        PROVE  upTo[n] = IF seq[n] \in some THEN Append(upTo[n - 1], seq[n]) ELSE upTo[n - 1]
    <3>1. n \in 0 .. L /\ n # 0
      BY <1>1
    <3>2. upTo[n] = F(upTo, n)
      <4> HIDE DEF F, L
      <4> QED BY <2>1, <3>1
    <3> QED BY <3>1, <3>2
  <2>3. 0 \in 0 .. L /\ upTo[0] = <<>>
    <3>1. 0 \in 0 .. L
      BY <1>1
    <3>2. upTo[0] = F(upTo, 0)
      <4> HIDE DEF F, L
      <4> QED BY <2>1, <3>1
    <3> QED BY <3>1, <3>2
  <2> DEFINE G == {m \in 0 .. L : upTo[m] \in T}
  <2>4. ASSUME NEW n \in 1 .. L, n - 1 \in G PROVE n \in G
    <3>1. seq[n] \in Elements(seq) /\ n \in 0 .. L
      BY DEF Elements
    <3>2. upTo[n - 1] \in T
      BY <2>4
    <3>3. Append(upTo[n - 1], seq[n]) \in T
      BY <3>1, <3>2
    <3>4. upTo[n] \in T
      <4> HIDE DEF T
      <4> QED BY <2>2, <3>2, <3>3
    <3> QED BY <3>1, <3>4
  <2>5. 0 \in G
    <3> HIDE DEF L
    <3> QED BY <1>1, <2>3
  <2>6. 0 .. L \subseteq G
    <3> HIDE DEF G, L
    <3> QED BY <1>1, <2>4, <2>5, Upward
  <2>7. upTo \in [0 .. L -> T]
    <3>1. \A n \in 0 .. L : upTo[n] \in T
      BY <2>6
    <3> HIDE DEF F, L, T
    <3> QED BY <2>1, <3>1
  <2> QED BY <2>2, <2>3, <2>7 DEF ThoseUpTo
<1> HIDE DEF upTo
<1> QED BY <1>7, <1>8

LEMMA ThoseLength ==
  ASSUME NEW S, NEW seq \in Seq(S), NEW some
  PROVE  /\ Those(seq, some) \in Seq(Elements(seq))
         /\ IsFiniteSet({i \in DOMAIN seq : seq[i] \in some})
         /\ Len(Those(seq, some)) = Cardinality({i \in DOMAIN seq : seq[i] \in some})
<1> DEFINE L == Len(seq)
           Places(m) == {i \in 1 .. m : seq[i] \in some}
<1>1. PICK upTo : ThoseUpTo(seq, some, upTo) /\ Those(seq, some) = upTo[L]
  BY ThoseTold
<1>2. L \in Nat /\ DOMAIN seq = 1 .. L
  OBVIOUS
<1>3. /\ upTo \in [0 .. L -> Seq(Elements(seq))] /\ upTo[0] = <<>>
      /\ \A n \in 1 .. L : upTo[n] = IF seq[n] \in some THEN Append(upTo[n - 1], seq[n]) ELSE upTo[n - 1]
  BY <1>1 DEF ThoseUpTo
<1> HIDE DEF L
<1> DEFINE G == {m \in 0 .. L : IsFiniteSet(Places(m)) /\ Len(upTo[m]) = Cardinality(Places(m))}
<1>4. 0 \in G
  <2>1. Places(0) = {}
    OBVIOUS
  <2>2. IsFiniteSet(Places(0)) /\ Cardinality(Places(0)) = 0
    BY <2>1, FS_EmptySet
  <2>3. Len(upTo[0]) = 0 /\ 0 \in 0 .. L
    BY <1>2, <1>3
  <2> HIDE DEF Places
  <2> QED BY <2>2, <2>3
<1>5. ASSUME NEW n \in 1 .. L, n - 1 \in G PROVE n \in G
  <2>1. IsFiniteSet(Places(n - 1)) /\ Len(upTo[n - 1]) = Cardinality(Places(n - 1)) /\ upTo[n - 1] \in Seq(Elements(seq))
    BY <1>2, <1>3, <1>5
  <2>2. n \in 0 .. L /\ n \notin Places(n - 1)
    BY <1>2
  <2>3. CASE seq[n] \in some
    <3>1. Places(n) = Places(n - 1) \cup {n}
      BY <1>2, <2>3
    <3>2. seq[n] \in Elements(seq)
      BY <1>2 DEF Elements
    <3>3. upTo[n] = Append(upTo[n - 1], seq[n])
      BY <1>3, <2>3
    <3>4. Len(upTo[n]) = Len(upTo[n - 1]) + 1
      BY <2>1, <3>2, <3>3
    <3> HIDE DEF Places
    <3>5. IsFiniteSet(Places(n)) /\ Cardinality(Places(n)) = Cardinality(Places(n - 1)) + 1
      BY <2>1, <2>2, <3>1, FS_AddElement
    <3> QED BY <2>1, <2>2, <3>4, <3>5
  <2>4. CASE seq[n] \notin some
    <3>1. Places(n) = Places(n - 1)
      BY <1>2, <2>4
    <3>2. upTo[n] = upTo[n - 1]
      BY <1>3, <2>4
    <3> HIDE DEF Places
    <3> QED BY <2>1, <2>2, <3>1, <3>2
  <2> QED BY <2>3, <2>4
<1>6. L \in G
  <2> HIDE DEF G
  <2>1. 0 .. L \subseteq G
    BY <1>2, <1>4, <1>5, Upward
  <2> QED BY <1>2, <2>1
<1>7. Places(L) = {i \in DOMAIN seq : seq[i] \in some}
  BY <1>2
<1>8. upTo[L] \in Seq(Elements(seq))
  BY <1>2, <1>3
<1> HIDE DEF Places
<1> QED BY <1>1, <1>6, <1>7, <1>8

LEMMA NoneOfThose ==
  ASSUME NEW S, NEW seq \in Seq(S), NEW some
  PROVE  Those(seq, some) = <<>> <=> \A item \in Elements(seq) : item \notin some
<1> DEFINE places == {i \in DOMAIN seq : seq[i] \in some}
<1>1. Those(seq, some) \in Seq(Elements(seq)) /\ IsFiniteSet(places) /\ Len(Those(seq, some)) = Cardinality(places)
  BY ThoseLength
<1>2. Those(seq, some) = <<>> <=> Len(Those(seq, some)) = 0
  BY <1>1
<1>3. Cardinality(places) = 0 <=> places = {}
  <2> HIDE DEF places
  <2> QED BY <1>1, FS_EmptySet
<1>4. places = {} <=> \A item \in Elements(seq) : item \notin some
  BY DEF Elements
<1> QED BY <1>1, <1>2, <1>3, <1>4

\* The numbers of the places that are in a set are as many as the set has.
LEMMA PlacesThat ==
  ASSUME NEW n \in Nat, NEW some \in SUBSET (1 .. n)
  PROVE  Len(Those([i \in 1 .. n |-> i], some)) = Cardinality(some)
<1> DEFINE seq == [i \in 1 .. n |-> i]
<1>1. seq \in Seq(1 .. n) /\ DOMAIN seq = 1 .. n /\ \A i \in 1 .. n : seq[i] = i
  OBVIOUS
<1> HIDE DEF seq
<1>2. {i \in DOMAIN seq : seq[i] \in some} = some
  BY <1>1
<1>3. Len(Those(seq, some)) = Cardinality({i \in DOMAIN seq : seq[i] \in some})
  BY <1>1, ThoseLength
<1>4. Len(Those(seq, some)) = Cardinality(some)
  BY <1>2, <1>3
<1> QED BY <1>4 DEF seq

\* Each of a set, and once.
Lists(seq, some) ==
  /\ seq \in Seq(some)
  /\ \A i \in some : \E k \in DOMAIN seq : seq[k] = i
  /\ \A j, k \in DOMAIN seq : seq[j] = seq[k] => j = k

LEMMA ListsOneMore ==
  ASSUME NEW seq, NEW some, Lists(seq, some), NEW x, x \notin some
  PROVE  Lists(Append(seq, x), some \cup {x})
<1> DEFINE longer == Append(seq, x)
<1>1. seq \in Seq(some) /\ Len(seq) \in Nat /\ DOMAIN seq = 1 .. Len(seq) /\ \A k \in DOMAIN seq : seq[k] \in some
  BY DEF Lists
<1>2. seq \in Seq(some \cup {x})
  BY <1>1
<1>3. /\ longer \in Seq(some \cup {x}) /\ DOMAIN longer = 1 .. Len(seq) + 1
      /\ \A k \in DOMAIN seq : k \in DOMAIN longer /\ longer[k] = seq[k]
      /\ longer[Len(seq) + 1] = x /\ Len(seq) + 1 \in DOMAIN longer
  BY <1>2
<1> HIDE DEF longer
<1>4. \A k \in DOMAIN longer : k \in DOMAIN seq \/ k = Len(seq) + 1
  BY <1>1, <1>3
<1>5. ASSUME NEW i \in some \cup {x} PROVE \E k \in DOMAIN longer : longer[k] = i
  BY <1>3 DEF Lists
<1>6. ASSUME NEW j \in DOMAIN longer, NEW k \in DOMAIN longer, longer[j] = longer[k] PROVE j = k
  BY <1>1, <1>3, <1>4, <1>6 DEF Lists
<1>7. Lists(longer, some \cup {x})
  BY <1>3, <1>5, <1>6 DEF Lists
<1> QED BY <1>7 DEF longer

LEMMA PlacesOf ==
  ASSUME NEW n \in Nat, NEW some \in SUBSET (1 .. n)
  PROVE  Lists(Those([i \in 1 .. n |-> i], some), some)
<1> DEFINE seq == [i \in 1 .. n |-> i]
<1>1. seq \in Seq(1 .. n) /\ Len(seq) = n /\ \A i \in 1 .. n : seq[i] = i
  OBVIOUS
<1> HIDE DEF seq
<1>2. PICK upTo : ThoseUpTo(seq, some, upTo) /\ Those(seq, some) = upTo[n]
  BY <1>1, ThoseTold
<1>3. /\ upTo[0] = <<>>
      /\ \A m \in 1 .. n : upTo[m] = IF m \in some THEN Append(upTo[m - 1], m) ELSE upTo[m - 1]
  BY <1>1, <1>2 DEF ThoseUpTo
<1> DEFINE G == {m \in 0 .. n : Lists(upTo[m], some \cap (1 .. m))}
<1>4. 0 \in G
  <2>1. some \cap (1 .. 0) = {}
    OBVIOUS
  <2>2. Lists(<<>>, {})
    BY DEF Lists
  <2> QED BY <1>3, <2>1, <2>2
<1>5. ASSUME NEW m \in 1 .. n, m - 1 \in G PROVE m \in G
  <2>1. Lists(upTo[m - 1], some \cap (1 .. m - 1)) /\ m \in 0 .. n /\ m \notin some \cap (1 .. m - 1)
    BY <1>5
  <2>2. CASE m \in some
    <3>1. some \cap (1 .. m) = (some \cap (1 .. m - 1)) \cup {m}
      BY <2>2
    <3>2. upTo[m] = Append(upTo[m - 1], m)
      BY <1>3, <2>2
    <3>3. Lists(upTo[m], some \cap (1 .. m))
      BY <2>1, <3>1, <3>2, ListsOneMore
    <3> QED BY <2>1, <3>3
  <2>3. CASE m \notin some
    <3>1. some \cap (1 .. m) = some \cap (1 .. m - 1)
      BY <2>3
    <3>2. upTo[m] = upTo[m - 1]
      BY <1>3, <2>3
    <3> QED BY <2>1, <3>1, <3>2
  <2> QED BY <2>2, <2>3
<1>6. n \in G
  <2> HIDE DEF G
  <2>1. 0 .. n \subseteq G
    BY <1>4, <1>5, Upward
  <2> QED BY <2>1
<1>7. some \cap (1 .. n) = some
  OBVIOUS
<1>8. Lists(Those(seq, some), some)
  BY <1>2, <1>6, <1>7
<1> QED BY <1>8 DEF seq

\* An element that is one of them is found among them.
LEMMA ThoseHas ==
  ASSUME NEW S, NEW seq \in Seq(S), NEW some, NEW item \in Elements(seq), item \in some
  PROVE  item \in Elements(Those(seq, some))
<1> DEFINE L == Len(seq)
<1>1. PICK upTo : ThoseUpTo(seq, some, upTo) /\ Those(seq, some) = upTo[L]
  BY ThoseTold
<1>2. PICK i \in 1 .. L : seq[i] = item
  BY DEF Elements
<1>3. L \in Nat /\ upTo \in [0 .. L -> Seq(Elements(seq))] /\ seq \in [1 .. L -> Elements(seq)]
      /\ \A n \in 1 .. L : upTo[n] = IF seq[n] \in some THEN Append(upTo[n - 1], seq[n]) ELSE upTo[n - 1]
  BY <1>1 DEF ThoseUpTo, Elements
<1> HIDE DEF L
<1> DEFINE G == {m \in 0 .. L : m >= i => item \in Elements(upTo[m])}
<1>4. 0 \in G
  BY <1>2, <1>3
<1>5. ASSUME NEW n \in 1 .. L, n - 1 \in G PROVE n \in G
  <2>1. upTo[n - 1] \in Seq(Elements(seq)) /\ seq[n] \in Elements(seq) /\ n \in 0 .. L
    BY <1>3
  <2>2. n >= i => n = i \/ n - 1 >= i
    BY <1>2
  <2>3. Append(upTo[n - 1], seq[n])[Len(upTo[n - 1]) + 1] = seq[n]
        /\ Len(upTo[n - 1]) + 1 \in DOMAIN Append(upTo[n - 1], seq[n])
        /\ \A k \in DOMAIN upTo[n - 1] : k \in DOMAIN Append(upTo[n - 1], seq[n]) /\ Append(upTo[n - 1], seq[n])[k] = upTo[n - 1][k]
    BY <2>1
  <2>4. CASE n = i
    <3>1. upTo[n] = Append(upTo[n - 1], seq[n]) /\ seq[n] = item
      BY <1>2, <1>3, <2>4
    <3> QED BY <2>1, <2>3, <3>1 DEF Elements
  <2>5. CASE n - 1 >= i
    <3>1. item \in Elements(upTo[n - 1])
      BY <1>5, <2>5
    <3>2. item \in Elements(Append(upTo[n - 1], seq[n]))
      BY <2>3, <3>1 DEF Elements
    <3>3. item \in Elements(upTo[n])
      BY <1>3, <3>1, <3>2
    <3> QED BY <2>1, <3>3
  <2> QED BY <2>1, <2>2, <2>4, <2>5
<1>6. L \in G
  <2> HIDE DEF G
  <2>1. 0 .. L \subseteq G
    BY <1>3, <1>4, <1>5, Upward
  <2> QED BY <1>3, <2>1
<1> QED BY <1>1, <1>2, <1>6

LEMMA ElementsOfAppend ==
  ASSUME NEW S, NEW seq \in Seq(S), NEW x \in S
  PROVE  Elements(Append(seq, x)) = Elements(seq) \cup {x}
<1>1. /\ DOMAIN seq = 1 .. Len(seq) /\ Len(seq) \in Nat /\ DOMAIN Append(seq, x) = 1 .. Len(seq) + 1
      /\ \A k \in 1 .. Len(seq) : Append(seq, x)[k] = seq[k]
      /\ Append(seq, x)[Len(seq) + 1] = x
  OBVIOUS
<1>2. \A k \in 1 .. Len(seq) + 1 : k \in 1 .. Len(seq) \/ k = Len(seq) + 1
  BY <1>1
<1>3. (\A k \in 1 .. Len(seq) : k \in 1 .. Len(seq) + 1) /\ Len(seq) + 1 \in 1 .. Len(seq) + 1
  BY <1>1
<1> QED BY <1>1, <1>2, <1>3 DEF Elements

-----------------------------------------------------------------------------
(* Answers that a hash and a walk give alike *)

LEMMA SameBack == \A one, other : Same(one, other) <=> Same(other, one)
<1> SUFFICES ASSUME NEW one, NEW other, Same(one, other) PROVE Same(other, one)
  OBVIOUS
<1>1. CASE one = other
  BY <1>1 DEF Same
<1>2. CASE <<one, other>> \in Equal
  <2>1. <<<<one, other>>[2], <<one, other>>[1]>> \in Equal
    BY <1>2, MembershipAssumption
  <2> QED BY <2>1 DEF Same
<1> QED BY <1>1, <1>2 DEF Same

\* What a search among the elements has to be sure of before it looks by hash.
SureOf(item, container, hashed) == hashed => {item} \cup Elements(container) \subseteq Safe \ Refuses

PlacesOfItem(item, container) == {i \in DOMAIN container : Same(container[i], item)}

LEMMA HashedAlike ==
  ASSUME NEW item, NEW container, NEW hashed \in BOOLEAN, SureOf(item, container, hashed)
  PROVE  /\ Held(item, container, hashed) <=> PlacesOfItem(item, container) # {}
         /\ Count(container, item, hashed) = Times(item, container)
<1>1. ASSUME NEW i \in DOMAIN container, Same(container[i], item), hashed PROVE Bucket[container[i]] = Bucket[item]
  <2>1. container[i] \in Safe \ Refuses /\ item \in Safe \ Refuses
    BY <1>1 DEF SureOf, Elements
  <2> QED BY <1>1, <2>1, MembershipAssumption
<1>2. {i \in DOMAIN container : Same(container[i], item) /\ (hashed => Bucket[container[i]] = Bucket[item])}
        = {i \in DOMAIN container : Same(container[i], item)}
  BY <1>1
<1> QED BY <1>1, <1>2 DEF Held, Count, Times, PlacesOfItem

LEMMA TimesType ==
  ASSUME NEW S, NEW seq \in Seq(S), NEW item
  PROVE  /\ Times(item, seq) \in Nat /\ IsFiniteSet(PlacesOfItem(item, seq))
         /\ Times(item, seq) = Cardinality(PlacesOfItem(item, seq))
         /\ Times(item, seq) = 0 <=> PlacesOfItem(item, seq) = {}
<1> DEFINE places == PlacesOfItem(item, seq)
<1>1. Times(item, seq) = Cardinality(places)
  BY DEF Times, PlacesOfItem
<1>2. places \subseteq 1 .. Len(seq) /\ Len(seq) \in Nat
  BY DEF PlacesOfItem
<1>3. IsFiniteSet(1 .. Len(seq))
  BY <1>2, FS_Interval
<1> HIDE DEF places
<1>4. IsFiniteSet(places)
  BY <1>2, <1>3, FS_Subset
<1>5. Cardinality(places) \in Nat /\ (Cardinality(places) = 0 <=> places = {})
  BY <1>4, FS_CardinalityType, FS_EmptySet
<1> QED BY <1>1, <1>4, <1>5 DEF places

LEMMA CollectionTypes ==
  ASSUME NEW container \in Collections
  PROVE  /\ container \in Seq(Object \ Matcher) /\ Len(container) \in 0 .. MaxValues
         /\ DOMAIN container = 1 .. Len(container) /\ container \in Seq(Object) /\ Len(container) \in Nat
<1>1. PICK k \in 0 .. MaxValues : container \in [1 .. k -> Object \ Matcher]
  BY DEF Collections, SeqsUpTo
<1>2. k \in Nat /\ MaxValues \in Nat
  BY ContainmentAssumption
<1>3. container \in Seq(Object \ Matcher) /\ Len(container) = k
  BY <1>1, <1>2
<1> QED BY <1>1, <1>2, <1>3

LEMMA AskedTypes ==
  ASSUME NEW wanted \in Asked
  PROVE  /\ wanted \in Seq(Object) /\ Len(wanted) \in 1 .. MaxItems /\ DOMAIN wanted = 1 .. Len(wanted)
         /\ Len(wanted) \in Nat /\ (Len(wanted) = 1 \/ Len(wanted) > 1) /\ 1 \in DOMAIN wanted
<1>1. PICK k \in 0 .. MaxItems : wanted \in [1 .. k -> Object]
  BY DEF Asked, SeqsUpTo
<1>2. k \in Nat /\ MaxItems \in Nat
  BY ContainmentAssumption
<1>3. wanted \in Seq(Object) /\ Len(wanted) = k
  BY <1>1, <1>2
<1>4. Len(wanted) # 0
  BY <1>3 DEF Asked
<1>5. k = 1 \/ k > 1
  BY <1>2, <1>3, <1>4
<1> QED BY <1>1, <1>2, <1>3, <1>4, <1>5

LEMMA IndexedIsSure ==
  ASSUME NEW container, NEW probes, NEW item \in Elements(probes)
  PROVE  SureOf(item, container, Indexed(container, probes)) /\ Indexed(container, probes) \in BOOLEAN
BY DEF SureOf, Indexed, AllSafe, Hashes, WorthHashing

\* Where there is no matcher, nothing is held that is not absent.
LEMMA AbsentIs ==
  ASSUME NEW S, NEW seq \in Seq(S), NEW item, item \notin Matcher
  PROVE  Absent(item, seq) <=> PlacesOfItem(item, seq) = {}
BY TimesType DEF Absent

LEMMA MatcherAbsent ==
  ASSUME NEW item \in Matcher, NEW seq \in Seq(Object \ Matcher)
  PROVE  Absent(item, seq) <=> PlacesOfItem(item, seq) = {}
<1>1. \A i \in DOMAIN seq : seq[i] \in Object \ Matcher
  OBVIOUS
<1>2. \A i \in DOMAIN seq : Same(seq[i], item) <=> <<item, seq[i]>> \in Accepts
  BY <1>1, MembershipAssumption
<1> QED BY <1>2 DEF Absent, Matched, PlacesOfItem

LEMMA ThoseOfOne ==
  ASSUME NEW S, NEW seq \in Seq(S), Len(seq) = 1, NEW some
  PROVE  Those(seq, some) = IF seq[1] \in some THEN seq ELSE <<>>
<1>1. PICK upTo : ThoseUpTo(seq, some, upTo) /\ Those(seq, some) = upTo[1]
  BY ThoseTold
<1>2. upTo[1] = IF seq[1] \in some THEN Append(upTo[0], seq[1]) ELSE upTo[0]
  <2>1. 1 \in 1 .. Len(seq) /\ 1 - 1 = 0
    OBVIOUS
  <2> QED BY <1>1, <2>1 DEF ThoseUpTo
<1>3. upTo[0] = <<>>
  BY <1>1 DEF ThoseUpTo
<1>4. Append(<<>>, seq[1]) = seq
  OBVIOUS
<1> QED BY <1>1, <1>2, <1>3, <1>4

LEMMA MissingIs ==
  ASSUME NEW container \in Collections, NEW wanted \in Asked
  PROVE  MissingItems(container, wanted) = Those(wanted, AbsentFrom(wanted, container))
<1> DEFINE hashed == Indexed(container, wanted)
           missing == {item \in Elements(wanted) : IF item \in Matcher THEN ~Matched(item, container)
                                                    ELSE ~Held(item, container, hashed)}
<1>1. ASSUME NEW item \in Elements(wanted), item \notin Matcher PROVE Absent(item, container) <=> ~Held(item, container, hashed)
  BY <1>1, CollectionTypes, IndexedIsSure, HashedAlike, AbsentIs
<1>2. \A item \in Matcher : Absent(item, container) <=> ~Matched(item, container)
  BY DEF Absent
<1>3. missing = AbsentFrom(wanted, container)
  <2> HIDE DEF hashed
  <2> QED BY <1>1, <1>2 DEF AbsentFrom
<1>4. MissingItems(container, wanted) = Those(wanted, missing)
  BY DEF MissingItems
<1> QED BY <1>3, <1>4

LEMMA ContainsIs ==
  ASSUME NEW container \in Collections, NEW wanted \in Asked
  PROVE  Contains(container, wanted) =
           Answer(Those(wanted, AbsentFrom(wanted, container)) = <<>>, Those(wanted, AbsentFrom(wanted, container)), <<>>)
<1> DEFINE there == IF wanted[1] \in Matcher THEN Matched(wanted[1], container) ELSE Member(wanted[1], container)
           missing == IF Len(wanted) > 1 THEN MissingItems(container, wanted) ELSE IF there THEN <<>> ELSE wanted
           those == Those(wanted, AbsentFrom(wanted, container))
<1>1. Contains(container, wanted) = Answer(missing = <<>>, missing, <<>>)
  BY DEF Contains
<1>2. wanted \in Seq(Object) /\ 1 \in DOMAIN wanted /\ Len(wanted) \in Nat /\ (Len(wanted) = 1 \/ Len(wanted) > 1)
  BY AskedTypes
<1>3. ASSUME Len(wanted) > 1 PROVE missing = those
  BY <1>3, MissingIs
<1>4. ASSUME Len(wanted) = 1 PROVE missing = those
  <2>1. those = IF wanted[1] \in AbsentFrom(wanted, container) THEN wanted ELSE <<>>
    BY <1>2, <1>4, ThoseOfOne
  <2>2. wanted[1] \in AbsentFrom(wanted, container) <=> Absent(wanted[1], container)
    BY <1>2 DEF AbsentFrom, Elements
  <2>3. Absent(wanted[1], container) <=> ~there
    <3>1. CASE wanted[1] \in Matcher
      BY <3>1 DEF Absent
    <3>2. CASE wanted[1] \notin Matcher
      <4>1. SureOf(wanted[1], container, FALSE)
        BY DEF SureOf
      <4> QED BY <3>2, <4>1, HashedAlike, AbsentIs, CollectionTypes DEF Member
    <3> QED BY <3>1, <3>2
  <2>4. missing = IF there THEN <<>> ELSE wanted
    <3>1. ~(Len(wanted) > 1)
      BY <1>4
    <3> QED BY <3>1
  <2> HIDE DEF there, those, missing
  <2> QED BY <2>1, <2>2, <2>3, <2>4
<1>5. missing = those
  <2> HIDE DEF missing, those
  <2> QED BY <1>2, <1>3, <1>4
<1> HIDE DEF missing
<1> QED BY <1>1, <1>5

LEMMA DoesNotContainIs ==
  ASSUME NEW container \in Collections, NEW wanted \in Asked
  PROVE  LET present == Those(wanted, Elements(wanted) \ AbsentFrom(wanted, container))
         IN  DoesNotContain(container, wanted) = Answer(present = <<>>, present, <<>>)
<1> DEFINE probes == Those(wanted, Object \ Matcher)
           hashed == Len(probes) > 1 /\ Indexed(container, probes)
           found  == {item \in Elements(wanted) : IF item \in Matcher THEN Matched(item, container)
                                                  ELSE Held(item, container, hashed)}
<1>1. wanted \in Seq(Object) /\ container \in Seq(Object \ Matcher)
  BY AskedTypes, CollectionTypes
<1>2. ASSUME NEW item \in Elements(wanted), item \notin Matcher PROVE item \in Elements(probes)
  <2>1. item \in Object \ Matcher
    BY <1>1, <1>2 DEF Elements
  <2> QED BY <1>1, <2>1, ThoseHas
<1>3. ASSUME NEW item \in Elements(wanted), item \notin Matcher PROVE Absent(item, container) <=> ~Held(item, container, hashed)
  <2>1. SureOf(item, container, Indexed(container, probes))
    <3> HIDE DEF probes
    <3> QED BY <1>2, <1>3, IndexedIsSure
  <2>2. SureOf(item, container, hashed) /\ hashed \in BOOLEAN
    <3> HIDE DEF probes
    <3> QED BY <2>1 DEF SureOf
  <2> HIDE DEF hashed
  <2> QED BY <1>1, <1>3, <2>2, HashedAlike, AbsentIs
<1>4. \A item \in Matcher : Absent(item, container) <=> ~Matched(item, container)
  BY DEF Absent
<1>5. found = Elements(wanted) \ AbsentFrom(wanted, container)
  <2> HIDE DEF hashed
  <2> QED BY <1>3, <1>4 DEF AbsentFrom
<1>6. DoesNotContain(container, wanted) = Answer(Those(wanted, found) = <<>>, Those(wanted, found), <<>>)
  BY DEF DoesNotContain
<1> HIDE DEF found
<1> QED BY <1>5, <1>6

LEMMA WithoutIs ==
  ASSUME NEW seq, NEW other, NEW hashed \in BOOLEAN,
         \A item \in Elements(seq) : SureOf(item, other, hashed),
         \A item \in Elements(seq) : Absent(item, other) <=> PlacesOfItem(item, other) = {}
  PROVE  Without(seq, other, hashed) = Those(seq, AbsentFrom(seq, other))
<1>1. ASSUME NEW item \in Elements(seq) PROVE Absent(item, other) <=> ~Held(item, other, hashed)
  BY <1>1, HashedAlike
<1>2. {item \in Elements(seq) : ~Held(item, other, hashed)} = AbsentFrom(seq, other)
  BY <1>1 DEF AbsentFrom
<1> QED BY <1>2 DEF Without

LEMMA ContainsOnlyIs ==
  ASSUME NEW container \in Collections, NEW wanted \in Asked
  PROVE  LET extra   == Those(container, AbsentFrom(container, wanted))
             missing == Those(wanted, AbsentFrom(wanted, container))
         IN  ContainsOnly(container, wanted) = Answer(extra = <<>> /\ missing = <<>>, extra, missing)
<1> DEFINE hashed  == Indexed(wanted, container)
           extra   == Those(container, AbsentFrom(container, wanted))
           missing == Those(wanted, AbsentFrom(wanted, container))
<1>1. wanted \in Seq(Object) /\ container \in Seq(Object \ Matcher) /\ container \in Seq(Object)
  BY AskedTypes, CollectionTypes
<1>2. hashed \in BOOLEAN /\ (hashed => Elements(container) \cup Elements(wanted) \subseteq Safe \ Refuses)
  BY DEF Indexed, AllSafe, Hashes, WorthHashing
<1> HIDE DEF hashed
<1>3. \A item \in Elements(container) : item \notin Matcher
  BY <1>1 DEF Elements
<1>4. Without(container, wanted, hashed) = extra
  <2>1. \A item \in Elements(container) : SureOf(item, wanted, hashed)
    BY <1>2 DEF SureOf
  <2>2. \A item \in Elements(container) : Absent(item, wanted) <=> PlacesOfItem(item, wanted) = {}
    BY <1>1, <1>3, AbsentIs
  <2> QED BY <1>1, <1>2, <2>1, <2>2, WithoutIs
<1>5. Without(wanted, container, hashed) = missing
  <2>1. \A item \in Elements(wanted) : SureOf(item, container, hashed)
    BY <1>2 DEF SureOf
  <2>2. \A item \in Elements(wanted) : Absent(item, container) <=> PlacesOfItem(item, container) = {}
    BY <1>1, AbsentIs, MatcherAbsent
  <2> QED BY <1>1, <1>2, <2>1, <2>2, WithoutIs
<1>6. OnlyFaults(container, wanted) = <<extra, missing>>
  BY <1>4, <1>5 DEF OnlyFaults, hashed
<1> HIDE DEF extra, missing
<1>7. ContainsOnly(container, wanted) = Answer(<<extra, missing>> = <<<<>>, <<>>>>, extra, missing)
  <2> DEFINE faults == OnlyFaults(container, wanted)
  <2>1. ContainsOnly(container, wanted) = Answer(faults = <<<<>>, <<>>>>, faults[1], faults[2])
    BY DEF ContainsOnly
  <2>2. faults = <<extra, missing>> /\ faults[1] = extra /\ faults[2] = missing
    BY <1>6
  <2> HIDE DEF faults
  <2> QED BY <2>1, <2>2
<1>8. (<<extra, missing>> = <<<<>>, <<>>>>) = (extra = <<>> /\ missing = <<>>)
  OBVIOUS
<1>9. ContainsOnly(container, wanted) = Answer(extra = <<>> /\ missing = <<>>, extra, missing)
  BY <1>7, <1>8
<1> QED BY <1>9 DEF extra, missing

LEMMA IsSubsetIs ==
  ASSUME NEW container \in Collections, NEW wanted \in Asked
  PROVE  LET missing == Those(container, AbsentFrom(container, wanted))
         IN  IsSubsetOf(container, wanted) = Answer(missing = <<>>, missing, <<>>)
<1>1. wanted \in Seq(Object) /\ container \in Seq(Object \ Matcher)
  BY AskedTypes, CollectionTypes
<1>2. \A item \in Elements(container) : item \notin Matcher
  BY <1>1 DEF Elements
<1>3. Indexed(wanted, container) \in BOOLEAN /\ \A item \in Elements(container) : SureOf(item, wanted, Indexed(wanted, container))
  BY IndexedIsSure DEF Indexed, Hashes, AllSafe, WorthHashing
<1>4. \A item \in Elements(container) : Absent(item, wanted) <=> PlacesOfItem(item, wanted) = {}
  BY <1>1, <1>2, AbsentIs
<1>5. Without(container, wanted, Indexed(wanted, container)) = Those(container, AbsentFrom(container, wanted))
  BY <1>1, <1>3, <1>4, WithoutIs
<1> QED BY <1>5 DEF IsSubsetOf, NotContainedIn

LEMMA IsInIs ==
  ASSUME NEW value \in Object \ Matcher, NEW wanted \in Asked
  PROVE  IsIn(value, wanted) = Answer(~Absent(value, wanted), <<>>, <<>>)
<1>1. SureOf(value, wanted, FALSE) /\ wanted \in Seq(Object)
  BY AskedTypes DEF SureOf
<1>2. Held(value, wanted, FALSE) <=> ~Absent(value, wanted)
  BY <1>1, HashedAlike, AbsentIs
<1>3. Held(value, wanted, FALSE) = ~Absent(value, wanted)
  BY <1>2 DEF Held, Absent, Matched
<1> QED BY <1>3 DEF IsIn, Member

LEMMA OnlyOnceIs ==
  ASSUME NEW container \in Collections, NEW wanted \in Asked
  PROVE  LET missing  == Those(wanted, {item \in Elements(wanted) : Times(item, container) = 0})
             repeated == Those(wanted, {item \in Elements(wanted) : Times(item, container) > 1})
             once     == \A item \in Elements(wanted) : Times(item, container) = 1
         IN  ContainsOnlyOnce(container, wanted) = Answer(once, missing, repeated)
<1> DEFINE hashed   == Indexed(container, wanted)
           missing  == Those(wanted, {item \in Elements(wanted) : Times(item, container) = 0})
           repeated == Those(wanted, {item \in Elements(wanted) : Times(item, container) > 1})
           once     == \A item \in Elements(wanted) : Times(item, container) = 1
<1>1. wanted \in Seq(Object) /\ container \in Seq(Object)
  BY AskedTypes, CollectionTypes
<1>2. \A item \in Elements(wanted) : Count(container, item, hashed) = Times(item, container)
  BY IndexedIsSure, HashedAlike
<1>3. \A item \in Elements(wanted) : Times(item, container) \in Nat
  BY <1>1, TimesType
<1>4. {item \in Elements(wanted) : Count(container, item, hashed) = 0} = {item \in Elements(wanted) : Times(item, container) = 0}
  BY <1>2
<1>5. {item \in Elements(wanted) : Count(container, item, hashed) > 1} = {item \in Elements(wanted) : Times(item, container) > 1}
  BY <1>2
<1>6. ContainsOnlyOnce(container, wanted) = Answer(missing = <<>> /\ repeated = <<>>, missing, repeated)
  BY <1>4, <1>5 DEF ContainsOnlyOnce
<1>7. missing = <<>> <=> \A item \in Elements(wanted) : Times(item, container) # 0
  BY <1>1, NoneOfThose
<1>8. repeated = <<>> <=> \A item \in Elements(wanted) : ~(Times(item, container) > 1)
  BY <1>1, NoneOfThose
<1>9. \A item \in Elements(wanted) : Times(item, container) = 1 <=> Times(item, container) # 0 /\ ~(Times(item, container) > 1)
  BY <1>3
<1>10. (missing = <<>> /\ repeated = <<>>) = once
  <2> HIDE DEF missing, repeated
  <2> QED BY <1>7, <1>8, <1>9
<1> HIDE DEF missing, repeated, once
<1>11. ContainsOnlyOnce(container, wanted) = Answer(once, missing, repeated)
  BY <1>6, <1>10
<1> QED BY <1>11 DEF missing, repeated, once

LEMMA DuplicatesAre ==
  ASSUME NEW seq \in Collections
  PROVE  HasDuplicates(seq) <=> ~ \A i, j \in DOMAIN seq : Same(seq[i], seq[j]) => i = j
<1>1. \A i, j \in DOMAIN seq : i \in Nat /\ j \in Nat
  BY CollectionTypes
<1>2. ASSUME NEW i \in DOMAIN seq, NEW j \in DOMAIN seq, Same(seq[i], seq[j]), Counted(Elements(seq))
      PROVE  Bucket[seq[i]] = Bucket[seq[j]]
  <2>1. seq[i] \in Safe \ Refuses /\ seq[j] \in Safe \ Refuses
    BY <1>2 DEF Counted, Elements, Hashes
  <2> QED BY <1>2, <2>1, MembershipAssumption
<1>3. HasDuplicates(seq) <=> \E i, j \in DOMAIN seq : i < j /\ Same(seq[i], seq[j])
  BY <1>2 DEF HasDuplicates
<1>4. \A i, j \in DOMAIN seq : i # j => i < j \/ j < i
  BY <1>1
<1>5. \A i, j \in DOMAIN seq : i < j => i # j
  BY <1>1
<1> QED BY <1>3, <1>4, <1>5, SameBack

\* The first n elements: each that is there more than once is named, with how often, and nothing else.
RepeatsOf(seq, n, named) ==
  /\ \A pair \in Elements(named) : pair[2] > 1 /\ pair[2] = Times(pair[1], seq)
  /\ \A i \in 1 .. n : Times(seq[i], seq) > 1 => \E pair \in Elements(named) : Same(pair[1], seq[i])

Known(named, value) == \E k \in DOMAIN named : Same(named[k][1], value)

RepeatedUpTo(seq, named) ==
  /\ named \in [0 .. Len(seq) -> Seq(Elements(seq) \X Nat)] /\ named[0] = <<>>
  /\ \A n \in 1 .. Len(seq) :
       named[n] = IF Times(seq[n], seq) > 1 /\ ~Known(named[n - 1], seq[n])
                  THEN Append(named[n - 1], <<seq[n], Times(seq[n], seq)>>) ELSE named[n - 1]

LEMMA RepeatedTold ==
  ASSUME NEW seq \in Collections
  PROVE  \E named : RepeatedUpTo(seq, named) /\ RepeatedCounts(seq) = named[Len(seq)]
<1> DEFINE L == Len(seq)
           T == Seq(Elements(seq) \X Nat)
           hashed == Counted(Elements(seq))
           total(i) == Count(seq, seq[i], hashed)
           F(u, n) == IF n = 0 THEN <<>>
                      ELSE IF total(n) > 1 /\ ~Known(u[n - 1], seq[n])
                           THEN Append(u[n - 1], <<seq[n], total(n)>>) ELSE u[n - 1]
           step == [q \in (1 .. L) \X T |-> IF total(q[1]) > 1 /\ ~Known(q[2], seq[q[1]])
                                            THEN Append(q[2], <<seq[q[1]], total(q[1])>>) ELSE q[2]]
           P(u) == u = [n \in 0 .. L |-> F(u, n)]
           named == CHOOSE u : P(u)
<1>1. L \in Nat /\ <<>> \in T /\ seq \in Seq(Object)
  BY CollectionTypes
<1>2. ASSUME NEW n \in 1 .. L PROVE total(n) = Times(seq[n], seq) /\ total(n) \in Nat /\ <<seq[n], total(n)>> \in Elements(seq) \X Nat
  <2>1. seq[n] \in Elements(seq)
    BY <1>1 DEF Elements
  <2>2. hashed \in BOOLEAN /\ SureOf(seq[n], seq, hashed)
    BY <2>1 DEF SureOf, Counted, Hashes
  <2>3. total(n) = Times(seq[n], seq)
    <3> HIDE DEF hashed
    <3> QED BY <2>2, HashedAlike
  <2>4. Times(seq[n], seq) \in Nat
    BY <1>1, TimesType
  <2> HIDE DEF total
  <2> QED BY <2>1, <2>3, <2>4
<1>3. step \in [(1 .. L) \X T -> T]
  <2> SUFFICES ASSUME NEW n \in 1 .. L, NEW row \in T PROVE Append(row, <<seq[n], total(n)>>) \in T
    <3> HIDE DEF total, L, T
    <3> QED OBVIOUS
  <2>1. <<seq[n], total(n)>> \in Elements(seq) \X Nat
    BY <1>2
  <2> HIDE DEF total
  <2> QED BY <2>1
<1>4. PICK f : IsToldUpTo(f, L, T, <<>>, step)
  <2> HIDE DEF step, L, T
  <2> QED BY <1>1, <1>3, UpwardRecursion
<1>5. P(f)
  <2>1. f \in [0 .. L -> T] /\ f[0] = <<>> /\ \A n \in 1 .. L : f[n] = step[<<n, f[n - 1]>>]
    BY <1>4 DEF IsToldUpTo
  <2>2. ASSUME NEW n \in 0 .. L PROVE f[n] = F(f, n)
    <3>1. CASE n = 0
      BY <2>1, <3>1
    <3>2. CASE n # 0
      <4>1. n \in 1 .. L /\ n - 1 \in 0 .. L
        BY <1>1, <3>2
      <4>2. <<n, f[n - 1]>> \in (1 .. L) \X T
        BY <2>1, <4>1
      <4>3. f[n] = step[<<n, f[n - 1]>>]
        BY <2>1, <4>1
      <4> HIDE DEF total, T, L
      <4> QED BY <3>2, <4>2, <4>3
    <3> QED BY <3>1, <3>2
  <2>3. f = [n \in 0 .. L |-> F(f, n)]
    <3> HIDE DEF F, L, T
    <3> QED BY <2>1, <2>2
  <2> QED BY <2>3
<1>6. P(named)
  <2> HIDE DEF P
  <2> QED BY <1>5
<1>7. RepeatedCounts(seq) = named[L]
  BY DEF RepeatedCounts, Known
<1> HIDE DEF named
<1>8. named = [n \in 0 .. L |-> F(named, n)]
  BY <1>6
<1>9. ASSUME NEW n \in 0 .. L PROVE named[n] = F(named, n)
  <2> HIDE DEF F, L
  <2> QED BY <1>8
<1>10. 0 \in 0 .. L /\ named[0] = <<>>
  <2>1. 0 \in 0 .. L
    BY <1>1
  <2> HIDE DEF L
  <2> QED BY <1>9, <2>1
<1>11. ASSUME NEW n \in 1 .. L
       PROVE  named[n] = IF Times(seq[n], seq) > 1 /\ ~Known(named[n - 1], seq[n])
                         THEN Append(named[n - 1], <<seq[n], Times(seq[n], seq)>>) ELSE named[n - 1]
  <2>1. n \in 0 .. L /\ n # 0
    BY <1>1
  <2>2. named[n] = F(named, n)
    BY <1>9, <2>1
  <2>3. total(n) = Times(seq[n], seq)
    BY <1>2
  <2> HIDE DEF total, L
  <2> QED BY <2>1, <2>2, <2>3
<1> DEFINE G == {m \in 0 .. L : named[m] \in T}
<1>12. ASSUME NEW n \in 1 .. L, n - 1 \in G PROVE n \in G
  <2>1. named[n - 1] \in T /\ n \in 0 .. L
    BY <1>1, <1>12
  <2>2. <<seq[n], Times(seq[n], seq)>> \in Elements(seq) \X Nat
    BY <1>2
  <2>3. Append(named[n - 1], <<seq[n], Times(seq[n], seq)>>) \in T
    BY <2>1, <2>2
  <2> HIDE DEF L, T
  <2>4. named[n] \in T
    BY <1>11, <2>1, <2>3
  <2> QED BY <2>1, <2>4
<1>13. 0 .. L \subseteq G
  <2>1. 0 \in G
    BY <1>1, <1>10
  <2> HIDE DEF G, L
  <2> QED BY <1>1, <1>12, <2>1, Upward
<1>14. named \in [0 .. L -> T]
  <2>1. \A n \in 0 .. L : named[n] \in T
    BY <1>13
  <2> HIDE DEF F, L, T
  <2> QED BY <1>8, <2>1
<1>15. RepeatedUpTo(seq, named)
  <2> HIDE DEF total
  <2> QED BY <1>10, <1>11, <1>14 DEF RepeatedUpTo
<1> QED BY <1>7, <1>15

LEMMA RepeatsAreNamed ==
  ASSUME NEW seq \in Collections
  PROVE  RepeatsOf(seq, Len(seq), RepeatedCounts(seq))
<1> DEFINE L == Len(seq)
<1>1. PICK named : RepeatedUpTo(seq, named) /\ RepeatedCounts(seq) = named[L]
  BY RepeatedTold
<1>2. L \in Nat /\ seq \in Seq(Object)
  BY CollectionTypes
<1>3. named \in [0 .. L -> Seq(Elements(seq) \X Nat)] /\ named[0] = <<>>
  BY <1>1 DEF RepeatedUpTo
<1> DEFINE G == {m \in 0 .. L : RepeatsOf(seq, m, named[m])}
<1>4. 0 \in G
  BY <1>2, <1>3 DEF RepeatsOf, Elements
<1>5. ASSUME NEW n \in 1 .. L, n - 1 \in G PROVE n \in G
  <2> DEFINE before == named[n - 1]
             total  == Times(seq[n], seq)
  <2>0. n \in 0 .. L /\ n - 1 \in 0 .. L
    BY <1>2
  <2>1. before \in Seq(Elements(seq) \X Nat) /\ RepeatsOf(seq, n - 1, before) /\ n \in 0 .. L
    <3> HIDE DEF L
    <3> QED BY <1>3, <1>5, <2>0
  <2>2. named[n] = IF total > 1 /\ ~Known(before, seq[n]) THEN Append(before, <<seq[n], total>>) ELSE before
    BY <1>1 DEF RepeatedUpTo
  <2>3. \A i \in 1 .. n : i \in 1 .. n - 1 \/ i = n
    BY <1>2
  <2>4. \A pair \in Elements(before) : pair[2] > 1 /\ pair[2] = Times(pair[1], seq)
    BY <2>1 DEF RepeatsOf
  <2>5. \A i \in 1 .. n - 1 : Times(seq[i], seq) > 1 => \E pair \in Elements(before) : Same(pair[1], seq[i])
    BY <2>1 DEF RepeatsOf
  <2>6. CASE total > 1 /\ ~Known(before, seq[n])
    <3> DEFINE new == <<seq[n], total>>
    <3>1. seq[n] \in Elements(seq) /\ total \in Nat
      BY <1>2, TimesType DEF Elements
    <3>2. Elements(Append(before, new)) = Elements(before) \cup {new}
      <4>1. new \in Elements(seq) \X Nat
        BY <3>1
      <4> HIDE DEF new, before
      <4> QED BY <2>1, <4>1, ElementsOfAppend
    <3>3. named[n] = Append(before, new)
      BY <2>2, <2>6
    <3>4. new[1] = seq[n] /\ new[2] = total /\ Same(new[1], seq[n])
      BY DEF Same
    <3>5. ASSUME NEW pair \in Elements(named[n]) PROVE pair[2] > 1 /\ pair[2] = Times(pair[1], seq)
      <4>1. CASE pair = new
        BY <2>6, <3>4, <4>1
      <4>2. CASE pair \in Elements(before)
        BY <2>4, <4>2
      <4> QED BY <3>2, <3>3, <3>5, <4>1, <4>2
    <3>6. ASSUME NEW i \in 1 .. n, Times(seq[i], seq) > 1 PROVE \E pair \in Elements(named[n]) : Same(pair[1], seq[i])
      <4>1. CASE i = n
        BY <3>2, <3>3, <3>4, <4>1
      <4>2. CASE i \in 1 .. n - 1
        BY <2>5, <3>2, <3>3, <3>6, <4>2
      <4> QED BY <2>3, <4>1, <4>2
    <3>7. RepeatsOf(seq, n, named[n])
      BY <3>5, <3>6 DEF RepeatsOf
    <3> QED BY <2>1, <3>7
  <2>7. CASE ~(total > 1 /\ ~Known(before, seq[n]))
    <3>1. named[n] = before
      BY <2>2, <2>7
    <3>2. ASSUME NEW i \in 1 .. n, Times(seq[i], seq) > 1 PROVE \E pair \in Elements(before) : Same(pair[1], seq[i])
      <4>1. CASE i = n
        <5>1. Known(before, seq[n])
          BY <2>7, <3>2, <4>1
        <5> QED BY <4>1, <5>1 DEF Known, Elements
      <4>2. CASE i \in 1 .. n - 1
        BY <2>5, <3>2, <4>2
      <4> QED BY <2>3, <4>1, <4>2
    <3>3. RepeatsOf(seq, n, before)
      BY <2>4, <3>2 DEF RepeatsOf
    <3> QED BY <2>1, <3>1, <3>3
  <2> QED BY <2>6, <2>7
<1>6. L \in G
  <2> HIDE DEF G, L
  <2>1. 0 .. L \subseteq G
    BY <1>2, <1>4, <1>5, Upward
  <2> QED BY <1>2, <2>1
<1> QED BY <1>1, <1>6

\* An element that is there more than once is the same as another one.
LEMMA TwoPlaces ==
  ASSUME NEW seq \in Collections, NEW n \in DOMAIN seq, \A i, j \in DOMAIN seq : Same(seq[i], seq[j]) => i = j
  PROVE  ~(Times(seq[n], seq) > 1)
<1>1. seq \in Seq(Object)
  BY CollectionTypes
<1>2. PlacesOfItem(seq[n], seq) = {n}
  BY DEF PlacesOfItem, Same
<1>3. Times(seq[n], seq) = 1
  BY <1>1, <1>2, TimesType, FS_Singleton
<1> QED BY <1>3

LEMMA DuplicatesNamed ==
  ASSUME NEW container \in Collections, NEW said_, said_ = DoesNotContainDuplicates(container)
  PROVE  LET named == Elements(said_.named)
         IN  /\ said_.holds = (\A i, j \in DOMAIN container : Same(container[i], container[j]) => i = j)
             /\ \A pair \in named : pair[2] > 1 /\ pair[2] = Times(pair[1], container)
             /\ \A value \in Elements(container) : Times(value, container) > 1 => \E pair \in named : Same(pair[1], value)
<1> DEFINE apart == \A i, j \in DOMAIN container : Same(container[i], container[j]) => i = j
<1>1. HasDuplicates(container) <=> ~apart
  BY DuplicatesAre
<1>2. CASE HasDuplicates(container)
  <2>1. said_.holds = FALSE /\ said_.named = RepeatedCounts(container)
    BY <1>2 DEF DoesNotContainDuplicates, Answer
  <2>2. RepeatsOf(container, Len(container), said_.named)
    BY <2>1, RepeatsAreNamed
  <2>3. DOMAIN container = 1 .. Len(container)
    BY CollectionTypes
  <2> HIDE DEF apart
  <2>4. said_.holds = apart
    BY <1>1, <1>2, <2>1 DEF apart
  <2>5. \A pair \in Elements(said_.named) : pair[2] > 1 /\ pair[2] = Times(pair[1], container)
    BY <2>2 DEF RepeatsOf
  <2>6. ASSUME NEW value \in Elements(container), Times(value, container) > 1
        PROVE  \E pair \in Elements(said_.named) : Same(pair[1], value)
    <3>1. PICK i \in 1 .. Len(container) : value = container[i]
      BY <2>3 DEF Elements
    <3> QED BY <2>2, <2>6, <3>1 DEF RepeatsOf
  <2> QED BY <2>4, <2>5, <2>6 DEF apart
<1>3. CASE ~HasDuplicates(container)
  <2>1. said_.holds = TRUE /\ said_.named = <<>>
    BY <1>3 DEF DoesNotContainDuplicates, Answer
  <2>2. Elements(said_.named) = {}
    BY <2>1 DEF Elements
  <2>3. \A value \in Elements(container) : ~(Times(value, container) > 1)
    <3>1. apart
      BY <1>1, <1>3
    <3> QED BY <3>1, TwoPlaces DEF Elements
  <2>4. said_.holds = apart
    BY <1>1, <1>3, <2>1
  <2> QED BY <2>2, <2>3, <2>4
<1> QED BY <1>2, <1>3

-----------------------------------------------------------------------------
(* The longest run *)

LEMMA LargestIs ==
  ASSUME NEW N \in Nat, NEW numbers \in SUBSET (0 .. N)
  PROVE  /\ Largest(numbers) \in numbers \cup {0} /\ Largest(numbers) \in 0 .. N
         /\ \A other \in numbers : other <= Largest(numbers)
<1> DEFINE S == numbers \cup {0}
           back == {N - m : m \in S}
<1>0. \A m \in S : m \in Int
  OBVIOUS
<1>1. back \in SUBSET Nat /\ back # {}
  OBVIOUS
<1>2. PICK b \in back : \A j \in back : b <= j
  <2> HIDE DEF back
  <2> QED BY <1>1, FirstOf
<1>3. PICK n \in S : b = N - n
  OBVIOUS
<1>4. ASSUME NEW other \in S PROVE other <= n
  <2>1. N - other \in back
    OBVIOUS
  <2>2. N - n <= N - other
    <3> HIDE DEF back, S
    <3> QED BY <1>2, <1>3, <2>1
  <2>3. n \in Int /\ other \in Int
    BY <1>0
  <2> HIDE DEF back, S
  <2> QED BY <2>2, <2>3
<1>5. Largest(numbers) \in S /\ \A other \in numbers : other <= Largest(numbers)
  <2>1. \E m \in S : \A other \in numbers : other <= m
    BY <1>4
  <2> QED BY <2>1 DEF Largest
<1>6. S \subseteq 0 .. N
  OBVIOUS
<1> QED BY <1>5, <1>6

LineAt(seq, run, start, k)   == start + k - 1 <= Len(seq) /\ Same(seq[start + k - 1], run[k])
LinedUp(seq, run, start, n) == \A k \in 1 .. n : LineAt(seq, run, start, k)

LEMMA RunAtIs ==
  ASSUME NEW seq \in Collections, NEW run \in Asked, NEW start \in DOMAIN seq
  PROVE  LET n == RunAt(seq, run, start)
         IN  /\ n \in 0 .. Len(run) /\ LinedUp(seq, run, start, n)
             /\ n < Len(run) => ~LineAt(seq, run, start, n + 1)
<1> DEFINE L == Len(run)
           Fits(n) == (\A k \in 1 .. n : LineAt(seq, run, start, k)) /\ (n < L => ~LineAt(seq, run, start, n + 1))
           off == {k \in 1 .. L : ~LineAt(seq, run, start, k)}
<1>1. L \in Nat
  BY AskedTypes
<1>2. \E n \in 0 .. L : Fits(n)
  <2> HIDE DEF L
  <2>1. CASE off = {}
    <3>1. \A k \in 1 .. L : LineAt(seq, run, start, k)
      BY <2>1
    <3> QED BY <1>1, <3>1
  <2>2. CASE off # {}
    <3>1. off \in SUBSET Nat
      BY <1>1
    <3>2. PICK first \in off : \A k \in off : first <= k
      <4> HIDE DEF off
      <4> QED BY <2>2, <3>1, FirstOf
    <3>3. first \in 1 .. L /\ ~LineAt(seq, run, start, first)
      BY <3>2
    <3>4. PICK n \in 0 .. L : first = n + 1 /\ n < L
      <4>1. first - 1 \in 0 .. L /\ first = (first - 1) + 1 /\ first - 1 < L
        BY <1>1, <3>3
      <4> QED BY <4>1
    <3>5. ASSUME NEW k \in 1 .. n PROVE LineAt(seq, run, start, k)
      <4>1. k \in 1 .. L /\ ~(first <= k)
        BY <1>1, <3>4
      <4>2. k \notin off
        <5> HIDE DEF off
        <5> QED BY <3>2, <4>1
      <4> QED BY <4>1, <4>2
    <3>6. ~LineAt(seq, run, start, n + 1)
      BY <3>3, <3>4
    <3> QED BY <3>5, <3>6
  <2> QED BY <2>1, <2>2
<1>3. RunAt(seq, run, start) = CHOOSE n \in 0 .. L : Fits(n)
  BY DEF RunAt, LineAt
<1>4. RunAt(seq, run, start) \in 0 .. L /\ Fits(RunAt(seq, run, start))
  <2> HIDE DEF Fits, L
  <2> QED BY <1>2, <1>3
<1> QED BY <1>4 DEF LinedUp

\* The best of the places it may begin at.
BestRun(seq, run, n) ==
  /\ n \in 0 .. Len(run)
  /\ n = 0 \/ \E start \in DOMAIN seq : LinedUp(seq, run, start, n)
  /\ n < Len(run) => \A start \in DOMAIN seq : ~LinedUp(seq, run, start, n + 1)

LEMMA TheLongestRun ==
  ASSUME NEW seq \in Collections, NEW run \in Asked
  PROVE  LET break == SequenceBreak(seq, run)
             n     == Largest({break, LateRun(seq, run)})
         IN  BestRun(seq, run, n) /\ (break = Len(run) <=> n = Len(run))
<1> DEFINE L == Len(run)
           whole == {s \in DOMAIN seq : s + L - 1 <= Len(seq)}
           late  == {s \in DOMAIN seq : s + L - 1 > Len(seq)}
           early == {RunAt(seq, run, i) : i \in whole}
           after == {RunAt(seq, run, i) : i \in late}
           break == SequenceBreak(seq, run)
           last  == LateRun(seq, run)
           n     == Largest({break, last})
<1>1. L \in Nat /\ L >= 1 /\ Len(seq) \in Nat /\ DOMAIN seq = 1 .. Len(seq)
  BY AskedTypes, CollectionTypes
<1>2. ASSUME NEW start \in DOMAIN seq
      PROVE  /\ RunAt(seq, run, start) \in 0 .. L /\ LinedUp(seq, run, start, RunAt(seq, run, start))
             /\ RunAt(seq, run, start) < L => ~LineAt(seq, run, start, RunAt(seq, run, start) + 1)
  BY RunAtIs
<1> HIDE DEF L
<1>3. break = Largest(early) /\ last = Largest(after)
  BY DEF SequenceBreak, LateRun, L
<1>4. early \in SUBSET (0 .. L) /\ after \in SUBSET (0 .. L)
  BY <1>2
<1> HIDE DEF break, last
<1>5. /\ break \in early \cup {0} /\ break \in 0 .. L /\ \A other \in early : other <= break
      /\ last \in after \cup {0} /\ last \in 0 .. L /\ \A other \in after : other <= last
  <2> HIDE DEF early, after
  <2> QED BY <1>1, <1>3, <1>4, LargestIs
<1>6. n \in {break, last} \cup {0} /\ n \in 0 .. L /\ break <= n /\ last <= n
  <2>1. {break, last} \in SUBSET (0 .. L)
    BY <1>5
  <2>2. n \in {break, last} \cup {0} /\ n \in 0 .. L /\ \A other \in {break, last} : other <= n
    BY <1>1, <2>1, LargestIs
  <2> QED BY <2>2
<1> HIDE DEF n
<1>7. ASSUME NEW start \in DOMAIN seq PROVE RunAt(seq, run, start) <= n
  <2>1. RunAt(seq, run, start) \in early \/ RunAt(seq, run, start) \in after
    BY <1>1
  <2>2. RunAt(seq, run, start) <= break \/ RunAt(seq, run, start) <= last
    <3> HIDE DEF early, after
    <3> QED BY <1>5, <2>1
  <2>3. RunAt(seq, run, start) \in Int /\ n \in Int /\ break \in Int /\ last \in Int
    BY <1>2, <1>5, <1>6
  <2> QED BY <1>6, <2>2, <2>3
<1>8. n = 0 \/ \E start \in DOMAIN seq : LinedUp(seq, run, start, n)
  <2>1. n = 0 \/ n \in early \/ n \in after
    BY <1>5, <1>6
  <2>2. CASE n \in early \/ n \in after
    <3>1. PICK start \in DOMAIN seq : n = RunAt(seq, run, start)
      BY <2>2
    <3> QED BY <1>2, <3>1
  <2> QED BY <2>1, <2>2
<1>9. ASSUME n < L, NEW start \in DOMAIN seq PROVE ~LinedUp(seq, run, start, n + 1)
  <2> DEFINE m == RunAt(seq, run, start)
  <2>1. m \in 0 .. L /\ m <= n /\ (m < L => ~LineAt(seq, run, start, m + 1))
    BY <1>2, <1>7
  <2> HIDE DEF m
  <2>2. m < L /\ m + 1 \in 1 .. n + 1
    BY <1>1, <1>6, <1>9, <2>1
  <2> QED BY <2>1, <2>2 DEF LinedUp
<1>10. ASSUME NEW start \in late PROVE RunAt(seq, run, start) # L
  <2>1. ~LineAt(seq, run, start, L)
    <3>1. start \in Nat /\ start + L - 1 > Len(seq)
      BY <1>1
    <3>2. ~(start + L - 1 <= Len(seq))
      BY <1>1, <3>1
    <3> QED BY <3>2 DEF LineAt
  <2>2. L \in 1 .. L
    BY <1>1
  <2> QED BY <1>2, <2>1, <2>2 DEF LinedUp
<1>11. break = L <=> n = L
  <2>1. last # L
    <3>1. last \in after => last # L
      BY <1>10
    <3> QED BY <1>1, <1>5, <3>1
  <2> QED BY <1>1, <1>5, <1>6, <2>1
<1>12. BestRun(seq, run, n)
  BY <1>6, <1>8, <1>9 DEF BestRun, L
<1> QED BY <1>11, <1>12 DEF n, break, last, L

LEMMA Front ==
  ASSUME NEW run \in Asked, NEW n \in 0 .. Len(run)
  PROVE  /\ Len(SubSeq(run, 1, n)) = n /\ DOMAIN SubSeq(run, 1, n) = 1 .. n
         /\ \A k \in 1 .. n : SubSeq(run, 1, n)[k] = run[k]
<1>1. run \in Seq(Object) /\ Len(run) \in Nat
  BY AskedTypes
<1>2. n \in 0 .. Len(run) /\ n \in Nat /\ n <= Len(run)
  BY <1>1
<1> QED BY <1>1, <1>2

LEMMA LinesUpIs ==
  ASSUME NEW seq \in Collections, NEW run \in Asked, NEW n \in 0 .. Len(run)
  PROVE  LinesUp(seq, SubSeq(run, 1, n)) <=> n = 0 \/ \E start \in DOMAIN seq : LinedUp(seq, run, start, n)
<1> DEFINE front == SubSeq(run, 1, n)
           M == Len(seq)
<1>1. M \in Nat /\ DOMAIN seq = 1 .. M /\ n \in Nat
  BY CollectionTypes, AskedTypes
<1>2. Len(front) = n /\ DOMAIN front = 1 .. n /\ \A k \in 1 .. n : front[k] = run[k]
  BY Front
<1> HIDE DEF front, M
<1>3. LinesUp(seq, front) <=> \E i \in 0 .. M - n : \A k \in 1 .. n : Same(seq[i + k], run[k])
  BY <1>2 DEF LinesUp, M
<1>4. ASSUME n # 0, NEW i \in 0 .. M - n, \A k \in 1 .. n : Same(seq[i + k], run[k])
      PROVE  \E start \in DOMAIN seq : LinedUp(seq, run, start, n)
  <2>1. i + 1 \in DOMAIN seq
    BY <1>1, <1>4
  <2>2. ASSUME NEW k \in 1 .. n PROVE LineAt(seq, run, i + 1, k)
    <3>1. (i + 1) + k - 1 = i + k /\ i + k <= M
      BY <1>1
    <3> QED BY <1>4, <3>1 DEF LineAt, M
  <2> QED BY <2>1, <2>2 DEF LinedUp
<1>5. ASSUME n # 0, NEW start \in DOMAIN seq, LinedUp(seq, run, start, n)
      PROVE  \E i \in 0 .. M - n : \A k \in 1 .. n : Same(seq[i + k], run[k])
  <2>1. n \in 1 .. n /\ start \in Int
    BY <1>1, <1>5
  <2>2. start + n - 1 <= M
    BY <1>5, <2>1 DEF LinedUp, LineAt, M
  <2>3. start - 1 \in 0 .. M - n
    BY <1>1, <2>2
  <2>4. ASSUME NEW k \in 1 .. n PROVE Same(seq[(start - 1) + k], run[k])
    <3>1. (start - 1) + k = start + k - 1
      BY <1>1
    <3> QED BY <1>5, <3>1 DEF LinedUp, LineAt
  <2> QED BY <2>3, <2>4
<1>6. n = 0 => LinesUp(seq, front)
  <2>1. 0 \in 0 .. M - 0 /\ 1 .. 0 = {}
    BY <1>1
  <2> QED BY <1>3, <2>1
<1>7. LinesUp(seq, front) <=> n = 0 \/ \E start \in DOMAIN seq : LinedUp(seq, run, start, n)
  BY <1>3, <1>4, <1>5, <1>6
<1> QED BY <1>7 DEF front

\* What LongestThat says, of an answer and what was asked.
FitsUpTo(answer, run, n) ==
  n \in 0 .. Len(run) /\ answer.holds = (n = Len(run)) /\ (answer.holds \/ answer.named = SubSeq(run, 1, n))

LEMMA SequenceIs ==
  ASSUME NEW seq \in Collections, NEW run \in Asked
  PROVE  \E n \in 0 .. Len(run) :
           /\ FitsUpTo(ContainsSequence(seq, run), run, n)
           /\ LinesUp(seq, SubSeq(run, 1, n))
           /\ n < Len(run) => ~LinesUp(seq, SubSeq(run, 1, n + 1))
<1> DEFINE break == SequenceBreak(seq, run)
           n == Largest({break, LateRun(seq, run)})
           answer == ContainsSequence(seq, run)
<1>1. BestRun(seq, run, n) /\ (break = Len(run) <=> n = Len(run))
  BY TheLongestRun
<1>2. answer = IF break = Len(run) THEN Answer(TRUE, <<>>, <<>>) ELSE Answer(FALSE, SubSeq(run, 1, n), <<>>)
  BY DEF ContainsSequence
<1> HIDE DEF n, break, answer
<1>3. n \in 0 .. Len(run) /\ Len(run) \in Nat
  BY <1>1, AskedTypes DEF BestRun
<1>4. FitsUpTo(answer, run, n)
  <2>1. CASE break = Len(run)
    <3>1. answer.holds = TRUE
      BY <1>2, <2>1 DEF Answer
    <3> QED BY <1>1, <1>3, <2>1, <3>1 DEF FitsUpTo
  <2>2. CASE break # Len(run)
    <3>1. answer.holds = FALSE /\ answer.named = SubSeq(run, 1, n)
      BY <1>2, <2>2 DEF Answer
    <3> QED BY <1>1, <1>3, <2>2, <3>1 DEF FitsUpTo
  <2> QED BY <2>1, <2>2
<1>5. LinesUp(seq, SubSeq(run, 1, n))
  BY <1>1, <1>3, LinesUpIs DEF BestRun
<1>6. ASSUME n < Len(run) PROVE ~LinesUp(seq, SubSeq(run, 1, n + 1))
  <2>1. n + 1 \in 0 .. Len(run) /\ n + 1 # 0
    BY <1>3, <1>6
  <2>2. \A start \in DOMAIN seq : ~LinedUp(seq, run, start, n + 1)
    BY <1>1, <1>6 DEF BestRun
  <2> QED BY <2>1, <2>2, LinesUpIs
<1> QED BY <1>3, <1>4, <1>5, <1>6 DEF answer

-----------------------------------------------------------------------------
(* One after another *)

\* The first m of the items are found in this order among the first n elements.
Placing(seq, run, n, m, place) ==
  /\ place \in [1 .. m -> 1 .. n]
  /\ \A k \in 1 .. m : Same(seq[place[k]], run[k])
  /\ \A j, k \in 1 .. m : j < k => place[j] < place[k]

Placed(seq, run, n, m) == \E place : Placing(seq, run, n, m, place)

LEMMA Rising ==
  ASSUME NEW m \in Nat, NEW N \in Nat, NEW place \in [1 .. m -> 1 .. N], \A k \in 1 .. m : k > 1 => place[k - 1] < place[k]
  PROVE  \A j, k \in 1 .. m : j < k => place[j] < place[k]
<1> DEFINE G == {d \in 0 .. m : \A j \in 1 .. m : j + d + 1 <= m => place[j] < place[j + d + 1]}
<1>1. 0 \in G
  <2>1. ASSUME NEW j \in 1 .. m, j + 0 + 1 <= m PROVE place[j] < place[j + 0 + 1]
    <3>1. j + 1 \in 1 .. m /\ j + 1 > 1 /\ (j + 1) - 1 = j /\ j + 0 + 1 = j + 1
      BY <2>1
    <3>2. place[(j + 1) - 1] < place[j + 1]
      BY <3>1
    <3> QED BY <3>1, <3>2
  <2> QED BY <2>1
<1>2. ASSUME NEW d \in 1 .. m, d - 1 \in G PROVE d \in G
  <2>1. ASSUME NEW j \in 1 .. m, j + d + 1 <= m PROVE place[j] < place[j + d + 1]
    <3>1. j + d + 1 \in 1 .. m /\ j + d \in 1 .. m /\ (j + d + 1) - 1 = j + d /\ j + (d - 1) + 1 = j + d /\ j + d + 1 > 1
      BY <2>1
    <3>2. place[(j + d + 1) - 1] < place[j + d + 1]
      BY <3>1
    <3>3. place[j] < place[j + (d - 1) + 1]
      BY <1>2, <3>1
    <3>4. place[j] \in Int /\ place[j + d] \in Int /\ place[j + d + 1] \in Int
      BY <3>1
    <3>5. place[j + d] < place[j + d + 1] /\ place[j] < place[j + d]
      BY <3>1, <3>2, <3>3
    <3> QED BY <3>4, <3>5
  <2> QED BY <2>1
<1>3. 0 .. m \subseteq G
  <2> HIDE DEF G
  <2> QED BY <1>1, <1>2, Upward
<1>4. ASSUME NEW j \in 1 .. m, NEW k \in 1 .. m, j < k PROVE place[j] < place[k]
  <2>1. k - j - 1 \in 0 .. m /\ j + (k - j - 1) + 1 = k /\ j + (k - j - 1) + 1 <= m
    BY <1>4
  <2>2. k - j - 1 \in G
    BY <1>3, <2>1
  <2>3. place[j] < place[j + (k - j - 1) + 1]
    BY <2>1, <2>2
  <2> QED BY <2>1, <2>3
<1> QED BY <1>4

LEMMA EmbedsIs ==
  ASSUME NEW seq \in Collections, NEW run \in Asked, NEW n \in 0 .. Len(run)
  PROVE  Embeds(seq, SubSeq(run, 1, n)) <=> Placed(seq, run, Len(seq), n)
<1> DEFINE front == SubSeq(run, 1, n)
           M == Len(seq)
<1>1. M \in Nat /\ DOMAIN seq = 1 .. M /\ n \in Nat
  BY CollectionTypes, AskedTypes
<1>2. DOMAIN front = 1 .. n /\ \A k \in 1 .. n : front[k] = run[k]
  BY Front
<1> HIDE DEF front, M
<1>3. ASSUME NEW place \in [DOMAIN front -> DOMAIN seq],
             \A k \in DOMAIN front : Same(seq[place[k]], front[k]) /\ (k > 1 => place[k - 1] < place[k])
      PROVE  Placing(seq, run, M, n, place)
  <2>1. place \in [1 .. n -> 1 .. M] /\ \A k \in 1 .. n : Same(seq[place[k]], run[k]) /\ (k > 1 => place[k - 1] < place[k])
    BY <1>1, <1>2, <1>3
  <2>2. \A j, k \in 1 .. n : j < k => place[j] < place[k]
    BY <1>1, <2>1, Rising
  <2> QED BY <2>1, <2>2 DEF Placing
<1>4. ASSUME NEW place, Placing(seq, run, M, n, place)
      PROVE  /\ place \in [DOMAIN front -> DOMAIN seq]
             /\ \A k \in DOMAIN front : Same(seq[place[k]], front[k]) /\ (k > 1 => place[k - 1] < place[k])
  <2>1. place \in [DOMAIN front -> DOMAIN seq] /\ \A k \in DOMAIN front : Same(seq[place[k]], front[k])
    BY <1>1, <1>2, <1>4 DEF Placing
  <2>2. ASSUME NEW k \in DOMAIN front, k > 1 PROVE place[k - 1] < place[k]
    <3>1. k \in 1 .. n /\ k - 1 \in 1 .. n /\ k - 1 < k
      BY <1>1, <1>2, <2>2
    <3> QED BY <1>4, <3>1 DEF Placing
  <2> QED BY <2>1, <2>2
<1>5. Embeds(seq, front) <=> Placed(seq, run, M, n)
  BY <1>3, <1>4 DEF Embeds, Placed
<1> QED BY <1>5 DEF front, M

LEMMA PlacedOn ==
  ASSUME NEW seq, NEW run, NEW n \in Nat, n > 0, NEW m \in Nat
  PROVE  /\ Placed(seq, run, n - 1, m) => Placed(seq, run, n, m)
         /\ Placed(seq, run, n - 1, m) /\ Same(seq[n], run[m + 1]) => Placed(seq, run, n, m + 1)
<1>1. ASSUME NEW place, Placing(seq, run, n - 1, m, place) PROVE Placing(seq, run, n, m, place)
  <2>1. 1 .. n - 1 \subseteq 1 .. n
    OBVIOUS
  <2>2. place \in [1 .. m -> 1 .. n]
    BY <1>1, <2>1 DEF Placing
  <2> QED BY <1>1, <2>2 DEF Placing
<1>2. ASSUME NEW place, Placing(seq, run, n - 1, m, place), Same(seq[n], run[m + 1])
      PROVE  \E longer : Placing(seq, run, n, m + 1, longer)
  <2> DEFINE longer == [k \in 1 .. m + 1 |-> IF k = m + 1 THEN n ELSE place[k]]
  <2>1. \A k \in 1 .. m + 1 : k = m + 1 \/ (k \in 1 .. m /\ k # m + 1)
    OBVIOUS
  <2>2. \A k \in 1 .. m : place[k] \in 1 .. n - 1 /\ Same(seq[place[k]], run[k])
    BY <1>2 DEF Placing
  <2>3. n \in 1 .. n /\ \A i \in 1 .. n - 1 : i \in 1 .. n /\ i < n
    OBVIOUS
  <2>4. m + 1 \in 1 .. m + 1 /\ longer[m + 1] = n /\ \A k \in 1 .. m : k \in 1 .. m + 1 /\ longer[k] = place[k]
    OBVIOUS
  <2>5. longer \in [1 .. m + 1 -> 1 .. n]
    BY <2>1, <2>2, <2>3
  <2> HIDE DEF longer
  <2>6. \A k \in 1 .. m + 1 : Same(seq[longer[k]], run[k])
    BY <1>2, <2>1, <2>2, <2>4
  <2>7. ASSUME NEW j \in 1 .. m + 1, NEW k \in 1 .. m + 1, j < k PROVE longer[j] < longer[k]
    <3>1. j \in 1 .. m
      BY <2>7
    <3>2. CASE k = m + 1
      BY <2>2, <2>3, <2>4, <3>1, <3>2
    <3>3. CASE k \in 1 .. m
      <4>1. place[j] < place[k]
        BY <1>2, <2>7, <3>1, <3>3 DEF Placing
      <4> QED BY <2>4, <3>1, <3>3, <4>1
    <3> QED BY <2>1, <3>2, <3>3
  <2> QED BY <2>5, <2>6, <2>7 DEF Placing
<1> QED BY <1>1, <1>2 DEF Placed

\* The last of them is found at the last element, or among the elements before it; the others are there in either case.
LEMMA PlacedBefore ==
  ASSUME NEW seq, NEW run, NEW n \in Nat, n > 0, NEW m \in Nat, m > 0, Placed(seq, run, n, m)
  PROVE  /\ Placed(seq, run, n - 1, m - 1)
         /\ Placed(seq, run, n - 1, m) \/ Same(seq[n], run[m])
<1>1. PICK place : Placing(seq, run, n, m, place)
  BY DEF Placed
<1>2. m \in 1 .. m /\ \A k \in 1 .. m - 1 : k \in 1 .. m /\ k < m
  OBVIOUS
<1>3. \A k \in 1 .. m : place[k] \in 1 .. n /\ Same(seq[place[k]], run[k])
  BY <1>1 DEF Placing
<1>4. \A j, k \in 1 .. m : j < k => place[j] < place[k]
  BY <1>1 DEF Placing
<1>5. Placed(seq, run, n - 1, m - 1)
  <2> DEFINE fewer == [k \in 1 .. m - 1 |-> place[k]]
  <2>1. ASSUME NEW k \in 1 .. m - 1 PROVE place[k] \in 1 .. n - 1
    <3>1. place[k] \in 1 .. n /\ place[m] \in 1 .. n /\ place[k] < place[m]
      BY <1>2, <1>3, <1>4
    <3> QED BY <3>1
  <2>2. fewer \in [1 .. m - 1 -> 1 .. n - 1] /\ \A k \in 1 .. m - 1 : fewer[k] = place[k]
    BY <2>1
  <2> HIDE DEF fewer
  <2>3. Placing(seq, run, n - 1, m - 1, fewer)
    BY <1>2, <1>3, <1>4, <2>2 DEF Placing
  <2> QED BY <2>3 DEF Placed
<1>6. CASE place[m] = n
  BY <1>2, <1>3, <1>5, <1>6
<1>7. CASE place[m] # n
  <2>1. ASSUME NEW k \in 1 .. m PROVE place[k] \in 1 .. n - 1
    <3>1. place[m] \in 1 .. n - 1
      BY <1>2, <1>3, <1>7
    <3>2. k = m \/ k \in 1 .. m - 1
      OBVIOUS
    <3>3. CASE k \in 1 .. m - 1
      <4>1. place[k] \in 1 .. n /\ place[k] < place[m]
        BY <1>2, <1>3, <1>4, <3>3
      <4> QED BY <3>1, <4>1
    <3> QED BY <3>1, <3>2, <3>3
  <2>2. place \in [1 .. m -> 1 .. n - 1]
    BY <1>1, <2>1 DEF Placing
  <2>3. Placing(seq, run, n - 1, m, place)
    BY <1>3, <1>4, <2>2 DEF Placing
  <2> QED BY <1>5, <2>3 DEF Placed
<1> QED BY <1>6, <1>7

ReachedUpTo(seq, run, reached) ==
  /\ reached \in [0 .. Len(seq) -> Nat] /\ reached[0] = 0
  /\ \A n \in 1 .. Len(seq) :
       reached[n] = IF reached[n - 1] < Len(run) /\ Same(seq[n], run[reached[n - 1] + 1])
                    THEN reached[n - 1] + 1 ELSE reached[n - 1]

LEMMA ReachedTold ==
  ASSUME NEW seq \in Collections, NEW run \in Asked
  PROVE  \E reached : ReachedUpTo(seq, run, reached) /\ FollowedUpTo(seq, run) = reached[Len(seq)]
<1> DEFINE L == Len(seq)
           G(u, n) == IF u[n - 1] < Len(run) /\ Same(seq[n], run[u[n - 1] + 1]) THEN u[n - 1] + 1 ELSE u[n - 1]
           F(u, n) == IF n = 0 THEN 0 ELSE G(u, n)
           step == [q \in (1 .. L) \X Nat |-> IF q[2] < Len(run) /\ Same(seq[q[1]], run[q[2] + 1]) THEN q[2] + 1 ELSE q[2]]
           P(u) == u = [n \in 0 .. L |-> F(u, n)]
           reached == CHOOSE u : P(u)
<1>1. L \in Nat /\ 0 \in Nat
  BY CollectionTypes
<1>2. step \in [(1 .. L) \X Nat -> Nat]
  <2> HIDE DEF L
  <2> QED OBVIOUS
<1>3. PICK f : IsToldUpTo(f, L, Nat, 0, step)
  <2> HIDE DEF step, L
  <2> QED BY <1>1, <1>2, UpwardRecursion
<1>4. P(f)
  <2>1. f \in [0 .. L -> Nat] /\ f[0] = 0 /\ \A n \in 1 .. L : f[n] = step[<<n, f[n - 1]>>]
    BY <1>3 DEF IsToldUpTo
  <2>2. ASSUME NEW n \in 0 .. L PROVE f[n] = F(f, n)
    <3>1. CASE n = 0
      BY <2>1, <3>1
    <3>2. CASE n # 0
      <4>1. n \in 1 .. L /\ n - 1 \in 0 .. L
        BY <1>1, <3>2
      <4>2. <<n, f[n - 1]>> \in (1 .. L) \X Nat /\ f[n] = step[<<n, f[n - 1]>>]
        BY <2>1, <4>1
      <4> HIDE DEF L
      <4> QED BY <3>2, <4>2
    <3> QED BY <3>1, <3>2
  <2> HIDE DEF F, L
  <2>3. f = [n \in 0 .. L |-> F(f, n)]
    BY <2>1, <2>2
  <2> QED BY <2>3
<1>5. P(reached)
  <2> HIDE DEF P
  <2> QED BY <1>4
<1>6. FollowedUpTo(seq, run) = reached[L]
  BY DEF FollowedUpTo
<1> HIDE DEF reached
<1>7. reached = [n \in 0 .. L |-> F(reached, n)]
  BY <1>5
<1>8. ASSUME NEW n \in 0 .. L PROVE reached[n] = F(reached, n)
  <2> HIDE DEF F, L
  <2> QED BY <1>7
<1>9. reached[0] = 0
  <2>1. 0 \in 0 .. L
    BY <1>1
  <2> HIDE DEF L
  <2> QED BY <1>8, <2>1
<1>10. ASSUME NEW n \in 1 .. L PROVE reached[n] = G(reached, n)
  <2>1. n \in 0 .. L /\ n # 0
    BY <1>1
  <2> HIDE DEF G, L
  <2> QED BY <1>8, <2>1
<1> DEFINE N == {m \in 0 .. L : reached[m] \in Nat}
<1>11. 0 .. L \subseteq N
  <2>1. 0 \in N
    BY <1>1, <1>9
  <2>2. ASSUME NEW n \in 1 .. L, n - 1 \in N PROVE n \in N
    <3>1. reached[n - 1] \in Nat /\ n \in 0 .. L
      BY <1>1, <2>2
    <3> HIDE DEF L
    <3> QED BY <1>10, <3>1
  <2> HIDE DEF N, L
  <2> QED BY <1>1, <2>1, <2>2, Upward
<1>12. reached \in [0 .. L -> Nat]
  <2>1. \A n \in 0 .. L : reached[n] \in Nat
    BY <1>11
  <2> HIDE DEF F, L
  <2> QED BY <1>7, <2>1
<1>13. ReachedUpTo(seq, run, reached)
  BY <1>9, <1>10, <1>12 DEF ReachedUpTo
<1> QED BY <1>6, <1>13

\* As many as can be, and no more.
FurthestIn(seq, run, n, m) ==
  /\ m \in 0 .. Len(run) /\ Placed(seq, run, n, m)
  /\ \A other \in 0 .. Len(run) : Placed(seq, run, n, other) => other <= m

LEMMA TheFurthest ==
  ASSUME NEW seq \in Collections, NEW run \in Asked
  PROVE  FurthestIn(seq, run, Len(seq), FollowedUpTo(seq, run))
<1> DEFINE L == Len(seq)
           R == Len(run)
<1>1. PICK reached : ReachedUpTo(seq, run, reached) /\ FollowedUpTo(seq, run) = reached[L]
  BY ReachedTold
<1>2. L \in Nat /\ R \in Nat
  BY CollectionTypes, AskedTypes
<1>3. /\ reached \in [0 .. L -> Nat] /\ reached[0] = 0
      /\ \A n \in 1 .. L : reached[n] = IF reached[n - 1] < R /\ Same(seq[n], run[reached[n - 1] + 1])
                                        THEN reached[n - 1] + 1 ELSE reached[n - 1]
  BY <1>1 DEF ReachedUpTo
<1> HIDE DEF L
<1> DEFINE G == {n \in 0 .. L : FurthestIn(seq, run, n, reached[n])}
<1>4. 0 \in G
  <2>1. Placed(seq, run, 0, 0)
    <3>1. Placing(seq, run, 0, 0, <<>>)
      <4>1. 1 .. 0 = {} /\ <<>> \in [{} -> 1 .. 0]
        OBVIOUS
      <4> QED BY <4>1 DEF Placing
    <3> QED BY <3>1 DEF Placed
  <2>2. ASSUME NEW other \in 0 .. R, Placed(seq, run, 0, other) PROVE other <= 0
    <3>1. PICK place : place \in [1 .. other -> 1 .. 0]
      BY <2>2 DEF Placed, Placing
    <3>2. other # 0 => place[1] \in 1 .. 0
      <4>1. other # 0 => 1 \in 1 .. other
        BY <1>2
      <4> QED BY <3>1, <4>1
    <3> QED BY <1>2, <3>2
  <2> QED BY <1>2, <1>3, <2>1, <2>2 DEF FurthestIn
<1>5. ASSUME NEW n \in 1 .. L, n - 1 \in G PROVE n \in G
  <2> DEFINE m == reached[n - 1]
             next == reached[n]
  <2>1. n \in 0 .. L /\ n \in Nat /\ n > 0 /\ n - 1 \in 0 .. L
    BY <1>2
  <2>2. m \in 0 .. R /\ m \in Nat /\ Placed(seq, run, n - 1, m)
        /\ \A other \in 0 .. R : Placed(seq, run, n - 1, other) => other <= m
    BY <1>2, <1>5 DEF FurthestIn
  <2>3. next = IF m < R /\ Same(seq[n], run[m + 1]) THEN m + 1 ELSE m
    BY <1>3
  <2> HIDE DEF m, next, R
  <2>4. Placed(seq, run, n, next) /\ next \in 0 .. R
    BY <1>2, <2>1, <2>2, <2>3, PlacedOn
  <2>5. ASSUME NEW other \in 0 .. R, Placed(seq, run, n, other) PROVE other <= next
    <3>1. CASE other = 0
      BY <1>2, <2>4, <3>1
    <3>2. CASE other # 0
      <4>1. other \in Nat /\ other > 0 /\ other - 1 \in 0 .. R /\ other - 1 \in Int
        BY <1>2, <3>2
      <4>2. Placed(seq, run, n - 1, other - 1) /\ (Placed(seq, run, n - 1, other) \/ Same(seq[n], run[other]))
        BY <2>1, <2>5, <4>1, PlacedBefore
      <4>3. other - 1 <= m
        BY <2>2, <4>1, <4>2
      <4>4. CASE Placed(seq, run, n - 1, other)
        <5>1. other <= m
          BY <2>2, <4>4
        <5> QED BY <2>2, <2>3, <4>1, <5>1
      <4>5. CASE Same(seq[n], run[other])
        <5>1. CASE other <= m
          BY <2>2, <2>3, <4>1, <5>1
        <5>2. CASE ~(other <= m)
          <6>1. other = m + 1 /\ m < R
            BY <1>2, <2>2, <4>1, <4>3, <5>2
          <6> QED BY <2>2, <2>3, <4>5, <6>1
        <5> QED BY <5>1, <5>2
      <4> QED BY <4>2, <4>4, <4>5
    <3> QED BY <3>1, <3>2
  <2>6. FurthestIn(seq, run, n, reached[n])
    BY <2>4, <2>5 DEF FurthestIn, next, R
  <2> QED BY <2>1, <2>6
<1>6. L \in G
  <2> HIDE DEF G
  <2>1. 0 .. L \subseteq G
    BY <1>2, <1>4, <1>5, Upward
  <2> QED BY <1>2, <2>1
<1> QED BY <1>1, <1>6 DEF L

LEMMA InOrderIs ==
  ASSUME NEW seq \in Collections, NEW run \in Asked
  PROVE  \E n \in 0 .. Len(run) :
           /\ FitsUpTo(ContainsInOrder(seq, run), run, n)
           /\ Embeds(seq, SubSeq(run, 1, n))
           /\ n < Len(run) => ~Embeds(seq, SubSeq(run, 1, n + 1))
<1> DEFINE n == FollowedUpTo(seq, run)
           answer == ContainsInOrder(seq, run)
<1>1. FurthestIn(seq, run, Len(seq), n)
  BY TheFurthest
<1>2. answer = Answer(n = Len(run), SubSeq(run, 1, n), <<>>)
  BY DEF ContainsInOrder
<1> HIDE DEF n, answer
<1>3. n \in 0 .. Len(run) /\ Len(run) \in Nat
  BY <1>1, AskedTypes DEF FurthestIn
<1>4. FitsUpTo(answer, run, n)
  <2>1. answer.holds = (n = Len(run)) /\ answer.named = SubSeq(run, 1, n)
    BY <1>2 DEF Answer
  <2> QED BY <1>3, <2>1 DEF FitsUpTo
<1>5. Embeds(seq, SubSeq(run, 1, n))
  BY <1>1, <1>3, EmbedsIs DEF FurthestIn
<1>6. ASSUME n < Len(run) PROVE ~Embeds(seq, SubSeq(run, 1, n + 1))
  <2>1. n + 1 \in 0 .. Len(run) /\ ~(n + 1 <= n)
    BY <1>3, <1>6
  <2>2. ~Placed(seq, run, Len(seq), n + 1)
    BY <1>1, <2>1 DEF FurthestIn
  <2> QED BY <2>1, <2>2, EmbedsIs
<1> QED BY <1>3, <1>4, <1>5, <1>6 DEF answer

-----------------------------------------------------------------------------
(* Asked of a text *)

LEMMA TextTypes ==
  ASSUME NEW text \in Texts
  PROVE  text \in Seq(Char) /\ Len(text) \in Nat /\ DOMAIN text = 1 .. Len(text)
<1>1. PICK k \in 0 .. MaxText : text \in [1 .. k -> Char]
  BY DEF Texts, SeqsUpTo
<1>2. k \in Nat
  BY ContainmentAssumption
<1> QED BY <1>1, <1>2

LEMMA PartsTypes ==
  ASSUME NEW parts \in Parts
  PROVE  /\ parts \in Seq(Seq(Char)) /\ Len(parts) \in Nat /\ DOMAIN parts = 1 .. Len(parts)
         /\ \A k \in DOMAIN parts : parts[k] \in Seq(Char) /\ Len(parts[k]) \in Nat
         /\ \A part \in Elements(parts) : part \in Seq(Char) /\ Len(part) \in Nat
<1>1. ASSUME NEW part \in SeqsUpTo(2, Char) PROVE part \in Seq(Char)
  <2>1. PICK k \in 0 .. 2 : part \in [1 .. k -> Char]
    BY DEF SeqsUpTo
  <2> QED BY <2>1
<1>2. PICK k \in 0 .. 2 : parts \in [1 .. k -> SeqsUpTo(2, Char)]
  <2>1. parts \in SeqsUpTo(2, SeqsUpTo(2, Char))
    BY DEF Parts
  <2> DEFINE set == SeqsUpTo(2, Char)
  <2>2. parts \in SeqsUpTo(2, set)
    BY <2>1
  <2> HIDE DEF set
  <2>3. \E k \in 0 .. 2 : parts \in [1 .. k -> set]
    BY <2>2 DEF SeqsUpTo
  <2> QED BY <2>3 DEF set
<1>3. parts \in [1 .. k -> Seq(Char)] /\ k \in Nat
  <2>1. SeqsUpTo(2, Char) \subseteq Seq(Char)
    BY <1>1
  <2> QED BY <1>2, <2>1
<1>4. parts \in Seq(Seq(Char)) /\ Len(parts) = k
  BY <1>3
<1>5. \A i \in DOMAIN parts : parts[i] \in Seq(Char)
  BY <1>3
<1>6. \A part \in Seq(Char) : Len(part) \in Nat
  OBVIOUS
<1> QED BY <1>3, <1>4, <1>5, <1>6 DEF Elements

LEMMA NotInTextIs ==
  ASSUME NEW text \in Texts, NEW parts \in Parts
  PROVE  NotInText(parts, text) = <<>> <=> \A part \in Elements(parts) : InText(part, text)
<1> DEFINE off == {part \in Elements(parts) : ~InText(part, text)}
<1>1. NotInText(parts, text) = Those(parts, off)
  BY DEF NotInText
<1>2. Those(parts, off) = <<>> <=> \A part \in Elements(parts) : part \notin off
  <2> HIDE DEF off
  <2> QED BY PartsTypes, NoneOfThose
<1> QED BY <1>1, <1>2

LEMMA TextContainsIs ==
  ASSUME NEW text \in Texts, NEW parts \in Parts
  PROVE  TextContains(text, parts).holds = \A part \in Elements(parts) : InText(part, text)
<1> DEFINE all == \A part \in Elements(parts) : InText(part, text)
<1>1. TextContains(text, parts).holds = (NotInText(parts, text) = <<>>)
  BY DEF TextContains, Answer
<1>2. NotInText(parts, text) = <<>> <=> all
  BY NotInTextIs
<1> HIDE DEF all
<1>3. (NotInText(parts, text) = <<>>) = all
  BY <1>2 DEF all
<1> QED BY <1>1, <1>3 DEF all

LEMMA TextContainsOnlyIs ==
  ASSUME NEW text \in Texts, NEW parts \in Parts
  PROVE  TextContainsOnly(text, parts).holds =
           /\ \A part \in Elements(parts) : InText(part, text)
           /\ \A i \in DOMAIN text : <<text[i]>> \in Elements(parts)
<1> DEFINE letters == [i \in DOMAIN text |-> <<text[i]>>]
           extra == Those(letters, Elements(letters) \ Elements(parts))
           all == \A part \in Elements(parts) : InText(part, text)
           only == \A i \in DOMAIN text : <<text[i]>> \in Elements(parts)
<1>1. TextContainsOnly(text, parts).holds = (extra = <<>> /\ NotInText(parts, text) = <<>>)
  BY DEF TextContainsOnly, Answer
<1>2. letters \in Seq(Seq(Char)) /\ DOMAIN letters = DOMAIN text /\ \A i \in DOMAIN text : letters[i] = <<text[i]>>
  <2>1. text \in Seq(Char) /\ Len(text) \in Nat /\ DOMAIN text = 1 .. Len(text)
    BY TextTypes
  <2>2. \A i \in 1 .. Len(text) : <<text[i]>> \in Seq(Char)
    BY <2>1
  <2>3. letters \in [1 .. Len(text) -> Seq(Char)]
    BY <2>1, <2>2
  <2> QED BY <2>1, <2>3
<1> HIDE DEF letters
<1>3. extra = <<>> <=> \A letter \in Elements(letters) : letter \in Elements(parts)
  BY <1>2, NoneOfThose
<1>4. extra = <<>> <=> only
  BY <1>2, <1>3 DEF Elements
<1>5. NotInText(parts, text) = <<>> <=> all
  BY NotInTextIs
<1>6. (extra = <<>> /\ NotInText(parts, text) = <<>>) = (all /\ only)
  <2> HIDE DEF extra
  <2> QED BY <1>4, <1>5
<1> HIDE DEF extra, all, only
<1>7. TextContainsOnly(text, parts).holds = (all /\ only)
  BY <1>1, <1>6
<1> QED BY <1>7 DEF all, only

LEMMA OneCharacter ==
  ASSUME NEW text \in Texts, NEW part \in Seq(Char), Len(part) = 1
  PROVE  InText(part, text) <=> InCharacters(part, text)
<1>1. text \in Seq(Char) /\ Len(text) \in Nat /\ DOMAIN text = 1 .. Len(text)
  BY TextTypes
<1>2. ASSUME NEW i \in 1 .. Len(text) PROVE SubSeq(text, i, i) = <<text[i]>>
  <2> DEFINE one == SubSeq(text, i, i)
  <2>1. one \in Seq(Char) /\ Len(one) = 1 /\ one[1] = text[i]
    BY <1>1
  <2> HIDE DEF one
  <2>2. one = <<one[1]>>
    BY <2>1
  <2>3. one = <<text[i]>>
    BY <2>1, <2>2
  <2> QED BY <2>3 DEF one
<1>3. ASSUME NEW i \in 1 .. Len(text) + 1
      PROVE  PartAt(text, part, i) <=> i \in 1 .. Len(text) /\ part = <<text[i]>>
  <2>1. i + Len(part) - 1 = i /\ (i <= Len(text) <=> i \in 1 .. Len(text))
    <3> DEFINE L == Len(text)
    <3> HIDE DEF L
    <3> QED BY <1>1 DEF L
  <2> QED BY <1>2, <2>1 DEF PartAt
<1>4. \A i \in 1 .. Len(text) : i \in 1 .. Len(text) + 1
  BY <1>1
<1> QED BY <1>1, <1>3, <1>4 DEF InText, InCharacters

LEMMA TextDoesNotContainIs ==
  ASSUME NEW text \in Texts, NEW parts \in Parts, \A part \in Elements(parts) : Len(part) = 1
  PROVE  TextDoesNotContain(text, parts).holds = \A part \in Elements(parts) : ~InText(part, text)
<1> DEFINE hashed  == Len(parts) > 1 /\ WorthHashing(text, parts)
           present == {part \in Elements(parts) : IF hashed THEN InCharacters(part, text) ELSE InText(part, text)}
           none == \A part \in Elements(parts) : ~InText(part, text)
<1>1. TextDoesNotContain(text, parts).holds = (Those(parts, present) = <<>>)
  BY DEF TextDoesNotContain, Answer
<1>2. \A part \in Elements(parts) : part \in present <=> InText(part, text)
  <2>1. \A part \in Elements(parts) : InText(part, text) <=> InCharacters(part, text)
    BY PartsTypes, OneCharacter
  <2> HIDE DEF hashed
  <2> QED BY <2>1
<1>3. Those(parts, present) = <<>> <=> \A part \in Elements(parts) : part \notin present
  <2> HIDE DEF present
  <2> QED BY PartsTypes, NoneOfThose
<1>4. (Those(parts, present) = <<>>) = none
  <2> HIDE DEF present
  <2> QED BY <1>2, <1>3
<1> HIDE DEF present, none
<1>5. TextDoesNotContain(text, parts).holds = none
  BY <1>1, <1>4
<1> QED BY <1>5 DEF none

\* The first n parts are found in turn, and the last of them ends before e.
Turned(text, parts, n, e) ==
  \E place \in [1 .. n -> 1 .. Len(text) + 1] :
    /\ \A k \in 1 .. n : PartAt(text, parts[k], place[k]) /\ (k > 1 => place[k - 1] + Len(parts[k - 1]) <= place[k])
    /\ e = IF n = 0 THEN 1 ELSE place[n] + Len(parts[n])

LEMMA TurnedBefore ==
  ASSUME NEW text \in Texts, NEW parts \in Parts, NEW n \in 1 .. Len(parts), NEW e, Turned(text, parts, n, e)
  PROVE  \E before \in Nat, i \in 1 .. Len(text) + 1 :
           Turned(text, parts, n - 1, before) /\ before <= i /\ PartAt(text, parts[n], i) /\ e = i + Len(parts[n])
<1> DEFINE T == 1 .. Len(text) + 1
<1>1. PICK place \in [1 .. n -> T] :
        /\ \A k \in 1 .. n : PartAt(text, parts[k], place[k]) /\ (k > 1 => place[k - 1] + Len(parts[k - 1]) <= place[k])
        /\ e = IF n = 0 THEN 1 ELSE place[n] + Len(parts[n])
  BY DEF Turned
<1>2. n \in Nat /\ n # 0 /\ n \in 1 .. n /\ Len(text) \in Nat
  BY TextTypes, PartsTypes
<1>3. \A k \in DOMAIN parts : Len(parts[k]) \in Nat
  BY PartsTypes
<1> DEFINE fewer == [k \in 1 .. n - 1 |-> place[k]]
           before == IF n - 1 = 0 THEN 1 ELSE fewer[n - 1] + Len(parts[n - 1])
<1>4. \A k \in 1 .. n - 1 : k \in 1 .. n
  BY <1>2
<1>5. fewer \in [1 .. n - 1 -> T] /\ \A k \in 1 .. n - 1 : fewer[k] = place[k]
  <2> HIDE DEF T
  <2> QED BY <1>4
<1> HIDE DEF fewer
<1>6. \A k \in 1 .. n - 1 : PartAt(text, parts[k], fewer[k]) /\ (k > 1 => fewer[k - 1] + Len(parts[k - 1]) <= fewer[k])
  <2>1. \A k \in 1 .. n - 1 : k > 1 => k - 1 \in 1 .. n - 1
    BY <1>2
  <2> QED BY <1>1, <1>4, <1>5, <2>1
<1>7. Turned(text, parts, n - 1, before)
  BY <1>5, <1>6 DEF Turned
<1>8. before \in Nat /\ before <= place[n]
  <2>1. place[n] \in T
    BY <1>1, <1>2
  <2>2. CASE n - 1 = 0
    BY <1>2, <2>1, <2>2
  <2>3. CASE n - 1 # 0
    <3>1. n - 1 \in 1 .. n - 1 /\ n > 1 /\ n - 1 \in DOMAIN parts
      BY <1>2, <2>3, PartsTypes
    <3>2. fewer[n - 1] = place[n - 1] /\ place[n - 1] \in T
      BY <1>4, <1>5, <3>1
    <3>3. place[n - 1] + Len(parts[n - 1]) <= place[n]
      BY <1>1, <1>2, <3>1
    <3>4. place[n - 1] \in Nat /\ Len(parts[n - 1]) \in Nat
      BY <1>2, <1>3, <3>1, <3>2
    <3>5. before = place[n - 1] + Len(parts[n - 1])
      BY <2>3, <3>2
    <3> HIDE DEF before
    <3> QED BY <3>3, <3>4, <3>5
  <2> QED BY <2>2, <2>3
<1>9. place[n] \in T /\ PartAt(text, parts[n], place[n]) /\ e = place[n] + Len(parts[n])
  BY <1>1, <1>2
<1> HIDE DEF before
<1> QED BY <1>7, <1>8, <1>9

LEMMA TurnedOn ==
  ASSUME NEW text \in Texts, NEW parts \in Parts, NEW n \in 1 .. Len(parts), NEW before,
         Turned(text, parts, n - 1, before), NEW i \in 1 .. Len(text) + 1, before <= i, PartAt(text, parts[n], i)
  PROVE  Turned(text, parts, n, i + Len(parts[n]))
<1> DEFINE T == 1 .. Len(text) + 1
<1>1. PICK place \in [1 .. n - 1 -> T] :
        /\ \A k \in 1 .. n - 1 : PartAt(text, parts[k], place[k]) /\ (k > 1 => place[k - 1] + Len(parts[k - 1]) <= place[k])
        /\ before = IF n - 1 = 0 THEN 1 ELSE place[n - 1] + Len(parts[n - 1])
  BY DEF Turned
<1>2. n \in Nat /\ n # 0 /\ n \in 1 .. n
  BY PartsTypes
<1> DEFINE longer == [k \in 1 .. n |-> IF k = n THEN i ELSE place[k]]
<1>3. \A k \in 1 .. n : k = n \/ (k \in 1 .. n - 1 /\ k # n)
  BY <1>2
<1>4. longer \in [1 .. n -> T] /\ longer[n] = i /\ \A k \in 1 .. n - 1 : longer[k] = place[k]
  <2>1. \A k \in 1 .. n - 1 : k \in 1 .. n /\ k # n
    BY <1>2
  <2> HIDE DEF T
  <2>2. i \in T
    BY DEF T
  <2> QED BY <1>2, <1>3, <2>1, <2>2
<1> HIDE DEF longer
<1>5. ASSUME NEW k \in 1 .. n
      PROVE  PartAt(text, parts[k], longer[k]) /\ (k > 1 => longer[k - 1] + Len(parts[k - 1]) <= longer[k])
  <2>1. CASE k = n
    <3>1. k > 1 => n - 1 # 0 /\ n - 1 \in 1 .. n - 1
      BY <1>2, <2>1
    <3> QED BY <1>1, <1>4, <2>1, <3>1
  <2>2. CASE k \in 1 .. n - 1
    <3>1. k > 1 => k - 1 \in 1 .. n - 1
      BY <1>2, <2>2
    <3> QED BY <1>1, <1>4, <2>2, <3>1
  <2> QED BY <1>3, <2>1, <2>2
<1> QED BY <1>2, <1>4, <1>5 DEF Turned

\* Each is looked for from the end of the one before, and the first place it is found at leaves most to the next.
EndsUpTo(text, parts, end) ==
  /\ end \in [0 .. Len(parts) -> Nat] /\ end[0] = 1
  /\ \A n \in 1 .. Len(parts) :
       LET at == {i \in 1 .. Len(text) + 1 : end[n - 1] # 0 /\ i >= end[n - 1] /\ PartAt(text, parts[n], i)}
       IN  \/ at = {} /\ end[n] = 0
           \/ \E i \in at : end[n] = i + Len(parts[n]) /\ \A j \in at : i <= j

LEMMA EndsTold ==
  ASSUME NEW text \in Texts, NEW parts \in Parts
  PROVE  \E end : EndsUpTo(text, parts, end) /\ FoundInTurn(text, parts) = end[Len(parts)]
<1> DEFINE L == Len(parts)
           At(e, n) == {i \in 1 .. Len(text) + 1 : e # 0 /\ i >= e /\ PartAt(text, parts[n], i)}
           X(e, n) == IF At(e, n) = {} THEN 0 ELSE (CHOOSE i \in At(e, n) : \A j \in At(e, n) : i <= j) + Len(parts[n])
           F(u, n) == IF n = 0 THEN 1 ELSE X(u[n - 1], n)
           step == [q \in (1 .. L) \X Nat |-> X(q[2], q[1])]
           P(u) == u = [n \in 0 .. L |-> F(u, n)]
           end == CHOOSE u : P(u)
<1>1. L \in Nat /\ 1 \in Nat
  BY PartsTypes
<1>2. ASSUME NEW e \in Nat, NEW n \in 1 .. L
      PROVE  \/ At(e, n) = {} /\ X(e, n) = 0
             \/ \E i \in At(e, n) : X(e, n) = i + Len(parts[n]) /\ \A j \in At(e, n) : i <= j
  <2> DEFINE at == At(e, n)
             first == CHOOSE i \in at : \A j \in at : i <= j
  <2>1. X(e, n) = IF at = {} THEN 0 ELSE first + Len(parts[n])
    OBVIOUS
  <2>2. at \in SUBSET Nat
    BY TextTypes
  <2> HIDE DEF X, At
  <2>3. CASE at = {}
    BY <2>1, <2>3
  <2>4. CASE at # {}
    <3>1. \E i \in at : \A j \in at : i <= j
      BY <2>2, <2>4, FirstOf
    <3>2. first \in at /\ \A j \in at : first <= j
      BY <3>1
    <3> HIDE DEF first
    <3> QED BY <2>1, <2>4, <3>2
  <2> QED BY <2>3, <2>4
<1>3. ASSUME NEW e \in Nat, NEW n \in 1 .. L PROVE X(e, n) \in Nat
  <2>1. Len(parts[n]) \in Nat /\ \A i \in At(e, n) : i \in Nat
    BY PartsTypes, TextTypes
  <2> HIDE DEF X, At
  <2> QED BY <1>2, <2>1
<1> HIDE DEF X
<1>4. step \in [(1 .. L) \X Nat -> Nat]
  <2> HIDE DEF L
  <2> QED BY <1>3
<1>5. PICK f : IsToldUpTo(f, L, Nat, 1, step)
  <2> HIDE DEF step, L
  <2> QED BY <1>1, <1>4, UpwardRecursion
<1>6. P(f)
  <2>1. f \in [0 .. L -> Nat] /\ f[0] = 1 /\ \A n \in 1 .. L : f[n] = step[<<n, f[n - 1]>>]
    BY <1>5 DEF IsToldUpTo
  <2>2. ASSUME NEW n \in 0 .. L PROVE f[n] = F(f, n)
    <3>1. CASE n = 0
      BY <2>1, <3>1
    <3>2. CASE n # 0
      <4>1. n \in 1 .. L /\ n - 1 \in 0 .. L
        BY <1>1, <3>2
      <4>2. <<n, f[n - 1]>> \in (1 .. L) \X Nat /\ f[n] = step[<<n, f[n - 1]>>]
        BY <2>1, <4>1
      <4> HIDE DEF L
      <4> QED BY <3>2, <4>2
    <3> QED BY <3>1, <3>2
  <2> HIDE DEF F, L
  <2>3. f = [n \in 0 .. L |-> F(f, n)]
    BY <2>1, <2>2
  <2> QED BY <2>3
<1>7. P(end)
  <2> HIDE DEF P
  <2> QED BY <1>6
<1>8. FoundInTurn(text, parts) = end[L]
  BY DEF FoundInTurn, X
<1> HIDE DEF end
<1>9. end = [n \in 0 .. L |-> F(end, n)]
  BY <1>7
<1>10. ASSUME NEW n \in 0 .. L PROVE end[n] = F(end, n)
  <2> HIDE DEF F, L
  <2> QED BY <1>9
<1>11. end[0] = 1
  <2>1. 0 \in 0 .. L
    BY <1>1
  <2> HIDE DEF L
  <2> QED BY <1>10, <2>1
<1>12. ASSUME NEW n \in 1 .. L PROVE end[n] = X(end[n - 1], n)
  <2>1. n \in 0 .. L /\ n # 0
    BY <1>1
  <2> HIDE DEF L
  <2> QED BY <1>10, <2>1
<1> DEFINE N == {m \in 0 .. L : end[m] \in Nat}
<1>13. 0 .. L \subseteq N
  <2>1. 0 \in N
    BY <1>1, <1>11
  <2>2. ASSUME NEW n \in 1 .. L, n - 1 \in N PROVE n \in N
    <3>1. end[n - 1] \in Nat /\ n \in 0 .. L
      BY <1>1, <2>2
    <3> HIDE DEF L
    <3> QED BY <1>3, <1>12, <3>1
  <2> HIDE DEF N, L
  <2> QED BY <1>1, <2>1, <2>2, Upward
<1>14. end \in [0 .. L -> Nat]
  <2>1. \A n \in 0 .. L : end[n] \in Nat
    BY <1>13
  <2> HIDE DEF F, L
  <2> QED BY <1>9, <2>1
<1>15. ASSUME NEW n \in 1 .. L
       PROVE  \/ At(end[n - 1], n) = {} /\ end[n] = 0
              \/ \E i \in At(end[n - 1], n) : end[n] = i + Len(parts[n]) /\ \A j \in At(end[n - 1], n) : i <= j
  <2>1. n - 1 \in 0 .. L
    BY <1>1
  <2>2. end[n - 1] \in Nat
    BY <1>14, <2>1
  <2> HIDE DEF At, L
  <2> QED BY <1>2, <1>12, <2>2
<1>16. EndsUpTo(text, parts, end)
  BY <1>11, <1>14, <1>15 DEF EndsUpTo
<1> QED BY <1>8, <1>16

\* The end of the earliest that are in turn, or 0 if none are.
FirstEnd(text, parts, n, e) ==
  /\ e # 0 => Turned(text, parts, n, e)
  /\ \A other \in Nat : Turned(text, parts, n, other) => e # 0 /\ e <= other

LEMMA TheFirstEnd ==
  ASSUME NEW text \in Texts, NEW parts \in Parts
  PROVE  FirstEnd(text, parts, Len(parts), FoundInTurn(text, parts))
<1> DEFINE L == Len(parts)
<1>1. PICK end : EndsUpTo(text, parts, end) /\ FoundInTurn(text, parts) = end[L]
  BY EndsTold
<1>2. L \in Nat /\ end \in [0 .. L -> Nat] /\ end[0] = 1 /\ Len(text) \in Nat
  BY <1>1, PartsTypes, TextTypes DEF EndsUpTo
<1>3. \A n \in 1 .. L : Len(parts[n]) \in Nat
  BY PartsTypes
<1> DEFINE At(n) == {i \in 1 .. Len(text) + 1 : end[n - 1] # 0 /\ i >= end[n - 1] /\ PartAt(text, parts[n], i)}
<1>4. \A n \in 1 .. L : \/ At(n) = {} /\ end[n] = 0
                        \/ \E i \in At(n) : end[n] = i + Len(parts[n]) /\ \A j \in At(n) : i <= j
  BY <1>1 DEF EndsUpTo
<1> DEFINE G == {n \in 0 .. L : FirstEnd(text, parts, n, end[n])}
<1>5. 0 \in G
  <2>1. Turned(text, parts, 0, 1)
    <3>1. <<>> \in [1 .. 0 -> 1 .. Len(text) + 1] /\ 1 .. 0 = {}
      <4>1. 1 .. 0 = {} /\ <<>> \in [{} -> 1 .. Len(text) + 1]
        OBVIOUS
      <4> QED BY <4>1
    <3> QED BY <3>1 DEF Turned
  <2>2. \A other \in Nat : Turned(text, parts, 0, other) => other = 1
    BY DEF Turned
  <2> QED BY <1>2, <2>1, <2>2 DEF FirstEnd
<1> HIDE DEF L
<1>6. ASSUME NEW n \in 1 .. L, n - 1 \in G PROVE n \in G
  <2>1. n \in 0 .. L /\ n - 1 \in 0 .. L /\ end[n - 1] \in Nat /\ end[n] \in Nat /\ n \in 1 .. Len(parts)
    BY <1>2 DEF L
  <2>2. FirstEnd(text, parts, n - 1, end[n - 1])
    BY <1>6
  <2>3. \/ At(n) = {} /\ end[n] = 0
        \/ \E i \in At(n) : end[n] = i + Len(parts[n]) /\ \A j \in At(n) : i <= j
    BY <1>4
  <2>4. \A i \in At(n) : i \in 1 .. Len(text) + 1 /\ end[n - 1] # 0 /\ end[n - 1] <= i /\ PartAt(text, parts[n], i)
    BY <1>2, <2>1
  <2>5. ASSUME end[n] # 0 PROVE Turned(text, parts, n, end[n])
    <3>1. PICK i \in At(n) : end[n] = i + Len(parts[n])
      BY <2>3, <2>5
    <3>2. i \in 1 .. Len(text) + 1 /\ end[n - 1] # 0 /\ end[n - 1] <= i /\ PartAt(text, parts[n], i)
      BY <2>4
    <3>3. Turned(text, parts, n - 1, end[n - 1])
      BY <2>2, <3>2 DEF FirstEnd
    <3> HIDE DEF At
    <3>4. Turned(text, parts, n, i + Len(parts[n]))
      BY <2>1, <3>2, <3>3, TurnedOn
    <3> QED BY <3>1, <3>4
  <2>6. ASSUME NEW other \in Nat, Turned(text, parts, n, other) PROVE end[n] # 0 /\ end[n] <= other
    <3>1. PICK before \in Nat, i \in 1 .. Len(text) + 1 :
            Turned(text, parts, n - 1, before) /\ before <= i /\ PartAt(text, parts[n], i) /\ other = i + Len(parts[n])
      BY <2>1, <2>6, TurnedBefore
    <3>2. end[n - 1] # 0 /\ end[n - 1] <= before
      BY <2>2, <3>1 DEF FirstEnd
    <3>3. i >= end[n - 1]
      BY <1>2, <2>1, <3>1, <3>2
    <3>4. i \in At(n)
      BY <3>1, <3>2, <3>3
    <3>5. PICK first \in At(n) : end[n] = first + Len(parts[n]) /\ \A j \in At(n) : first <= j
      BY <2>3, <3>4
    <3>6. first \in 1 .. Len(text) + 1 /\ Len(parts[n]) \in Nat /\ first <= i
      BY <1>3, <2>4, <3>4, <3>5
    <3> HIDE DEF At
    <3> QED BY <1>2, <3>1, <3>5, <3>6
  <2>7. FirstEnd(text, parts, n, end[n])
    BY <2>5, <2>6 DEF FirstEnd
  <2> QED BY <2>1, <2>7
<1>7. L \in G
  <2> HIDE DEF G
  <2>1. 0 .. L \subseteq G
    BY <1>2, <1>5, <1>6, Upward
  <2> QED BY <1>2, <2>1
<1> QED BY <1>1, <1>7 DEF L

LEMMA InTurnIs ==
  ASSUME NEW text \in Texts, NEW parts \in Parts
  PROVE  TextContainsSequence(text, parts).holds = InTurn(text, parts)
<1> DEFINE L == Len(parts)
           e == FoundInTurn(text, parts)
<1>1. FirstEnd(text, parts, L, e)
  BY TheFirstEnd
<1>2. L \in Nat /\ DOMAIN parts = 1 .. L /\ \A k \in 1 .. L : Len(parts[k]) \in Nat
  BY PartsTypes
<1>3. Len(text) \in Nat
  BY TextTypes
<1> HIDE DEF L, e
<1>4. InTurn(text, parts) <=> \E other \in Nat : Turned(text, parts, L, other)
  <2>1. ASSUME NEW place \in [1 .. L -> 1 .. Len(text) + 1] PROVE (IF L = 0 THEN 1 ELSE place[L] + Len(parts[L])) \in Nat
    <3>1. L # 0 => L \in 1 .. L
      BY <1>2
    <3>2. L # 0 => place[L] \in Nat /\ Len(parts[L]) \in Nat
      BY <1>2, <1>3, <3>1
    <3> QED BY <3>2
  <2> QED BY <1>2, <2>1 DEF InTurn, Turned
<1>5. (e # 0) = InTurn(text, parts)
  <2>1. e # 0 => InTurn(text, parts)
    <3>1. e # 0 => Turned(text, parts, L, e)
      BY <1>1 DEF FirstEnd
    <3> QED BY <1>2, <3>1 DEF Turned, InTurn
  <2>2. InTurn(text, parts) => e # 0
    BY <1>1, <1>4 DEF FirstEnd
  <2> QED BY <2>1, <2>2 DEF InTurn
<1> QED BY <1>5 DEF TextContainsSequence, Answer, e

-----------------------------------------------------------------------------
(* Left over on either side *)

LEMMA InPairingsOf ==
  ASSUME NEW accepted, NEW D, NEW pairs \in [D -> DOMAIN accepted],
         \A option \in D : option \in accepted[pairs[option]],
         \A one, other \in D : pairs[one] = pairs[other] => one = other
  PROVE  pairs \in PairingsOf(accepted)
<1> DEFINE all == UNION {accepted[entry] : entry \in DOMAIN accepted}
           of(some) == {p \in [some -> DOMAIN accepted] :
                          /\ \A option \in some : option \in accepted[p[option]]
                          /\ \A one, other \in some : p[one] = p[other] => one = other}
<1>1. D \in SUBSET all
  OBVIOUS
<1>2. pairs \in of(D)
  OBVIOUS
<1>3. PairingsOf(accepted) = UNION {of(some) : some \in SUBSET all}
  BY DEF PairingsOf
<1> HIDE DEF all, of
<1> QED BY <1>1, <1>2, <1>3

LEMMA OutOfPairingsOf ==
  ASSUME NEW accepted, NEW pairs \in PairingsOf(accepted)
  PROVE  /\ pairs \in [DOMAIN pairs -> DOMAIN accepted]
         /\ \A option \in DOMAIN pairs : option \in accepted[pairs[option]]
         /\ \A one, other \in DOMAIN pairs : pairs[one] = pairs[other] => one = other
BY DEF PairingsOf

\* No pairing has more pairs.
IsBest(accepted, pairs) ==
  pairs \in PairingsOf(accepted) /\ \A other \in PairingsOf(accepted) : Cardinality(DOMAIN other) <= Cardinality(DOMAIN pairs)

LEMMA PairsAreFew ==
  ASSUME NEW N \in Nat, NEW accepted, \A e \in DOMAIN accepted : accepted[e] \subseteq 1 .. N, NEW pairs \in PairingsOf(accepted)
  PROVE  DOMAIN pairs \subseteq 1 .. N /\ IsFiniteSet(DOMAIN pairs) /\ Cardinality(DOMAIN pairs) \in 0 .. N
<1>1. DOMAIN pairs \subseteq 1 .. N
  BY OutOfPairingsOf
<1>2. IsFiniteSet(1 .. N) /\ Cardinality(1 .. N) = N
  BY FS_Interval
<1> DEFINE S == DOMAIN pairs
<1> HIDE DEF S
<1>3. S \subseteq 1 .. N
  BY <1>1 DEF S
<1>4. IsFiniteSet(S) /\ Cardinality(S) <= N
  BY <1>2, <1>3, FS_Subset
<1>5. Cardinality(S) \in Nat
  BY <1>4, FS_CardinalityType
<1> QED BY <1>3, <1>4, <1>5 DEF S

LEMMA MostIs ==
  ASSUME NEW N \in Nat, NEW accepted, \A e \in DOMAIN accepted : accepted[e] \subseteq 1 .. N
  PROVE  /\ \E pairs : IsBest(accepted, pairs) /\ Most(accepted) = Cardinality(DOMAIN pairs)
         /\ \A pairs : IsBest(accepted, pairs) => Most(accepted) = Cardinality(DOMAIN pairs)
<1> DEFINE numbers == {Cardinality(DOMAIN pairs) : pairs \in PairingsOf(accepted)}
           most == Most(accepted)
<1>1. numbers \in SUBSET (0 .. N)
  BY PairsAreFew
<1>2. 0 \in numbers
  <2>1. <<>> \in [{} -> DOMAIN accepted] /\ DOMAIN <<>> = {}
    OBVIOUS
  <2>2. <<>> \in PairingsOf(accepted)
    BY <2>1, InPairingsOf
  <2>3. Cardinality(DOMAIN <<>>) = 0
    BY <2>1, FS_EmptySet
  <2> QED BY <2>2, <2>3
<1>3. most = Largest(numbers)
  BY DEF Most
<1>4. most \in numbers /\ \A other \in numbers : other <= most
  <2> HIDE DEF numbers, most
  <2> QED BY <1>1, <1>2, <1>3, LargestIs
<1>5. \A n \in numbers : n \in Int
  <2> HIDE DEF numbers
  <2> QED BY <1>1
<1> HIDE DEF most
<1>6. PICK pairs \in PairingsOf(accepted) : most = Cardinality(DOMAIN pairs)
  BY <1>4
<1>7. IsBest(accepted, pairs)
  <2>1. ASSUME NEW other \in PairingsOf(accepted) PROVE Cardinality(DOMAIN other) <= Cardinality(DOMAIN pairs)
    <3>1. Cardinality(DOMAIN other) \in numbers
      OBVIOUS
    <3> HIDE DEF numbers
    <3> QED BY <1>4, <1>6, <3>1
  <2> QED BY <2>1 DEF IsBest
<1>8. ASSUME NEW best, IsBest(accepted, best) PROVE most = Cardinality(DOMAIN best)
  <2>1. Cardinality(DOMAIN best) \in numbers /\ Cardinality(DOMAIN pairs) \in numbers
    BY <1>8 DEF IsBest
  <2>2. Cardinality(DOMAIN best) <= most /\ most <= Cardinality(DOMAIN best)
    <3>1. Cardinality(DOMAIN pairs) <= Cardinality(DOMAIN best)
      BY <1>8 DEF IsBest
    <3> HIDE DEF numbers
    <3> QED BY <1>4, <1>6, <2>1, <3>1
  <2>3. Cardinality(DOMAIN best) \in Int /\ most \in Int
    <3> HIDE DEF numbers
    <3> QED BY <1>4, <1>5, <2>1
  <2> QED BY <2>2, <2>3
<1> QED BY <1>6, <1>7, <1>8 DEF most

\* What the best pairing leaves over on the two sides does not go together.
LEMMA BestLeavesNone ==
  ASSUME NEW N \in Nat, NEW accepted, \A e \in DOMAIN accepted : accepted[e] \subseteq 1 .. N,
         NEW pairs, IsBest(accepted, pairs), NEW e \in DOMAIN accepted, NEW i \in accepted[e]
  PROVE  i \in DOMAIN pairs \/ e \in Entries(pairs)
<1> SUFFICES ASSUME i \notin DOMAIN pairs, e \notin Entries(pairs) PROVE FALSE
  OBVIOUS
<1> DEFINE more == With(pairs, i, e)
           D == DOMAIN pairs
<1>1. pairs \in PairingsOf(accepted)
  BY DEF IsBest
<1>2. /\ pairs \in [D -> DOMAIN accepted]
      /\ \A option \in D : option \in accepted[pairs[option]]
      /\ \A one, other \in D : pairs[one] = pairs[other] => one = other
  BY <1>1, OutOfPairingsOf
<1>3. \A option \in D : pairs[option] # e
  BY DEF Entries
<1>4. DOMAIN more = D \cup {i} /\ more \in [D \cup {i} -> DOMAIN accepted] /\ more[i] = e /\ \A o \in D : more[o] = pairs[o]
  BY <1>2 DEF With
<1>5. IsFiniteSet(D) /\ Cardinality(D) \in Nat
  <2> HIDE DEF more
  <2>1. IsFiniteSet(DOMAIN pairs) /\ Cardinality(DOMAIN pairs) \in 0 .. N
    BY <1>1, PairsAreFew
  <2> QED BY <2>1
<1> HIDE DEF more, D
<1>6. more \in PairingsOf(accepted)
  <2>1. \A option \in D \cup {i} : option \in accepted[more[option]]
    BY <1>2, <1>4
  <2>2. \A one, other \in D \cup {i} : more[one] = more[other] => one = other
    BY <1>2, <1>3, <1>4
  <2> QED BY <1>4, <2>1, <2>2, InPairingsOf
<1>7. Cardinality(DOMAIN more) = Cardinality(D) + 1
  <2>1. i \notin D
    BY DEF D
  <2> QED BY <1>4, <1>5, <2>1, FS_AddElement
<1>8. Cardinality(DOMAIN more) <= Cardinality(D)
  BY <1>6 DEF IsBest, D
<1> QED BY <1>5, <1>7, <1>8

SurplusUpTo(seq, other, surplus) ==
  /\ surplus \in [0 .. Len(seq) -> Seq(Elements(seq))] /\ surplus[0] = <<>>
  /\ \A n \in 1 .. Len(seq) :
       Len(surplus[n]) = IF \E m \in 1 .. n - 1 : Same(seq[m], seq[n]) THEN Len(surplus[n - 1])
                         ELSE Len(surplus[n - 1]) + (IF Times(seq[n], seq) > Times(seq[n], other)
                                                     THEN Times(seq[n], seq) - Times(seq[n], other) ELSE 0)

LEMMA CopiesOf ==
  ASSUME NEW S, NEW row \in Seq(S), NEW x \in S, NEW times \in Int
  PROVE  /\ row \o [k \in 1 .. times |-> x] \in Seq(S)
         /\ Len(row \o [k \in 1 .. times |-> x]) = Len(row) + (IF times > 0 THEN times ELSE 0)
<1> DEFINE copies == [k \in 1 .. times |-> x]
<1>1. copies \in Seq(S) /\ Len(copies) = IF times > 0 THEN times ELSE 0
  <2>1. CASE times > 0
    BY <2>1
  <2>2. CASE ~(times > 0)
    <3>1. 1 .. times = {} /\ 1 .. 0 = {}
      BY <2>2
    <3>2. copies = <<>>
      BY <3>1
    <3> HIDE DEF copies
    <3>3. copies \in Seq(S) /\ Len(copies) = 0
      BY <3>2
    <3> QED BY <2>2, <3>3
  <2> QED BY <2>1, <2>2
<1> HIDE DEF copies
<1>2. row \o copies \in Seq(S) /\ Len(row \o copies) = Len(row) + Len(copies)
  BY <1>1
<1> QED BY <1>1, <1>2 DEF copies

LEMMA SurplusTold ==
  ASSUME NEW S, NEW R, NEW seq \in Seq(S), NEW other \in Seq(R), Counted(Elements(seq) \cup Elements(other))
  PROVE  \E surplus : SurplusUpTo(seq, other, surplus) /\ CountedSurplus(seq, other) = surplus[Len(seq)]
<1> DEFINE L == Len(seq)
           T == Seq(Elements(seq))
           times(n) == Count(seq, seq[n], TRUE) - Count(other, seq[n], TRUE)
           X(row, n) == IF Held(seq[n], SubSeq(seq, 1, n - 1), TRUE) THEN row ELSE row \o [k \in 1 .. times(n) |-> seq[n]]
           F(u, n) == IF n = 0 THEN <<>> ELSE X(u[n - 1], n)
           step == [q \in (1 .. L) \X T |-> X(q[2], q[1])]
           P(u) == u = [n \in 0 .. L |-> F(u, n)]
           surplus == CHOOSE u : P(u)
<1>1. L \in Nat /\ <<>> \in T /\ seq \in Seq(S) /\ DOMAIN seq = 1 .. L /\ \A n \in 1 .. L : seq[n] \in Elements(seq)
  BY DEF Elements
<1>2. Elements(seq) \cup Elements(other) \subseteq Safe \ Refuses
  BY DEF Counted, Hashes
<1>3. ASSUME NEW n \in 1 .. L
      PROVE  /\ times(n) = Times(seq[n], seq) - Times(seq[n], other)
             /\ Times(seq[n], seq) \in Nat /\ Times(seq[n], other) \in Nat
             /\ Held(seq[n], SubSeq(seq, 1, n - 1), TRUE) <=> \E m \in 1 .. n - 1 : Same(seq[m], seq[n])
  <2>1. SureOf(seq[n], seq, TRUE) /\ SureOf(seq[n], other, TRUE)
    BY <1>1, <1>2 DEF SureOf
  <2>2. Count(seq, seq[n], TRUE) = Times(seq[n], seq) /\ Count(other, seq[n], TRUE) = Times(seq[n], other)
    BY <2>1, HashedAlike
  <2>3. Times(seq[n], seq) \in Nat /\ Times(seq[n], other) \in Nat
    BY <1>1, TimesType
  <2> DEFINE front == SubSeq(seq, 1, n - 1)
  <2>4. DOMAIN front = 1 .. n - 1 /\ \A m \in 1 .. n - 1 : front[m] = seq[m] /\ m \in 1 .. L
    <3>1. n - 1 \in 0 .. L /\ n \in Nat
      BY <1>1
    <3>2. PICK p \in 0 .. L : p = n - 1
      BY <3>1
    <3>3. Len(SubSeq(seq, 1, p)) = p /\ \A m \in 1 .. p : SubSeq(seq, 1, p)[m] = seq[m]
      BY <1>1
    <3>4. DOMAIN SubSeq(seq, 1, p) = 1 .. p /\ \A m \in 1 .. p : m \in 1 .. L
      BY <1>1
    <3> QED BY <3>2, <3>3, <3>4
  <2> HIDE DEF front
  <2>5. SureOf(seq[n], front, TRUE)
    BY <1>1, <1>2, <2>4 DEF SureOf, Elements
  <2>6. Held(seq[n], front, TRUE) <=> PlacesOfItem(seq[n], front) # {}
    BY <2>5, HashedAlike
  <2>7. PlacesOfItem(seq[n], front) # {} <=> \E m \in 1 .. n - 1 : Same(seq[m], seq[n])
    BY <2>4 DEF PlacesOfItem
  <2> QED BY <2>2, <2>3, <2>6, <2>7 DEF front
<1>4. ASSUME NEW n \in 1 .. L, NEW row \in T
      PROVE  /\ X(row, n) \in T
             /\ Len(X(row, n)) = IF \E m \in 1 .. n - 1 : Same(seq[m], seq[n]) THEN Len(row)
                                 ELSE Len(row) + (IF Times(seq[n], seq) > Times(seq[n], other)
                                                  THEN Times(seq[n], seq) - Times(seq[n], other) ELSE 0)
  <2> DEFINE held == Held(seq[n], SubSeq(seq, 1, n - 1), TRUE)
             copied == row \o [k \in 1 .. times(n) |-> seq[n]]
  <2>1. times(n) \in Int /\ (times(n) > 0 <=> Times(seq[n], seq) > Times(seq[n], other))
    <3>1. times(n) = Times(seq[n], seq) - Times(seq[n], other) /\ Times(seq[n], seq) \in Nat /\ Times(seq[n], other) \in Nat
      BY <1>3
    <3> HIDE DEF times
    <3> QED BY <3>1
  <2>2. copied \in T /\ Len(copied) = Len(row) + (IF times(n) > 0 THEN times(n) ELSE 0)
    <3>1. seq[n] \in Elements(seq)
      BY <1>1
    <3> HIDE DEF times
    <3> QED BY <2>1, <3>1, CopiesOf
  <2>3. X(row, n) = IF held THEN row ELSE copied
    OBVIOUS
  <2>4. held <=> \E m \in 1 .. n - 1 : Same(seq[m], seq[n])
    BY <1>3
  <2>5. times(n) = Times(seq[n], seq) - Times(seq[n], other)
    BY <1>3
  <2> HIDE DEF X, held, copied, times
  <2> QED BY <2>1, <2>2, <2>3, <2>4, <2>5
<1> HIDE DEF X
<1>5. step \in [(1 .. L) \X T -> T]
  <2> HIDE DEF L, T
  <2> QED BY <1>4
<1>6. PICK f : IsToldUpTo(f, L, T, <<>>, step)
  <2> HIDE DEF step, L, T
  <2> QED BY <1>1, <1>5, UpwardRecursion
<1>7. P(f)
  <2>1. f \in [0 .. L -> T] /\ f[0] = <<>> /\ \A n \in 1 .. L : f[n] = step[<<n, f[n - 1]>>]
    BY <1>6 DEF IsToldUpTo
  <2>2. ASSUME NEW n \in 0 .. L PROVE f[n] = F(f, n)
    <3>1. CASE n = 0
      BY <2>1, <3>1
    <3>2. CASE n # 0
      <4>1. n \in 1 .. L /\ n - 1 \in 0 .. L
        BY <1>1, <3>2
      <4>2. <<n, f[n - 1]>> \in (1 .. L) \X T /\ f[n] = step[<<n, f[n - 1]>>]
        BY <2>1, <4>1
      <4> HIDE DEF L, T
      <4> QED BY <3>2, <4>2
    <3> QED BY <3>1, <3>2
  <2> HIDE DEF F, L, T
  <2>3. f = [n \in 0 .. L |-> F(f, n)]
    BY <2>1, <2>2
  <2> QED BY <2>3
<1>8. P(surplus)
  <2> HIDE DEF P
  <2> QED BY <1>7
<1>9. CountedSurplus(seq, other) = surplus[L]
  BY DEF CountedSurplus, X
<1> HIDE DEF surplus
<1>10. surplus = [n \in 0 .. L |-> F(surplus, n)]
  BY <1>8
<1>11. ASSUME NEW n \in 0 .. L PROVE surplus[n] = F(surplus, n)
  <2> HIDE DEF F, L
  <2> QED BY <1>10
<1>12. surplus[0] = <<>>
  <2>1. 0 \in 0 .. L
    BY <1>1
  <2> HIDE DEF L
  <2> QED BY <1>11, <2>1
<1>13. ASSUME NEW n \in 1 .. L PROVE surplus[n] = X(surplus[n - 1], n)
  <2>1. n \in 0 .. L /\ n # 0
    BY <1>1
  <2> HIDE DEF L
  <2> QED BY <1>11, <2>1
<1> DEFINE N == {m \in 0 .. L : surplus[m] \in T}
<1>14. 0 .. L \subseteq N
  <2>1. 0 \in N
    <3>1. 0 \in 0 .. L
      BY <1>1
    <3> HIDE DEF L, T
    <3> QED BY <1>1, <1>12, <3>1
  <2>2. ASSUME NEW n \in 1 .. L, n - 1 \in N PROVE n \in N
    <3>1. surplus[n - 1] \in T /\ n \in 0 .. L
      BY <1>1, <2>2
    <3> HIDE DEF L, T
    <3> QED BY <1>4, <1>13, <3>1
  <2> HIDE DEF N, L
  <2> QED BY <1>1, <2>1, <2>2, Upward
<1>15. surplus \in [0 .. L -> T]
  <2>1. \A n \in 0 .. L : surplus[n] \in T
    BY <1>14
  <2> HIDE DEF F, L, T
  <2> QED BY <1>10, <2>1
<1>16. ASSUME NEW n \in 1 .. L
       PROVE  Len(surplus[n]) = IF \E m \in 1 .. n - 1 : Same(seq[m], seq[n]) THEN Len(surplus[n - 1])
                                ELSE Len(surplus[n - 1]) + (IF Times(seq[n], seq) > Times(seq[n], other)
                                                            THEN Times(seq[n], seq) - Times(seq[n], other) ELSE 0)
  <2>1. n - 1 \in 0 .. L
    BY <1>1
  <2>2. surplus[n - 1] \in T /\ surplus[n] = X(surplus[n - 1], n)
    BY <1>13, <1>15, <2>1
  <2> HIDE DEF L, T
  <2> QED BY <1>4, <2>2
<1>17. SurplusUpTo(seq, other, surplus)
  BY <1>12, <1>15, <1>16 DEF SurplusUpTo
<1> QED BY <1>9, <1>17

\* The places of the one and of the other side that go together.
Matching(seq, other, places, partner) ==
  /\ places \subseteq DOMAIN seq
  /\ partner \in [places -> DOMAIN other]
  /\ \A i \in places : Same(seq[i], other[partner[i]])
  /\ \A i, j \in places : partner[i] = partner[j] => i = j

\* None is left over on both sides.
LeavesNone(seq, other, places, partner) ==
  \A i \in DOMAIN seq \ places, j \in DOMAIN other : Same(seq[i], other[j]) => \E k \in places : partner[k] = j

LEMMA SafeThrough ==
  ASSUME NEW one \in Safe, NEW other \in Safe, NEW third \in Safe, Same(one, other)
  PROVE  /\ Same(other, third) => Same(one, third)
         /\ Same(one, third) => Same(other, third)
<1>1. Same(other, one)
  BY SameBack
<1>2. \A a, b, c \in Safe : Same(a, b) /\ Same(b, c) => Same(a, c)
  BY MembershipAssumption
<1> QED BY <1>1, <1>2

LeftOfKind(seq, places, n) == {i \in DOMAIN seq \ places : Same(seq[n], seq[i])}

LEMMA OfOneKind ==
  ASSUME NEW S, NEW R, NEW seq \in Seq(S), NEW other \in Seq(R), Elements(seq) \cup Elements(other) \subseteq Safe,
         NEW places, NEW partner, Matching(seq, other, places, partner), LeavesNone(seq, other, places, partner),
         NEW n \in DOMAIN seq
  PROVE  /\ IsFiniteSet(LeftOfKind(seq, places, n))
         /\ Cardinality(LeftOfKind(seq, places, n)) = IF Times(seq[n], seq) > Times(seq[n], other)
                                                      THEN Times(seq[n], seq) - Times(seq[n], other) ELSE 0
<1> DEFINE left == LeftOfKind(seq, places, n)
           here  == PlacesOfItem(seq[n], seq)
           there == PlacesOfItem(seq[n], other)
           met   == here \cap places
           to    == [i \in met |-> partner[i]]
<1>1. /\ \A i \in DOMAIN seq : seq[i] \in Safe
      /\ \A j \in DOMAIN other : other[j] \in Safe
  BY DEF Elements
<1>2. /\ places \subseteq DOMAIN seq /\ \A i \in places : partner[i] \in DOMAIN other /\ Same(seq[i], other[partner[i]])
      /\ \A i, j \in places : partner[i] = partner[j] => i = j
  BY DEF Matching
<1>3. \A i \in here : i \in DOMAIN seq /\ Same(seq[i], seq[n])
  BY DEF PlacesOfItem
<1>4. \A j \in DOMAIN other : j \in there <=> Same(other[j], seq[n])
  BY DEF PlacesOfItem
<1>5. \A i \in DOMAIN seq : i \in here <=> Same(seq[i], seq[n])
  BY DEF PlacesOfItem
<1>6. /\ IsFiniteSet(here) /\ Cardinality(here) = Times(seq[n], seq) /\ Times(seq[n], seq) \in Nat
      /\ IsFiniteSet(there) /\ Cardinality(there) = Times(seq[n], other) /\ Times(seq[n], other) \in Nat
  BY TimesType
<1>7. left = here \ places
  <2>1. here \subseteq DOMAIN seq
    BY <1>3
  <2> HIDE DEF here
  <2>2. left = {i \in DOMAIN seq \ places : Same(seq[n], seq[i])}
    BY DEF LeftOfKind
  <2> HIDE DEF left
  <2> QED BY <1>5, <2>1, <2>2, SameBack
<1>8. there \subseteq DOMAIN other
  BY DEF PlacesOfItem
<1> HIDE DEF here, there
<1>9. IsFiniteSet(left) /\ IsFiniteSet(met) /\ Cardinality(met) \in Nat /\ Cardinality(left) = Cardinality(here) - Cardinality(met)
  <2>1. IsFiniteSet(here \ places) /\ Cardinality(here \ places) = Cardinality(here) - Cardinality(here \cap places)
    BY <1>6, FS_Difference
  <2>2. IsFiniteSet(here \cap places)
    BY <1>6, FS_Intersection
  <2>3. Cardinality(here \cap places) \in Nat
    BY <2>2, FS_CardinalityType
  <2> HIDE DEF left
  <2> QED BY <1>7, <2>1, <2>2, <2>3
<1>10. ASSUME NEW i \in met PROVE to[i] = partner[i] /\ to[i] \in there
  <2>1. i \in places /\ i \in DOMAIN seq /\ Same(seq[i], seq[n]) /\ partner[i] \in DOMAIN other /\ Same(seq[i], other[partner[i]])
    BY <1>2, <1>3
  <2>2. Same(other[partner[i]], seq[n])
    BY <1>1, <2>1, SafeThrough
  <2> QED BY <1>4, <2>1, <2>2
<1> HIDE DEF left
<1>11. to \in Injection(met, there)
  <2>1. to \in [met -> there]
    BY <1>10
  <2>2. \A i, j \in met : to[i] = to[j] => i = j
    BY <1>2, <1>10
  <2> HIDE DEF to, met
  <2> QED BY <2>1, <2>2 DEF Injection, IsInjective
<1> HIDE DEF to
<1>12. Cardinality(met) <= Cardinality(there) /\ (Cardinality(met) = Cardinality(there) <=> to \in Surjection(met, there))
  <2> HIDE DEF met
  <2> QED BY <1>6, <1>11, FS_Injection
<1>13. ASSUME NEW i \in left PROVE Cardinality(met) = Cardinality(there)
  <2>1. i \in DOMAIN seq \ places /\ Same(seq[i], seq[n])
    BY <1>3, <1>7
  <2>2. ASSUME NEW j \in there PROVE \E k \in met : to[k] = j
    <3>1. j \in DOMAIN other /\ Same(other[j], seq[n]) /\ Same(seq[n], other[j])
      BY <1>4, <1>8, SameBack
    <3>2. Same(seq[i], other[j])
      <4>1. seq[i] \in Safe /\ seq[n] \in Safe /\ other[j] \in Safe
        BY <1>1, <2>1, <3>1
      <4> QED BY <2>1, <3>1, <4>1, SafeThrough
    <3>3. PICK k \in places : partner[k] = j
      BY <2>1, <3>1, <3>2 DEF LeavesNone
    <3>4. Same(seq[k], other[j]) /\ k \in DOMAIN seq
      BY <1>2, <3>3
    <3>5. Same(seq[k], seq[n])
      BY <1>1, <3>1, <3>4, SafeThrough
    <3>6. k \in met
      BY <1>5, <3>3, <3>4, <3>5
    <3> QED BY <1>10, <3>3, <3>6
  <2>3. to \in [met -> there]
    BY <1>11 DEF Injection
  <2>4. to \in Surjection(met, there)
    <3> HIDE DEF met
    <3> QED BY <2>2, <2>3 DEF Surjection
  <2> QED BY <1>12, <2>4
<1> HIDE DEF met
<1>14. Cardinality(left) \in Nat /\ (Cardinality(left) = 0 <=> left = {})
  BY <1>9, FS_CardinalityType, FS_EmptySet
<1>15. Cardinality(left) = IF Times(seq[n], seq) > Times(seq[n], other)
                           THEN Times(seq[n], seq) - Times(seq[n], other) ELSE 0
  <2>1. CASE left = {}
    <3>1. Cardinality(left) = 0 /\ Cardinality(here) = Cardinality(met)
      BY <1>6, <1>9, <1>14, <2>1
    <3> QED BY <1>6, <1>9, <1>12, <3>1
  <2>2. CASE left # {}
    <3>1. Cardinality(met) = Cardinality(there) /\ Cardinality(left) # 0
      BY <1>13, <1>14, <2>2
    <3> QED BY <1>6, <1>9, <1>14, <3>1
  <2> QED BY <2>1, <2>2
<1> QED BY <1>9, <1>15 DEF left

LEMMA SurplusIs ==
  ASSUME NEW S, NEW R, NEW seq \in Seq(S), NEW other \in Seq(R), Counted(Elements(seq) \cup Elements(other)),
         NEW places, NEW partner, Matching(seq, other, places, partner), LeavesNone(seq, other, places, partner)
  PROVE  /\ CountedSurplus(seq, other) \in Seq(Elements(seq))
         /\ Len(CountedSurplus(seq, other)) = Len(seq) - Cardinality(places)
<1> DEFINE L == Len(seq)
           left(n) == {i \in DOMAIN seq \ places : \E m \in 1 .. n : Same(seq[m], seq[i])}
           kind(n) == LeftOfKind(seq, places, n)
           much(n) == IF Times(seq[n], seq) > Times(seq[n], other) THEN Times(seq[n], seq) - Times(seq[n], other) ELSE 0
<1>1. PICK surplus : SurplusUpTo(seq, other, surplus) /\ CountedSurplus(seq, other) = surplus[L]
  BY SurplusTold
<1>2. L \in Nat /\ DOMAIN seq = 1 .. L
  OBVIOUS
<1>3. /\ surplus \in [0 .. L -> Seq(Elements(seq))] /\ surplus[0] = <<>>
      /\ \A n \in 1 .. L : Len(surplus[n]) = IF \E m \in 1 .. n - 1 : Same(seq[m], seq[n]) THEN Len(surplus[n - 1])
                                             ELSE Len(surplus[n - 1]) + much(n)
  BY <1>1 DEF SurplusUpTo
<1>4. Elements(seq) \cup Elements(other) \subseteq Safe
  BY DEF Counted, Hashes
<1>5. \A i \in DOMAIN seq : seq[i] \in Safe
  BY <1>4 DEF Elements
<1>6. ASSUME NEW n \in 1 .. L PROVE IsFiniteSet(kind(n)) /\ Cardinality(kind(n)) = much(n)
  BY <1>2, <1>4, OfOneKind
<1> HIDE DEF much, L
<1> DEFINE G == {n \in 0 .. L : IsFiniteSet(left(n)) /\ Len(surplus[n]) = Cardinality(left(n))}
<1>7. 0 \in G
  <2>1. left(0) = {}
    OBVIOUS
  <2>2. IsFiniteSet(left(0)) /\ Cardinality(left(0)) = 0
    BY <2>1, FS_EmptySet
  <2>3. Len(surplus[0]) = 0 /\ 0 \in 0 .. L
    BY <1>2, <1>3
  <2> HIDE DEF left
  <2> QED BY <2>2, <2>3
<1>8. ASSUME NEW n \in 1 .. L, n - 1 \in G PROVE n \in G
  <2>1. IsFiniteSet(left(n - 1)) /\ Len(surplus[n - 1]) = Cardinality(left(n - 1)) /\ n \in 0 .. L
    BY <1>2, <1>8
  <2>2. \A m \in 1 .. n : m = n \/ m \in 1 .. n - 1
    BY <1>2
  <2>3. \A m \in 1 .. n - 1 : m \in 1 .. n /\ m \in DOMAIN seq
    BY <1>2
  <2>4. n \in DOMAIN seq /\ n \in 1 .. n
    BY <1>2
  <2>5. CASE \E m \in 1 .. n - 1 : Same(seq[m], seq[n])
    <3>1. PICK m \in 1 .. n - 1 : Same(seq[m], seq[n])
      BY <2>5
    <3>2. ASSUME NEW i \in DOMAIN seq, Same(seq[n], seq[i]) PROVE Same(seq[m], seq[i])
      BY <1>5, <2>3, <2>4, <3>1, <3>2, SafeThrough
    <3>3. left(n) = left(n - 1)
      BY <2>2, <2>3, <3>2
    <3>4. Len(surplus[n]) = Len(surplus[n - 1])
      BY <1>3, <2>5
    <3> HIDE DEF left
    <3> QED BY <2>1, <3>3, <3>4
  <2>6. CASE ~ \E m \in 1 .. n - 1 : Same(seq[m], seq[n])
    <3> DEFINE kindly == {i \in DOMAIN seq \ places : Same(seq[n], seq[i])}
    <3>0. kind(n) = kindly
      BY DEF LeftOfKind
    <3> HIDE DEF kind
    <3>1. left(n) = left(n - 1) \cup kindly
      BY <2>2, <2>3, <2>4
    <3>2. left(n - 1) \cap kindly = {}
      <4> SUFFICES ASSUME NEW i \in DOMAIN seq, NEW m \in 1 .. n - 1, Same(seq[m], seq[i]), Same(seq[n], seq[i]) PROVE FALSE
        OBVIOUS
      <4>1. Same(seq[i], seq[n]) /\ Same(seq[i], seq[m])
        BY SameBack
      <4>2. Same(seq[m], seq[n])
        BY <1>5, <2>3, <2>4, <4>1, SafeThrough
      <4> QED BY <2>6, <4>2
    <3>3. Len(surplus[n]) = Len(surplus[n - 1]) + much(n)
      BY <1>3, <2>6
    <3>4. IsFiniteSet(kindly) /\ Cardinality(kindly) = much(n)
      BY <1>6, <3>0
    <3> HIDE DEF left, kindly
    <3>5. IsFiniteSet(left(n)) /\ Cardinality(left(n)) = Cardinality(left(n - 1)) + Cardinality(kindly) - Cardinality(left(n - 1) \cap kindly)
      BY <2>1, <3>1, <3>4, FS_Union
    <3>6. Cardinality(left(n - 1) \cap kindly) = 0
      BY <3>2, FS_EmptySet
    <3>7. Cardinality(left(n - 1)) \in Nat /\ Cardinality(kindly) \in Nat
      BY <2>1, <3>4, FS_CardinalityType
    <3>8. Len(surplus[n]) = Cardinality(left(n))
      BY <2>1, <3>3, <3>4, <3>5, <3>6, <3>7
    <3> QED BY <2>1, <3>5, <3>8
  <2> QED BY <2>5, <2>6
<1>9. L \in G
  <2> HIDE DEF G
  <2>1. 0 .. L \subseteq G
    BY <1>2, <1>7, <1>8, Upward
  <2> QED BY <1>2, <2>1
<1>10. left(L) = DOMAIN seq \ places
  <2>1. \A i \in DOMAIN seq : Same(seq[i], seq[i])
    BY DEF Same
  <2> QED BY <1>2, <2>1
<1>11. Cardinality(DOMAIN seq \ places) = L - Cardinality(places)
  <2>1. IsFiniteSet(1 .. L) /\ Cardinality(1 .. L) = L
    BY <1>2, FS_Interval
  <2>2. Cardinality((1 .. L) \ places) = Cardinality(1 .. L) - Cardinality((1 .. L) \cap places)
    BY <2>1, FS_Difference
  <2>3. (1 .. L) \cap places = places
    BY <1>2 DEF Matching
  <2> QED BY <1>2, <2>1, <2>2, <2>3
<1> HIDE DEF left
<1>12. Len(surplus[L]) = L - Cardinality(places) /\ surplus[L] \in Seq(Elements(seq))
  BY <1>2, <1>3, <1>9, <1>10, <1>11
<1> QED BY <1>1, <1>12 DEF L

LEMMA AcceptedIs ==
  ASSUME NEW container \in Collections, NEW wanted \in Asked
  PROVE  /\ DOMAIN Accepted(container, wanted) = 1 .. Len(wanted)
         /\ \A e \in 1 .. Len(wanted) : Accepted(container, wanted)[e] = {i \in 1 .. Len(container) : Same(wanted[e], container[i])}
         /\ \A e \in DOMAIN Accepted(container, wanted) : Accepted(container, wanted)[e] \subseteq 1 .. Len(container)
<1>1. DOMAIN container = 1 .. Len(container) /\ DOMAIN wanted = 1 .. Len(wanted)
  BY CollectionTypes, AskedTypes
<1>2. ASSUME NEW e \in 1 .. Len(wanted)
      PROVE  {i \in DOMAIN container : Same(container[i], wanted[e])} = {i \in 1 .. Len(container) : Same(wanted[e], container[i])}
  BY <1>1, SameBack
<1> QED BY <1>1, <1>2 DEF Accepted

\* There are as many entries in a pairing as options.
LEMMA AsManyEntries ==
  ASSUME NEW pairs, NEW D, D = DOMAIN pairs, IsFiniteSet(D), pairs \in [D -> Entries(pairs)],
         \A one, other \in D : pairs[one] = pairs[other] => one = other
  PROVE  IsFiniteSet(Entries(pairs)) /\ Cardinality(Entries(pairs)) = Cardinality(D)
<1>1. pairs \in Surjection(D, Entries(pairs)) /\ pairs \in Injection(D, Entries(pairs))
  BY DEF Surjection, Injection, IsInjective, Entries
<1> QED BY <1>1, FS_Surjection

\* What a pairing is, with the entries it pairs.
PairsUp(accepted, N, pairs) ==
  /\ DOMAIN pairs \subseteq 1 .. N /\ IsFiniteSet(DOMAIN pairs) /\ Cardinality(DOMAIN pairs) \in 0 .. N
  /\ Entries(pairs) \subseteq DOMAIN accepted
  /\ IsFiniteSet(Entries(pairs)) /\ Cardinality(Entries(pairs)) = Cardinality(DOMAIN pairs)
  /\ \A option \in DOMAIN pairs : option \in accepted[pairs[option]]
  /\ \A one, other \in DOMAIN pairs : pairs[one] = pairs[other] => one = other

LEMMA PairingPairsUp ==
  ASSUME NEW N \in Nat, NEW accepted, \A e \in DOMAIN accepted : accepted[e] \subseteq 1 .. N, NEW pairs \in PairingsOf(accepted)
  PROVE  PairsUp(accepted, N, pairs)
<1> DEFINE D == DOMAIN pairs
<1>1. D \subseteq 1 .. N /\ IsFiniteSet(D) /\ Cardinality(D) \in 0 .. N
  BY PairsAreFew
<1>2. /\ pairs \in [D -> DOMAIN accepted]
      /\ \A option \in D : option \in accepted[pairs[option]]
      /\ \A one, other \in D : pairs[one] = pairs[other] => one = other
  BY OutOfPairingsOf
<1>3. Entries(pairs) \subseteq DOMAIN accepted /\ \A option \in D : pairs[option] \in Entries(pairs)
  BY <1>2 DEF Entries
<1>4. D = DOMAIN pairs
  OBVIOUS
<1> HIDE DEF D
<1>5. pairs \in [D -> Entries(pairs)]
  BY <1>2, <1>3
<1>6. IsFiniteSet(Entries(pairs)) /\ Cardinality(Entries(pairs)) = Cardinality(D)
  BY <1>1, <1>2, <1>4, <1>5, AsManyEntries
<1> QED BY <1>1, <1>2, <1>3, <1>4, <1>6 DEF PairsUp

LEMMA CountedIs ==
  ASSUME NEW container \in Collections, NEW wanted \in Asked, Counted(Elements(container) \cup Elements(wanted))
  PROVE  /\ Len(CountedSurplus(container, wanted)) = Len(container) - Most(Accepted(container, wanted))
         /\ Len(CountedSurplus(wanted, container)) = Len(wanted) - Most(Accepted(container, wanted))
         /\ CountedSurplus(container, wanted) \in Seq(Elements(container))
         /\ CountedSurplus(wanted, container) \in Seq(Elements(wanted))
<1> DEFINE N == Len(container)
           accepted == Accepted(container, wanted)
<1>1. N \in Nat /\ container \in Seq(Object) /\ wanted \in Seq(Object) /\ DOMAIN container = 1 .. N /\ DOMAIN wanted = 1 .. Len(wanted)
  BY CollectionTypes, AskedTypes
<1>2. /\ DOMAIN accepted = DOMAIN wanted
      /\ \A e \in DOMAIN wanted : accepted[e] = {i \in DOMAIN container : Same(wanted[e], container[i])}
      /\ \A e \in DOMAIN accepted : accepted[e] \subseteq 1 .. N
  BY <1>1, AcceptedIs
<1> HIDE DEF accepted, N
<1>3. PICK pairs : IsBest(accepted, pairs) /\ Most(accepted) = Cardinality(DOMAIN pairs)
  BY <1>1, <1>2, MostIs
<1>4. pairs \in PairingsOf(accepted)
  BY <1>3 DEF IsBest
<1>5. PairsUp(accepted, N, pairs)
  BY <1>1, <1>2, <1>4, PairingPairsUp
<1>6. ASSUME NEW i \in DOMAIN container, NEW e \in DOMAIN wanted, Same(wanted[e], container[i])
      PROVE  i \in DOMAIN pairs \/ e \in Entries(pairs)
  <2>1. e \in DOMAIN accepted /\ i \in accepted[e]
    BY <1>2, <1>6
  <2> QED BY <1>1, <1>2, <1>3, <2>1, BestLeavesNone
<1>7. Len(CountedSurplus(container, wanted)) = Len(container) - Cardinality(DOMAIN pairs)
      /\ CountedSurplus(container, wanted) \in Seq(Elements(container))
  <2>1. Matching(container, wanted, DOMAIN pairs, pairs)
    <3>1. pairs \in [DOMAIN pairs -> DOMAIN wanted]
      BY <1>2, <1>4, OutOfPairingsOf
    <3>2. \A i \in DOMAIN pairs : pairs[i] \in DOMAIN wanted /\ i \in DOMAIN container /\ i \in accepted[pairs[i]]
      BY <1>1, <1>5, <3>1 DEF PairsUp
    <3>3. \A i \in DOMAIN pairs : Same(container[i], wanted[pairs[i]])
      BY <1>2, <3>2, SameBack
    <3> QED BY <1>5, <3>1, <3>2, <3>3 DEF Matching, PairsUp
  <2>2. LeavesNone(container, wanted, DOMAIN pairs, pairs)
    <3> SUFFICES ASSUME NEW i \in DOMAIN container \ DOMAIN pairs, NEW e \in DOMAIN wanted, Same(container[i], wanted[e])
                 PROVE  \E k \in DOMAIN pairs : pairs[k] = e
      BY DEF LeavesNone
    <3>1. Same(wanted[e], container[i])
      BY SameBack
    <3>2. e \in Entries(pairs)
      BY <1>6, <3>1
    <3> QED BY <3>2 DEF Entries
  <2> QED BY <1>1, <2>1, <2>2, SurplusIs
<1>8. Len(CountedSurplus(wanted, container)) = Len(wanted) - Cardinality(Entries(pairs))
      /\ CountedSurplus(wanted, container) \in Seq(Elements(wanted))
  <2> DEFINE owner == [e \in Entries(pairs) |-> CHOOSE i \in DOMAIN pairs : pairs[i] = e]
  <2>1. ASSUME NEW e \in Entries(pairs) PROVE owner[e] \in DOMAIN pairs /\ pairs[owner[e]] = e
    <3>1. \E i \in DOMAIN pairs : pairs[i] = e
      BY DEF Entries
    <3> QED BY <3>1
  <2>2. DOMAIN owner = Entries(pairs) /\ owner = [e \in Entries(pairs) |-> owner[e]]
    OBVIOUS
  <2> HIDE DEF owner
  <2>3. Matching(wanted, container, Entries(pairs), owner)
    <3>1. \A e \in Entries(pairs) : e \in DOMAIN wanted /\ owner[e] \in DOMAIN container /\ owner[e] \in accepted[e]
      BY <1>1, <1>2, <1>5, <2>1 DEF PairsUp
    <3>2. \A e \in Entries(pairs) : Same(wanted[e], container[owner[e]])
      BY <1>2, <3>1
    <3>3. \A e, other \in Entries(pairs) : owner[e] = owner[other] => e = other
      BY <2>1
    <3>4. owner \in [Entries(pairs) -> DOMAIN container]
      BY <2>2, <3>1
    <3> QED BY <3>1, <3>2, <3>3, <3>4 DEF Matching
  <2>4. LeavesNone(wanted, container, Entries(pairs), owner)
    <3> SUFFICES ASSUME NEW e \in DOMAIN wanted \ Entries(pairs), NEW i \in DOMAIN container, Same(wanted[e], container[i])
                 PROVE  \E k \in Entries(pairs) : owner[k] = i
      BY DEF LeavesNone
    <3>1. i \in DOMAIN pairs
      BY <1>6
    <3>2. pairs[i] \in Entries(pairs)
      BY <3>1 DEF Entries
    <3>3. owner[pairs[i]] = i
      BY <1>5, <2>1, <3>1, <3>2 DEF PairsUp
    <3> QED BY <3>2, <3>3
  <2>5. Elements(wanted) \cup Elements(container) = Elements(container) \cup Elements(wanted)
    OBVIOUS
  <2>6. Counted(Elements(wanted) \cup Elements(container))
    BY <2>5
  <2> QED BY <1>1, <2>3, <2>4, <2>6, SurplusIs
<1>9. Cardinality(Entries(pairs)) = Cardinality(DOMAIN pairs)
  BY <1>5 DEF PairsUp
<1> QED BY <1>3, <1>7, <1>8, <1>9 DEF accepted

\* With one pair more, or another for the option, it is a pairing still, if the entry was in none.
LEMMA OnePairMore ==
  ASSUME NEW accepted, NEW pairs \in PairingsOf(accepted), NEW option, NEW entry \in DOMAIN accepted \ Entries(pairs),
         option \in accepted[entry]
  PROVE  With(pairs, option, entry) \in PairingsOf(accepted)
<1> DEFINE more == With(pairs, option, entry)
           D == DOMAIN pairs
<1>1. /\ pairs \in [D -> DOMAIN accepted]
      /\ \A o \in D : o \in accepted[pairs[o]] /\ pairs[o] # entry
      /\ \A one, other \in D : pairs[one] = pairs[other] => one = other
  BY OutOfPairingsOf DEF Entries
<1>2. /\ more \in [D \cup {option} -> DOMAIN accepted] /\ more[option] = entry
      /\ \A o \in D : o # option => more[o] = pairs[o]
  BY <1>1 DEF With
<1> HIDE DEF more, D
<1>3. \A o \in D \cup {option} : o \in accepted[more[o]]
  BY <1>1, <1>2
<1>4. \A one, other \in D \cup {option} : more[one] = more[other] => one = other
  BY <1>1, <1>2
<1> QED BY <1>2, <1>3, <1>4, InPairingsOf DEF more

LEMMA GreedyIs ==
  ASSUME NEW container \in Collections, NEW wanted \in Asked
  PROVE  GreedyPairs(container, wanted) \in PairingsOf(Accepted(container, wanted))
<1> DEFINE L == Len(container)
           T == PairingsOf(Accepted(container, wanted))
           Free(p, n) == {e \in DOMAIN wanted \ Entries(p) : Same(wanted[e], container[n])}
           X(p, n) == IF Free(p, n) = {} THEN p ELSE With(p, n, CHOOSE e \in Free(p, n) : \A other \in Free(p, n) : e <= other)
           F(u, n) == IF n = 0 THEN <<>> ELSE X(u[n - 1], n)
           step == [q \in (1 .. L) \X T |-> X(q[2], q[1])]
           P(u) == u = [n \in 0 .. L |-> F(u, n)]
           pairs == CHOOSE u : P(u)
<1>1. L \in Nat /\ DOMAIN wanted = 1 .. Len(wanted) /\ Len(wanted) \in Nat
  BY CollectionTypes, AskedTypes
<1>2. <<>> \in T
  <2>1. <<>> \in [{} -> DOMAIN Accepted(container, wanted)]
    OBVIOUS
  <2> QED BY <2>1, InPairingsOf
<1>3. ASSUME NEW n \in 1 .. L, NEW p \in T PROVE X(p, n) \in T
  <2> DEFINE free == Free(p, n)
             first == CHOOSE e \in free : \A other \in free : e <= other
  <2>1. free \in SUBSET Nat
    BY <1>1
  <2>2. CASE free = {}
    BY <1>3, <2>2
  <2>3. CASE free # {}
    <3>1. first \in free
      <4> HIDE DEF free
      <4>1. \E e \in free : \A other \in free : e <= other
        BY <2>1, <2>3, FirstOf
      <4> QED BY <4>1
    <3>2. first \in DOMAIN wanted /\ first \notin Entries(p) /\ Same(wanted[first], container[n])
      <4> HIDE DEF first
      <4> QED BY <3>1
    <3>3. X(p, n) = With(p, n, first)
      BY <2>3
    <3> HIDE DEF first, X, T
    <3>4. first \in DOMAIN Accepted(container, wanted) \ Entries(p) /\ n \in Accepted(container, wanted)[first]
      BY <1>1, <3>2, AcceptedIs
    <3>5. With(p, n, first) \in PairingsOf(Accepted(container, wanted))
      BY <1>3, <3>4, OnePairMore DEF T
    <3> QED BY <3>3, <3>5 DEF T
  <2> QED BY <2>2, <2>3
<1> HIDE DEF X
<1>5. step \in [(1 .. L) \X T -> T]
  <2> HIDE DEF L, T
  <2> QED BY <1>3
<1>6. PICK f : IsToldUpTo(f, L, T, <<>>, step)
  <2> HIDE DEF step, L, T
  <2> QED BY <1>1, <1>2, <1>5, UpwardRecursion
<1>7. P(f)
  <2>1. f \in [0 .. L -> T] /\ f[0] = <<>> /\ \A n \in 1 .. L : f[n] = step[<<n, f[n - 1]>>]
    BY <1>6 DEF IsToldUpTo
  <2>2. ASSUME NEW n \in 0 .. L PROVE f[n] = F(f, n)
    <3>1. CASE n = 0
      BY <2>1, <3>1
    <3>2. CASE n # 0
      <4>1. n \in 1 .. L /\ n - 1 \in 0 .. L
        BY <1>1, <3>2
      <4>2. <<n, f[n - 1]>> \in (1 .. L) \X T /\ f[n] = step[<<n, f[n - 1]>>]
        BY <2>1, <4>1
      <4> HIDE DEF L, T
      <4> QED BY <3>2, <4>2
    <3> QED BY <3>1, <3>2
  <2> HIDE DEF F, L, T
  <2>3. f = [n \in 0 .. L |-> F(f, n)]
    BY <2>1, <2>2
  <2> QED BY <2>3
<1>8. P(pairs)
  <2> HIDE DEF P
  <2> QED BY <1>7
<1>9. GreedyPairs(container, wanted) = pairs[L]
  BY DEF GreedyPairs, X
<1> HIDE DEF pairs
<1>10. pairs = [n \in 0 .. L |-> F(pairs, n)]
  BY <1>8
<1>11. ASSUME NEW n \in 0 .. L PROVE pairs[n] = F(pairs, n)
  <2> HIDE DEF F, L
  <2> QED BY <1>10
<1> DEFINE N == {m \in 0 .. L : pairs[m] \in T}
<1>12. 0 .. L \subseteq N
  <2>1. 0 \in N
    <3>1. 0 \in 0 .. L
      BY <1>1
    <3> HIDE DEF L, T
    <3> QED BY <1>2, <1>11, <3>1
  <2>2. ASSUME NEW n \in 1 .. L, n - 1 \in N PROVE n \in N
    <3>1. pairs[n - 1] \in T /\ n \in 0 .. L /\ n # 0
      BY <1>1, <2>2
    <3> HIDE DEF L, T
    <3>2. pairs[n] = X(pairs[n - 1], n)
      BY <1>11, <3>1
    <3> QED BY <1>3, <3>1, <3>2
  <2> HIDE DEF N, L
  <2> QED BY <1>1, <2>1, <2>2, Upward
<1>13. L \in 0 .. L
  BY <1>1
<1> HIDE DEF L
<1> QED BY <1>9, <1>12, <1>13

-----------------------------------------------------------------------------
(* The questions a pairing answers *)

OptionsOf(container, wanted) ==
  [e \in Entry |-> IF e \notin DOMAIN wanted THEN {} ELSE {i \in DOMAIN container : Same(wanted[e], container[i])}]

LEMMA OptionsAre ==
  ASSUME NEW container \in Collections, NEW wanted \in Asked
  PROVE  /\ OptionsOf(container, wanted) \in [Entry -> SUBSET Option] /\ DOMAIN wanted \subseteq Entry
         /\ \A e \in Entry \ DOMAIN wanted : OptionsOf(container, wanted)[e] = {}
         /\ \A e \in DOMAIN wanted : OptionsOf(container, wanted)[e] = Accepted(container, wanted)[e]
<1>1. /\ DOMAIN container = 1 .. Len(container) /\ Len(container) \in 0 .. MaxValues
      /\ DOMAIN wanted = 1 .. Len(wanted) /\ Len(wanted) \in 1 .. MaxItems
  BY CollectionTypes, AskedTypes
<1>2. 1 .. MaxValues \subseteq Option /\ 1 .. MaxItems \subseteq Entry /\ MaxValues \in Nat /\ MaxItems \in Nat
  BY ContainmentAssumption
<1>3. DOMAIN container \subseteq Option /\ DOMAIN wanted \subseteq Entry
  <2>1. 1 .. Len(container) \subseteq 1 .. MaxValues
    BY <1>1, <1>2
  <2>2. 1 .. Len(wanted) \subseteq 1 .. MaxItems
    BY <1>1, <1>2
  <2> QED BY <1>1, <1>2, <2>1, <2>2
<1>4. ASSUME NEW e \in DOMAIN wanted
      PROVE  {i \in DOMAIN container : Same(wanted[e], container[i])} = Accepted(container, wanted)[e]
  BY <1>1, AcceptedIs
<1> QED BY <1>3, <1>4 DEF OptionsOf

LEMMA SamePairings ==
  ASSUME NEW container \in Collections, NEW wanted \in Asked
  PROVE  PairingsOf(OptionsOf(container, wanted)) = PairingsOf(Accepted(container, wanted))
<1> DEFINE wide == OptionsOf(container, wanted)
           narrow == Accepted(container, wanted)
<1>1. /\ DOMAIN wide = Entry /\ DOMAIN narrow = DOMAIN wanted /\ DOMAIN wanted \subseteq Entry
      /\ \A e \in Entry \ DOMAIN wanted : wide[e] = {}
      /\ \A e \in DOMAIN wanted : wide[e] = narrow[e]
  <2>1. DOMAIN wide = Entry
    BY DEF OptionsOf
  <2>2. DOMAIN narrow = DOMAIN wanted
    BY DEF Accepted
  <2> HIDE DEF wide, narrow
  <2>3. /\ DOMAIN wanted \subseteq Entry
        /\ \A e \in Entry \ DOMAIN wanted : wide[e] = {}
        /\ \A e \in DOMAIN wanted : wide[e] = narrow[e]
    BY OptionsAre DEF wide, narrow
  <2> QED BY <2>1, <2>2, <2>3
<1> HIDE DEF wide, narrow
<1>2. ASSUME NEW pairs \in PairingsOf(wide) PROVE pairs \in PairingsOf(narrow)
  <2> DEFINE D == DOMAIN pairs
  <2>1. /\ pairs \in [D -> Entry] /\ \A option \in D : option \in wide[pairs[option]]
        /\ \A one, other \in D : pairs[one] = pairs[other] => one = other
    BY <1>1, OutOfPairingsOf
  <2> HIDE DEF D
  <2>2. \A option \in D : pairs[option] \in DOMAIN wanted /\ option \in narrow[pairs[option]]
    BY <1>1, <2>1
  <2>3. pairs \in [D -> DOMAIN narrow]
    BY <1>1, <2>1, <2>2
  <2> QED BY <2>1, <2>2, <2>3, InPairingsOf
<1>3. ASSUME NEW pairs \in PairingsOf(narrow) PROVE pairs \in PairingsOf(wide)
  <2> DEFINE D == DOMAIN pairs
  <2>1. /\ pairs \in [D -> DOMAIN wanted] /\ \A option \in D : option \in narrow[pairs[option]]
        /\ \A one, other \in D : pairs[one] = pairs[other] => one = other
    BY <1>1, OutOfPairingsOf
  <2> HIDE DEF D
  <2>2. pairs \in [D -> DOMAIN wide] /\ \A option \in D : option \in wide[pairs[option]]
    BY <1>1, <2>1
  <2> QED BY <2>1, <2>2, InPairingsOf
<1> QED BY <1>2, <1>3 DEF wide, narrow

LEMMA MostType ==
  ASSUME NEW container \in Collections, NEW wanted \in Asked
  PROVE  Most(Accepted(container, wanted)) \in Nat
<1> DEFINE accepted == Accepted(container, wanted)
           N == Len(container)
<1>1. N \in Nat /\ \A e \in DOMAIN accepted : accepted[e] \subseteq 1 .. N
  BY CollectionTypes, AcceptedIs
<1> HIDE DEF accepted, N
<1>2. PICK pairs : IsBest(accepted, pairs) /\ Most(accepted) = Cardinality(DOMAIN pairs)
  BY <1>1, MostIs
<1>3. Cardinality(DOMAIN pairs) \in 0 .. N
  BY <1>1, <1>2, PairsAreFew DEF IsBest
<1> QED BY <1>2, <1>3 DEF accepted

LEMMA LeftOf ==
  ASSUME NEW S, NEW seq \in Seq(S), NEW some \in SUBSET DOMAIN seq
  PROVE  LET places == Those([i \in DOMAIN seq |-> i], DOMAIN seq \ some)
             left   == [k \in DOMAIN places |-> seq[places[k]]]
         IN  left \in Seq(S) /\ Len(left) = Len(seq) - Cardinality(some)
<1> DEFINE n == Len(seq)
           rest == DOMAIN seq \ some
           places == Those([i \in 1 .. n |-> i], rest)
           left == [k \in DOMAIN places |-> seq[places[k]]]
<1>1. n \in Nat /\ DOMAIN seq = 1 .. n /\ \A i \in 1 .. n : seq[i] \in S
  OBVIOUS
<1>2. rest \subseteq 1 .. n
  OBVIOUS
<1> HIDE DEF rest
<1>3. Lists(places, rest) /\ Len(places) = Cardinality(rest)
  BY <1>1, <1>2, PlacesOf, PlacesThat
<1> HIDE DEF n, places
<1>4. places \in Seq(rest) /\ DOMAIN places = 1 .. Len(places) /\ Len(places) \in Nat
  BY <1>3 DEF Lists
<1>5. \A k \in 1 .. Len(places) : places[k] \in rest
  BY <1>4
<1>6. left \in [1 .. Len(places) -> S] /\ left \in Seq(S) /\ Len(left) = Len(places)
  <2>1. \A k \in 1 .. Len(places) : seq[places[k]] \in S
    BY <1>1, <1>2, <1>5
  <2>2. left \in [1 .. Len(places) -> S]
    BY <1>4, <2>1
  <2> HIDE DEF left
  <2> QED BY <1>4, <2>2
<1>7. Cardinality(rest) = n - Cardinality(some)
  <2>1. IsFiniteSet(1 .. n) /\ Cardinality(1 .. n) = n
    BY <1>1, FS_Interval
  <2>2. Cardinality((1 .. n) \ some) = Cardinality(1 .. n) - Cardinality((1 .. n) \cap some)
    BY <2>1, FS_Difference
  <2>3. (1 .. n) \cap some = some /\ (1 .. n) \ some = rest
    BY <1>1 DEF rest
  <2> QED BY <2>1, <2>2, <2>3
<1>8. Len(left) = n - Cardinality(some)
  BY <1>3, <1>6, <1>7
<1>9. left = [k \in DOMAIN Those([i \in DOMAIN seq |-> i], DOMAIN seq \ some) |->
                seq[Those([i \in DOMAIN seq |-> i], DOMAIN seq \ some)[k]]]
  BY <1>1 DEF left, places, rest
<1> HIDE DEF left
<1> QED BY <1>6, <1>8, <1>9 DEF n

\* Once nothing is left to try, no pairing has more pairs than there are.
LEMMA PairedIsBest ==
  ASSUME MaximumInv, Paired
  PROVE  \E pairs : IsBest(options, pairs) /\ DOMAIN pairs = DOMAIN paired /\ Entries(pairs) = Entries(paired)
<1> DEFINE D == DOMAIN paired
           pairs == [o \in D |-> paired[o]]
<1>1. options \in [Entry -> SUBSET Option] /\ IsPairing(paired)
  BY DEF MaximumInv, PairingInv, PairingTypes
<1>2. /\ pairs \in [D -> DOMAIN options] /\ \A o \in D : o \in options[pairs[o]]
      /\ \A one, other \in D : pairs[one] = pairs[other] => one = other
  BY <1>1 DEF IsPairing
<1>3. DOMAIN pairs = D /\ Entries(pairs) = Entries(paired)
  BY DEF Entries
<1> HIDE DEF D, pairs
<1>4. pairs \in PairingsOf(options)
  BY <1>2, InPairingsOf
<1>5. \A other \in PairingsOf(options) : Cardinality(DOMAIN other) <= Cardinality(DOMAIN paired)
  BY NoneHasMore, PairingAssumption
<1> QED BY <1>3, <1>4, <1>5 DEF IsBest, D

InAnOrder == {"contains_exactly", "contains_exactly_in_any_order"}

LEMMA LeftOverIsExact ==
  ASSUME NEW container \in Collections, NEW wanted \in Asked, NEW S, NEW R, NEW extra \in Seq(S), NEW missing \in Seq(R),
         Len(extra) = Len(container) - Most(Accepted(container, wanted)),
         Len(missing) = Len(wanted) - Most(Accepted(container, wanted)),
         asked' \in InAnOrder, values' = container, items' = wanted,
         asked' = "contains_exactly" => ~AlikeInOrder(container, wanted),
         LeftOver(extra, missing)
  PROVE  ContainmentIsExact'
<1> DEFINE most == Most(Accepted(container, wanted))
<1>1. most \in Nat /\ Len(container) \in Nat /\ Len(wanted) \in Nat
  BY MostType, CollectionTypes, AskedTypes
<1>2. MostPairs' = most
  BY DEF MostPairs
<1>3. (extra = <<>> <=> Len(extra) = 0) /\ (missing = <<>> <=> Len(missing) = 0)
  OBVIOUS
<1> HIDE DEF most
<1>4. (extra = <<>> <=> most = Len(container)) /\ (missing = <<>> <=> most = Len(wanted))
  <2>1. Len(extra) = Len(container) - most /\ Len(missing) = Len(wanted) - most
    BY DEF most
  <2>2. (Len(extra) = 0 <=> most = Len(container)) /\ (Len(missing) = 0 <=> most = Len(wanted))
    BY <1>1, <2>1
  <2> QED BY <1>3, <2>2
<1>5. /\ said'.named = extra /\ said'.also = missing
      /\ said'.holds = (asked' # "contains_exactly" /\ extra = <<>> /\ missing = <<>>)
  BY DEF LeftOver, Answer
<1>6. FewestLeftOver'
  <2>1. Len(extra) = Len(container) - most /\ Len(missing) = Len(wanted) - most
    BY DEF most
  <2> QED BY <1>2, <1>5, <2>1 DEF FewestLeftOver
<1>7. CASE asked' = "contains_exactly"
  <2>1. ~said'.holds /\ ~AlikeInOrder(values', items')
    BY <1>5, <1>7
  <2> QED BY <1>6, <1>7, <2>1 DEF ContainmentIsExact
<1>8. CASE asked' = "contains_exactly_in_any_order"
  <2>1. said'.holds = (most = Len(container) /\ most = Len(wanted))
    BY <1>4, <1>5, <1>8
  <2>2. said'.holds = (MostPairs' = Len(values') /\ MostPairs' = Len(items'))
    BY <1>2, <2>1
  <2> QED BY <1>6, <1>8, <2>2 DEF ContainmentIsExact
<1> QED BY <1>7, <1>8 DEF InAnOrder

-----------------------------------------------------------------------------
(* The invariant: what a question that waits for a pairing is about *)

Idle == ~pending /\ fresh = <<>> /\ waiting = <<>> /\ paired = <<>> /\ NoChain

ForItems ==
  /\ asked \in InAnOrder /\ values \in Collections /\ items \in Asked
  /\ options = OptionsOf(values, items)
  /\ asked = "contains_exactly" => ~AlikeInOrder(values, items)

ForMatchers ==
  /\ asked = "satisfies_exactly_in_any_order"
  /\ \E n \in Nat : /\ items = [i \in 1 .. n |-> i]
                    /\ \A e \in Entry \ 1 .. n : options[e] = {}
                    /\ \A e \in Entry : options[e] \subseteq 1 .. n

ContainmentInv ==
  /\ asked = "nothing" => Idle
  /\ pending => MaximumInv /\ (ForItems \/ ForMatchers)
  /\ ContainmentIsExact

LEMMA InAnyOrderHolds ==
  ASSUME Idle, NEW container \in Collections, NEW wanted \in Asked, asked' \in InAnOrder,
         values' = container, items' = wanted,
         asked' = "contains_exactly" => ~AlikeInOrder(container, wanted),
         InAnyOrder(container, wanted)
  PROVE  ContainmentInv'
<1>1. asked' # "nothing"
  BY DEF InAnOrder
<1>2. CASE Counted(Elements(container) \cup Elements(wanted))
  <2>1. LeftOver(CountedSurplus(container, wanted), CountedSurplus(wanted, container)) /\ ~pending'
    BY <1>2 DEF InAnyOrder, Idle
  <2>2. ContainmentIsExact'
    BY <1>2, <2>1, CountedIs, LeftOverIsExact
  <2> QED BY <1>1, <2>1, <2>2 DEF ContainmentInv
<1>3. CASE ~Counted(Elements(container) \cup Elements(wanted))
  <2> DEFINE pairs == GreedyPairs(container, wanted)
             rest == DOMAIN wanted \ Entries(pairs)
  <2>1. /\ options' = OptionsOf(container, wanted) /\ paired' = pairs
        /\ waiting' = Those([e \in DOMAIN wanted |-> e], rest)
        /\ pending' = TRUE /\ fresh' = <<>> /\ chain' = chain /\ NoChain
    BY <1>3 DEF InAnyOrder, OptionsOf, Idle
  <2>2. pairs \in PairingsOf(OptionsOf(container, wanted))
    BY GreedyIs, SamePairings
  <2> HIDE DEF pairs
  <2>3. /\ DOMAIN wanted = 1 .. Len(wanted) /\ Len(wanted) \in Nat /\ DOMAIN wanted \subseteq Entry
        /\ OptionsOf(container, wanted) \in [Entry -> SUBSET Option]
        /\ \A e \in Entry \ DOMAIN wanted : OptionsOf(container, wanted)[e] = {}
    BY AskedTypes, OptionsAre
  <2>4. IsPairing(paired)'
    <3> DEFINE all == OptionsOf(container, wanted)
    <3>1. /\ pairs \in [DOMAIN pairs -> DOMAIN all]
          /\ \A option \in DOMAIN pairs : option \in all[pairs[option]]
          /\ \A one, other \in DOMAIN pairs : pairs[one] = pairs[other] => one = other
      BY <2>2, OutOfPairingsOf
    <3>2. DOMAIN all = Entry /\ \A e \in Entry : all[e] \subseteq Option
      BY <2>3
    <3> HIDE DEF all
    <3>3. \A option \in DOMAIN pairs : pairs[option] \in Entry /\ option \in all[pairs[option]] /\ option \in Option
      BY <3>1, <3>2
    <3>4. options' = all /\ paired' = pairs
      BY <2>1 DEF all
    <3> QED BY <3>1, <3>3, <3>4 DEF IsPairing
  <2>5. Lists(waiting', rest)
    <3>1. rest \subseteq 1 .. Len(wanted)
      BY <2>3
    <3> HIDE DEF rest
    <3> QED BY <2>1, <2>3, <3>1, PlacesOf
  <2>6. Tried(waiting)'
    <3>1. waiting' \in Seq(rest)
      BY <2>5 DEF Lists
    <3>2. rest \subseteq Entry
      BY <2>3
    <3>3. \A i \in DOMAIN waiting' : waiting'[i] \in rest
      BY <3>1
    <3>4. \A i \in DOMAIN waiting' : waiting'[i] \notin Entries(paired')
      BY <2>1, <3>3
    <3>5. ASSUME NEW e \in Entry \ Entries(paired'), options'[e] # {} PROVE \E i \in DOMAIN waiting' : waiting'[i] = e
      <4>1. e \in rest
        BY <2>1, <2>3, <3>5
      <4> QED BY <2>5, <4>1 DEF Lists
    <3>6. waiting' \in Seq(Entry)
      <4> HIDE DEF rest
      <4> QED BY <3>1, <3>2
    <3> QED BY <2>5, <3>4, <3>5, <3>6 DEF Tried, Lists
  <2>7. PairingInit'
    BY <2>1, <2>3, <2>4, <2>6 DEF PairingInit, NoChain, chain
  <2>8. MaximumInv'
    <3>1. PairingInit' => MaximumInv'
      BY MaximumInitHolds, PTL
    <3> QED BY <2>7, <3>1
  <2>9. ForItems'
    BY <2>1 DEF ForItems
  <2>10. ContainmentIsExact'
    BY <2>1 DEF ContainmentIsExact, ContainmentDone
  <2> QED BY <1>1, <2>8, <2>9, <2>10 DEF ContainmentInv
<1> QED BY <1>2, <1>3

LEMMA AnswerPairingHolds ==
  ASSUME ContainmentInv, AnswerPairing
  PROVE  ContainmentInv'
<1>1. /\ pending /\ Paired /\ pending' = FALSE /\ MaximumInv
      /\ asked' = asked /\ values' = values /\ items' = items /\ ForItems
  BY DEF AnswerPairing, ContainmentInv, ForMatchers
<1>2. values \in Collections /\ items \in Asked /\ options = OptionsOf(values, items) /\ asked \in InAnOrder
      /\ (asked = "contains_exactly" => ~AlikeInOrder(values, items))
  BY <1>1 DEF ForItems
<1>3. PICK pairs : IsBest(options, pairs) /\ DOMAIN pairs = DOMAIN paired /\ Entries(pairs) = Entries(paired)
  BY <1>1, PairedIsBest
<1> DEFINE accepted == Accepted(values, items)
           most == Most(accepted)
           N == Len(values)
           leftOn(seq, some) == LET places == Those([i \in DOMAIN seq |-> i], DOMAIN seq \ some)
                                IN  [k \in DOMAIN places |-> seq[places[k]]]
           extra == leftOn(values, DOMAIN paired)
           missing == leftOn(items, Entries(paired))
<1>4. /\ N \in Nat /\ values \in Seq(Object) /\ items \in Seq(Object)
      /\ DOMAIN values = 1 .. N /\ DOMAIN items = DOMAIN accepted
      /\ \A e \in DOMAIN accepted : accepted[e] \subseteq 1 .. N
  BY <1>2, CollectionTypes, AskedTypes, AcceptedIs
<1>5. IsBest(accepted, pairs)
  BY <1>2, <1>3, SamePairings DEF IsBest
<1> HIDE DEF accepted, N
<1>6. most = Cardinality(DOMAIN paired)
  BY <1>3, <1>4, <1>5, MostIs
<1>7. PairsUp(accepted, N, pairs)
  <2>1. pairs \in PairingsOf(accepted)
    BY <1>5 DEF IsBest
  <2> QED BY <1>4, <2>1, PairingPairsUp
<1>8. /\ DOMAIN paired \subseteq DOMAIN values /\ Entries(paired) \subseteq DOMAIN items
      /\ Cardinality(Entries(paired)) = most
  BY <1>3, <1>4, <1>6, <1>7 DEF PairsUp
<1> HIDE DEF most
<1>9. extra \in Seq(Object) /\ Len(extra) = Len(values) - Cardinality(DOMAIN paired)
  BY <1>4, <1>8, LeftOf
<1>10. missing \in Seq(Object) /\ Len(missing) = Len(items) - Cardinality(Entries(paired))
  BY <1>4, <1>8, LeftOf
<1>11. LeftOver(extra, missing)
  BY DEF AnswerPairing
<1> HIDE DEF extra, missing
<1>12. ContainmentIsExact'
  <2>1. Len(extra) = Len(values) - Most(Accepted(values, items)) /\ Len(missing) = Len(items) - Most(Accepted(values, items))
    BY <1>6, <1>8, <1>9, <1>10 DEF most, accepted
  <2>2. PICK container, wanted : container = values /\ wanted = items
    OBVIOUS
  <2> QED BY <1>1, <1>2, <1>9, <1>10, <1>11, <2>1, <2>2, LeftOverIsExact
<1>13. asked' # "nothing"
  BY <1>1, <1>2 DEF InAnOrder
<1> QED BY <1>1, <1>12, <1>13 DEF ContainmentInv

LEMMA AskInAnyOrderHolds ==
  ASSUME ContainmentInv, AskInAnyOrder
  PROVE  ContainmentInv'
<1>1. PICK container \in Collections, wanted \in Asked :
        Ask("contains_exactly_in_any_order", container, wanted) /\ InAnyOrder(container, wanted)
  BY DEF AskInAnyOrder
<1>2. Idle
  BY DEF AskInAnyOrder, ContainmentInv, NothingAsked
<1> QED BY <1>1, <1>2, InAnyOrderHolds DEF Ask, InAnOrder

LEMMA AskExactlyHolds ==
  ASSUME ContainmentInv, AskExactly
  PROVE  ContainmentInv'
<1>1. PICK container \in Collections, wanted \in Asked :
        /\ Ask("contains_exactly", container, wanted)
        /\ IF AlikeInOrder(container, wanted)
           THEN said' = Answer(TRUE, <<>>, <<>>) /\ UNCHANGED <<pending, pairingVars>>
           ELSE InAnyOrder(container, wanted)
  BY DEF AskExactly
<1>2. Idle
  BY DEF AskExactly, ContainmentInv, NothingAsked
<1>3. asked' = "contains_exactly" /\ values' = container /\ items' = wanted
  BY <1>1 DEF Ask
<1>4. CASE AlikeInOrder(container, wanted)
  <2>1. said'.holds /\ ~pending' /\ AlikeInOrder(values', items')
    BY <1>1, <1>2, <1>3, <1>4 DEF Answer, Idle
  <2>2. ContainmentIsExact'
    BY <1>3, <2>1 DEF ContainmentIsExact
  <2> QED BY <1>3, <2>1, <2>2 DEF ContainmentInv
<1>5. CASE ~AlikeInOrder(container, wanted)
  BY <1>1, <1>2, <1>3, <1>5, InAnyOrderHolds DEF InAnOrder
<1> QED BY <1>4, <1>5

LEMMA AskSatisfiedHolds ==
  ASSUME ContainmentInv, AskSatisfied
  PROVE  ContainmentInv'
<1> DEFINE AskedWith(n, satisfied) ==
             /\ Ask("satisfies_exactly_in_any_order", <<>>, [i \in 1 .. n |-> i])
             /\ options' = [e \in Entry |-> IF e \in 1 .. n THEN satisfied[e] ELSE {}]
             /\ fresh' = [i \in 1 .. n |-> i]
             /\ pending' = TRUE
             /\ UNCHANGED <<said, waiting, paired, chain>>
<1>0. PICK n \in (1 .. MaxItems) \cap (1 .. MaxValues) : \E satisfied \in [1 .. n -> SUBSET (1 .. n)] : AskedWith(n, satisfied)
  BY DEF AskSatisfied
<1>1. PICK satisfied \in [1 .. n -> SUBSET (1 .. n)] : AskedWith(n, satisfied)
  BY <1>0
<1>2. Idle
  BY DEF AskSatisfied, ContainmentInv, NothingAsked
<1>3. n \in Nat /\ 1 .. n \subseteq Entry /\ 1 .. n \subseteq Option
  <2>1. 1 .. MaxValues \subseteq Option /\ 1 .. MaxItems \subseteq Entry /\ MaxValues \in Nat /\ MaxItems \in Nat
    BY ContainmentAssumption
  <2>2. 1 .. n \subseteq 1 .. MaxValues /\ 1 .. n \subseteq 1 .. MaxItems /\ n \in Nat
    BY <2>1
  <2> QED BY <2>1, <2>2
<1>4. /\ \A e \in 1 .. n : options'[e] \subseteq 1 .. n
      /\ \A e \in Entry \ 1 .. n : options'[e] = {}
      /\ \A e \in Entry : options'[e] \subseteq 1 .. n
  BY <1>1, <1>3
<1>5. options' \in [Entry -> SUBSET Option]
  BY <1>1, <1>3
<1>6. waiting' = <<>> /\ paired' = <<>> /\ NoChain'
  BY <1>1, <1>2 DEF Idle, NoChain, chain
<1>7. DOMAIN paired' = {} /\ Entries(paired') = {}
  BY <1>6 DEF Entries
<1>8. Tried(fresh)'
  <2>1. fresh' \in Seq(Entry) /\ DOMAIN fresh' = 1 .. n /\ \A i \in 1 .. n : fresh'[i] = i
    BY <1>1, <1>3
  <2>2. \A e \in Entry : options'[e] # {} => e \in 1 .. n
    BY <1>4
  <2> QED BY <1>7, <2>1, <2>2 DEF Tried
<1>9. PairingInit'
  BY <1>5, <1>6, <1>7, <1>8 DEF PairingInit, IsPairing
<1>10. MaximumInv'
  <2>1. PairingInit' => MaximumInv'
    BY MaximumInitHolds, PTL
  <2> QED BY <1>9, <2>1
<1>11. ForMatchers'
  BY <1>1, <1>3, <1>4 DEF ForMatchers, Ask
<1>12. ContainmentIsExact'
  BY <1>1 DEF ContainmentIsExact, ContainmentDone
<1> QED BY <1>1, <1>10, <1>11, <1>12 DEF ContainmentInv, Ask

LEMMA PairHolds ==
  ASSUME ContainmentInv, Pair
  PROVE  ContainmentInv'
<1>1. pending /\ pending' = pending /\ PairingStep /\ asked' = asked /\ values' = values /\ items' = items
  BY DEF Pair
<1>2. options' = options
  BY <1>1 DEF PairingStep, TakeFree, LeaveOver, Try, Displace, MoveOver, Backtrack
<1>3. MaximumInv'
  BY <1>1, MaximumStepHolds DEF ContainmentInv
<1>4. ForItems' \/ ForMatchers'
  BY <1>1, <1>2 DEF ContainmentInv, ForItems, ForMatchers
<1>5. asked # "nothing"
  BY <1>1 DEF ContainmentInv, ForItems, ForMatchers, InAnOrder
<1>6. ContainmentIsExact'
  BY <1>1 DEF ContainmentIsExact, ContainmentDone
<1> QED BY <1>1, <1>3, <1>4, <1>5, <1>6 DEF ContainmentInv

LEMMA AnswerSatisfiedHolds ==
  ASSUME ContainmentInv, AnswerSatisfied
  PROVE  ContainmentInv'
<1>1. /\ asked = "satisfies_exactly_in_any_order" /\ pending /\ Paired /\ ~pending' /\ MaximumInv
      /\ asked' = asked /\ items' = items /\ options' = options
      /\ said'.named = Those(items, DOMAIN items \ Entries(paired))
  BY DEF AnswerSatisfied, ContainmentInv, pairingVars, Answer
<1>2. ForMatchers
  BY <1>1 DEF ContainmentInv, ForItems, InAnOrder
<1>3. PICK n \in Nat : /\ items = [i \in 1 .. n |-> i]
                       /\ \A e \in Entry \ 1 .. n : options[e] = {}
                       /\ \A e \in Entry : options[e] \subseteq 1 .. n
  BY <1>2 DEF ForMatchers
<1>4. PICK pairs : IsBest(options, pairs) /\ DOMAIN pairs = DOMAIN paired /\ Entries(pairs) = Entries(paired)
  BY <1>1, PairedIsBest
<1>5. DOMAIN options = Entry
  BY <1>1 DEF MaximumInv, PairingInv, PairingTypes
<1>6. Most(options) = Cardinality(DOMAIN paired)
  BY <1>3, <1>4, <1>5, MostIs
<1>7. PairsUp(options, n, pairs)
  BY <1>3, <1>4, <1>5, PairingPairsUp DEF IsBest
<1> DEFINE named == Entries(paired)
<1>8. named \subseteq 1 .. n
  <2>1. \A option \in DOMAIN pairs : pairs[option] \in Entry /\ option \in options[pairs[option]]
    BY <1>4, <1>5, <1>7 DEF PairsUp, Entries
  <2>2. Entries(pairs) \subseteq 1 .. n
    BY <1>3, <2>1 DEF Entries
  <2> QED BY <1>4, <2>2
<1>9. Cardinality(named) = Most(options)
  BY <1>4, <1>6, <1>7 DEF PairsUp
<1> HIDE DEF named
<1>10. Len(items) = n /\ DOMAIN items = 1 .. n
  BY <1>3
<1>11. Cardinality((1 .. n) \ named) = n - Cardinality(named)
  <2>1. IsFiniteSet(1 .. n) /\ Cardinality(1 .. n) = n
    BY <1>3, FS_Interval
  <2>2. Cardinality((1 .. n) \ named) = Cardinality(1 .. n) - Cardinality((1 .. n) \cap named)
    BY <2>1, FS_Difference
  <2>3. (1 .. n) \cap named = named
    BY <1>8
  <2> QED BY <2>1, <2>2, <2>3
<1>12. Len(said'.named) = Cardinality((1 .. n) \ named)
  <2> DEFINE rest == (1 .. n) \ named
  <2>1. rest \subseteq 1 .. n
    OBVIOUS
  <2>2. said'.named = Those([i \in 1 .. n |-> i], rest)
    BY <1>1, <1>3, <1>10 DEF named
  <2> HIDE DEF rest
  <2>3. Len(Those([i \in 1 .. n |-> i], rest)) = Cardinality(rest)
    BY <2>1, PlacesThat
  <2> QED BY <2>2, <2>3 DEF rest
<1>13. Len(said'.named) = Len(items') - Most(options')
  BY <1>1, <1>9, <1>10, <1>11, <1>12
<1>14. ContainmentIsExact'
  BY <1>1, <1>13 DEF ContainmentIsExact
<1> QED BY <1>1, <1>14 DEF ContainmentInv

LEMMA AtOnceHolds ==
  ASSUME Idle, NEW name, name # "nothing", NEW container, NEW wanted, NEW answer, AskAtOnce(name, container, wanted, answer),
         ContainmentIsExact'
  PROVE  ContainmentInv'
BY DEF AskAtOnce, Ask, Idle, ContainmentInv

LEMMA AskContainsHolds ==
  ASSUME Idle, NEW container \in Collections, NEW wanted \in Asked,
         AskAtOnce("contains", container, wanted, Contains(container, wanted))
  PROVE  ContainmentInv'
<1>1. /\ asked' = "contains" /\ values' = container /\ items' = wanted
      /\ said' = Answer(Those(wanted, AbsentFrom(wanted, container)) = <<>>, Those(wanted, AbsentFrom(wanted, container)), <<>>)
  BY ContainsIs DEF AskAtOnce, Ask
<1>2. ContainmentIsExact'
  BY <1>1 DEF ContainmentIsExact, Names, Answer
<1> QED BY <1>2, AtOnceHolds

LEMMA AskDoesNotContainHolds ==
  ASSUME Idle, NEW container \in Collections, NEW wanted \in Asked,
         AskAtOnce("does_not_contain", container, wanted, DoesNotContain(container, wanted))
  PROVE  ContainmentInv'
<1> DEFINE present == Those(wanted, Elements(wanted) \ AbsentFrom(wanted, container))
<1>1. asked' = "does_not_contain" /\ values' = container /\ items' = wanted /\ said' = Answer(present = <<>>, present, <<>>)
  BY DoesNotContainIs DEF AskAtOnce, Ask
<1>2. ContainmentIsExact'
  BY <1>1 DEF ContainmentIsExact, Names, Answer
<1> QED BY <1>2, AtOnceHolds

LEMMA AskContainsOnlyHolds ==
  ASSUME Idle, NEW container \in Collections, NEW wanted \in Asked,
         AskAtOnce("contains_only", container, wanted, ContainsOnly(container, wanted))
  PROVE  ContainmentInv'
<1> DEFINE extra   == Those(container, AbsentFrom(container, wanted))
           missing == Those(wanted, AbsentFrom(wanted, container))
<1>1. /\ asked' = "contains_only" /\ values' = container /\ items' = wanted
      /\ said' = Answer(extra = <<>> /\ missing = <<>>, extra, missing)
  BY ContainsOnlyIs DEF AskAtOnce, Ask
<1>2. said'.named = extra /\ said'.also = missing /\ said'.holds = (extra = <<>> /\ missing = <<>>)
  BY <1>1 DEF Answer
<1>3. ContainmentIsExact'
  BY <1>1, <1>2 DEF ContainmentIsExact
<1> QED BY <1>3, AtOnceHolds

LEMMA AskSubsetHolds ==
  ASSUME Idle, NEW container \in Collections, NEW wanted \in Asked,
         AskAtOnce("is_subset_of", container, wanted, IsSubsetOf(container, wanted))
  PROVE  ContainmentInv'
<1> DEFINE missing == Those(container, AbsentFrom(container, wanted))
<1>1. asked' = "is_subset_of" /\ values' = container /\ items' = wanted /\ said' = Answer(missing = <<>>, missing, <<>>)
  BY IsSubsetIs DEF AskAtOnce, Ask
<1>2. ContainmentIsExact'
  BY <1>1 DEF ContainmentIsExact, Names, Answer
<1> QED BY <1>2, AtOnceHolds

LEMMA AskOnlyOnceHolds ==
  ASSUME Idle, NEW container \in Collections, NEW wanted \in Asked,
         AskAtOnce("contains_only_once", container, wanted, ContainsOnlyOnce(container, wanted))
  PROVE  ContainmentInv'
<1> DEFINE missing  == Those(wanted, {item \in Elements(wanted) : Times(item, container) = 0})
           repeated == Those(wanted, {item \in Elements(wanted) : Times(item, container) > 1})
           once     == \A item \in Elements(wanted) : Times(item, container) = 1
<1>1. /\ asked' = "contains_only_once" /\ values' = container /\ items' = wanted
      /\ said' = Answer(once, missing, repeated)
  BY OnlyOnceIs DEF AskAtOnce, Ask
<1>2. said'.named = missing /\ said'.also = repeated /\ said'.holds = once
  BY <1>1 DEF Answer
<1>3. ContainmentIsExact'
  BY <1>1, <1>2 DEF ContainmentIsExact
<1> QED BY <1>3, AtOnceHolds

LEMMA AskSequenceHolds ==
  ASSUME Idle, NEW container \in Collections, NEW wanted \in Asked,
         AskAtOnce("contains_sequence", container, wanted, ContainsSequence(container, wanted))
  PROVE  ContainmentInv'
<1>1. asked' = "contains_sequence" /\ values' = container /\ items' = wanted /\ said' = ContainsSequence(container, wanted)
  BY DEF AskAtOnce, Ask
<1>2. PICK n \in 0 .. Len(wanted) :
        /\ FitsUpTo(ContainsSequence(container, wanted), wanted, n)
        /\ LinesUp(container, SubSeq(wanted, 1, n))
        /\ n < Len(wanted) => ~LinesUp(container, SubSeq(wanted, 1, n + 1))
  BY SequenceIs
<1>3. LongestThat(LinesUp)'
  BY <1>1, <1>2 DEF LongestThat, FitsUpTo
<1>4. ContainmentIsExact'
  BY <1>1, <1>3 DEF ContainmentIsExact
<1> QED BY <1>4, AtOnceHolds

LEMMA AskInOrderHolds ==
  ASSUME Idle, NEW container \in Collections, NEW wanted \in Asked,
         AskAtOnce("contains_in_order", container, wanted, ContainsInOrder(container, wanted))
  PROVE  ContainmentInv'
<1>1. asked' = "contains_in_order" /\ values' = container /\ items' = wanted /\ said' = ContainsInOrder(container, wanted)
  BY DEF AskAtOnce, Ask
<1>2. PICK n \in 0 .. Len(wanted) :
        /\ FitsUpTo(ContainsInOrder(container, wanted), wanted, n)
        /\ Embeds(container, SubSeq(wanted, 1, n))
        /\ n < Len(wanted) => ~Embeds(container, SubSeq(wanted, 1, n + 1))
  BY InOrderIs
<1>3. LongestThat(Embeds)'
  BY <1>1, <1>2 DEF LongestThat, FitsUpTo
<1>4. ContainmentIsExact'
  BY <1>1, <1>3 DEF ContainmentIsExact
<1> QED BY <1>4, AtOnceHolds

LEMMA AskItemsHolds ==
  ASSUME ContainmentInv, AskItems
  PROVE  ContainmentInv'
<1>1. PICK container \in Collections, wanted \in Asked : Questions(container, wanted)
  BY DEF AskItems
<1>2. Idle
  BY DEF AskItems, ContainmentInv, NothingAsked
<1> QED BY <1>1, <1>2, AskContainsHolds, AskDoesNotContainHolds, AskContainsOnlyHolds, AskSequenceHolds, AskInOrderHolds,
           AskOnlyOnceHolds, AskSubsetHolds DEF Questions

LEMMA AskDuplicatesHolds ==
  ASSUME ContainmentInv, AskDuplicates
  PROVE  ContainmentInv'
<1>1. PICK container \in Collections :
        AskAtOnce("does_not_contain_duplicates", container, <<>>, DoesNotContainDuplicates(container))
  BY DEF AskDuplicates
<1>2. Idle
  BY DEF AskDuplicates, ContainmentInv, NothingAsked
<1>3. asked' = "does_not_contain_duplicates" /\ values' = container /\ said' = DoesNotContainDuplicates(container)
  BY <1>1 DEF AskAtOnce, Ask
<1>4. PICK answer : answer = DoesNotContainDuplicates(container)
  OBVIOUS
<1>5. LET named == Elements(answer.named)
      IN  /\ answer.holds = (\A i, j \in DOMAIN container : Same(container[i], container[j]) => i = j)
          /\ \A pair \in named : pair[2] > 1 /\ pair[2] = Times(pair[1], container)
          /\ \A value \in Elements(container) : Times(value, container) > 1 => \E pair \in named : Same(pair[1], value)
  BY <1>4, DuplicatesNamed
<1>6. said' = answer
  BY <1>3, <1>4
<1>7. EveryRepeatNamed'
  BY <1>3, <1>5, <1>6 DEF EveryRepeatNamed
<1>8. ContainmentIsExact'
  BY <1>3, <1>7 DEF ContainmentIsExact
<1> QED BY <1>1, <1>2, <1>8, AtOnceHolds

LEMMA AskIsInHolds ==
  ASSUME ContainmentInv, AskIsIn
  PROVE  ContainmentInv'
<1>1. PICK value \in Object \ Matcher, wanted \in Asked : AskAtOnce("is_in", <<value>>, wanted, IsIn(value, wanted))
  BY DEF AskIsIn
<1>2. Idle
  BY DEF AskIsIn, ContainmentInv, NothingAsked
<1>3. asked' = "is_in" /\ values' = <<value>> /\ items' = wanted /\ said' = Answer(~Absent(value, wanted), <<>>, <<>>)
  BY <1>1, IsInIs DEF AskAtOnce, Ask
<1>4. said'.holds = ~Absent(values'[1], items')
  BY <1>3 DEF Answer
<1>5. ContainmentIsExact'
  BY <1>3, <1>4 DEF ContainmentIsExact
<1> QED BY <1>1, <1>2, <1>5, AtOnceHolds

LEMMA AskTextHolds ==
  ASSUME ContainmentInv, AskText
  PROVE  ContainmentInv'
<1>1. PICK text \in Texts, parts \in Parts : TextQuestions(text, parts)
  BY DEF AskText
<1>2. Idle
  BY DEF AskText, ContainmentInv, NothingAsked
<1>3. ASSUME AskAtOnce("text_contains", text, parts, TextContains(text, parts)) PROVE ContainmentInv'
  <2>1. asked' = "text_contains" /\ values' = text /\ items' = parts /\ said' = TextContains(text, parts)
    BY <1>3 DEF AskAtOnce, Ask
  <2>2. TextContains(text, parts).holds = \A part \in Elements(parts) : InText(part, text)
    BY TextContainsIs
  <2>3. ContainmentIsExact'
    BY <2>1, <2>2 DEF ContainmentIsExact
  <2> QED BY <1>2, <1>3, <2>3, AtOnceHolds
<1>4. ASSUME AskAtOnce("text_does_not_contain", text, parts, TextDoesNotContain(text, parts)) PROVE ContainmentInv'
  <2>1. asked' = "text_does_not_contain" /\ values' = text /\ items' = parts /\ said' = TextDoesNotContain(text, parts)
    BY <1>4 DEF AskAtOnce, Ask
  <2>2. (\A part \in Elements(parts) : Len(part) = 1) =>
          TextDoesNotContain(text, parts).holds = \A part \in Elements(parts) : ~InText(part, text)
    BY TextDoesNotContainIs
  <2>3. ContainmentIsExact'
    BY <2>1, <2>2 DEF ContainmentIsExact
  <2> QED BY <1>2, <1>4, <2>3, AtOnceHolds
<1>5. ASSUME AskAtOnce("text_contains_only", text, parts, TextContainsOnly(text, parts)) PROVE ContainmentInv'
  <2>1. asked' = "text_contains_only" /\ values' = text /\ items' = parts /\ said' = TextContainsOnly(text, parts)
    BY <1>5 DEF AskAtOnce, Ask
  <2>2. TextContainsOnly(text, parts).holds =
          /\ \A part \in Elements(parts) : InText(part, text)
          /\ \A i \in DOMAIN text : <<text[i]>> \in Elements(parts)
    BY TextContainsOnlyIs
  <2>3. ContainmentIsExact'
    BY <2>1, <2>2 DEF ContainmentIsExact
  <2> QED BY <1>2, <1>5, <2>3, AtOnceHolds
<1>6. ASSUME AskAtOnce("text_contains_sequence", text, parts, TextContainsSequence(text, parts)) PROVE ContainmentInv'
  <2>1. asked' = "text_contains_sequence" /\ values' = text /\ items' = parts /\ said' = TextContainsSequence(text, parts)
    BY <1>6 DEF AskAtOnce, Ask
  <2>2. TextContainsSequence(text, parts).holds = InTurn(text, parts)
    BY InTurnIs
  <2>3. ContainmentIsExact'
    BY <2>1, <2>2 DEF ContainmentIsExact
  <2> QED BY <1>2, <1>6, <2>3, AtOnceHolds
<1> QED BY <1>1, <1>3, <1>4, <1>5, <1>6 DEF TextQuestions

LEMMA ContainmentInitHolds == ContainmentInit => ContainmentInv
BY DEF ContainmentInit, ContainmentInv, Idle, ContainmentIsExact, ContainmentDone

LEMMA ContainmentStepHolds == ContainmentInv /\ [ContainmentStep]_containmentVars => ContainmentInv'
<1> SUFFICES ASSUME ContainmentInv, [ContainmentStep]_containmentVars PROVE ContainmentInv'
  OBVIOUS
<1>1. CASE UNCHANGED containmentVars
  <2>1. /\ asked' = asked /\ values' = values /\ items' = items /\ pending' = pending /\ said' = said
        /\ UNCHANGED pairingVars
    BY <1>1 DEF containmentVars
  <2>2. pending => MaximumInv'
    BY <2>1, MaximumStepHolds DEF ContainmentInv
  <2>3. UNCHANGED <<options, fresh, waiting, paired, path, taken, looked>>
    BY <2>1 DEF pairingVars, chain
  <2>4. asked' = "nothing" => Idle'
    BY <2>1, <2>3 DEF ContainmentInv, Idle, NoChain
  <2>5. pending' => ForItems' \/ ForMatchers'
    BY <2>1, <2>3 DEF ContainmentInv, ForItems, ForMatchers
  <2>6. ContainmentIsExact'
    BY <2>1, <2>3 DEF ContainmentInv, ContainmentIsExact, ContainmentDone, Names, LongestThat, FewestLeftOver, MostPairs,
                      EveryRepeatNamed
  <2> QED BY <2>1, <2>2, <2>4, <2>5, <2>6 DEF ContainmentInv
<1>2. CASE ContainmentStep
  BY <1>2, AskItemsHolds, AskDuplicatesHolds, AskIsInHolds, AskTextHolds, AskInAnyOrderHolds, AskExactlyHolds,
     AskSatisfiedHolds, PairHolds, AnswerPairingHolds, AnswerSatisfiedHolds DEF ContainmentStep
<1> QED BY <1>1, <1>2

\* Whatever the objects, their `==`, hashes and matchers, however many values and items there are, and from whatever size
\* on an index is used: every assertion about the items of a collection holds exactly when it says so, and its failure
\* names exactly what is wrong (_membership.py, contains.py).
THEOREM AnswersAreExact == ContainmentSpec => []ContainmentIsExact
<1>1. ContainmentInv => ContainmentIsExact
  BY DEF ContainmentInv
<1> QED BY <1>1, ContainmentInitHolds, ContainmentStepHolds, PTL DEF ContainmentSpec
=============================================================================
