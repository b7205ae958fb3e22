---------------------------- MODULE ObjectGraphs ----------------------------
(***************************************************************************)
(* Values that hold other values: sequences and mappings, which may lead   *)
(* back to themselves, over scalars.  What == answers of two of them, and  *)
(* what the comparison engine decides of one pair before it takes it apart.*)
(*                                                                         *)
(* Strings and sets are left out, since neither is walked, and so are      *)
(* objects, whose fields are walked as the keys of a mapping are.  Keys    *)
(* are of one type.  rel and ignore_null are left out too.                 *)
(***************************************************************************)
EXTENDS Integers, FiniteSets, Sequences
LOCAL INSTANCE SequencesExt

CONSTANTS
  Box,       \* values that hold others
  Atom,      \* values that hold nothing
  AtomType,  \* the type of each
  Nan,       \* atoms that are not equal to themselves
  Alike,     \* pairs of two atoms that == holds equal
  Number,    \* atoms a tolerance applies to
  Near,      \* pairs of two atoms within the tolerance
  Owned,     \* atoms of a type a comparator is given for
  Approves   \* pairs it accepts

Value    == Box \cup Atom
BoxPairs == Box \X Box

ASSUME ObjectsAssumption ==
  /\ Box \cap Atom = {} /\ IsFiniteSet(Value)
  /\ Nan \subseteq Atom /\ Number \subseteq Atom /\ Owned \subseteq Atom
  /\ Alike \subseteq Atom \X Atom /\ Near \subseteq Number \X Number

VARIABLES
  kind,   \* of each box: "list", "tuple", "dict", or a class of lists that leaves == alone ("sub"), or takes
          \* that of object ("odd")
  parts,  \* of each box: what it holds, at each index or key
  config, \* the options of the comparison that are given; none is no configuration
  equal,  \* what == answers of two boxes, settled with the graph ...
  agreed, \* ... and the pairs of boxes that agree under the options
  alike   \* ... and with no options

graphVars == <<kind, parts, config, equal, agreed, alike>>

Given(option) == option \in config
Plain         == config = {}

TypeOf(v) == IF v \in Atom THEN AtomType[v] ELSE kind[v]

IsMapping(v)  == v \in Box /\ kind[v] = "dict"
IsSequence(v) == v \in Box /\ kind[v] # "dict"
IsList(v)     == IsSequence(v) /\ kind[v] # "tuple"

\* _Walk.children(): pairs that are taken apart together.
TakenApart(a, b) == (IsMapping(a) /\ IsMapping(b)) \/ (IsSequence(a) /\ IsSequence(b))

-----------------------------------------------------------------------------
(* == *)

\* A list is compared with a list and a tuple with a tuple; two odd ones are left to the == of object.
ComparedByParts(a, b) ==
  /\ TakenApart(a, b)
  /\ IsSequence(a) => (IsList(a) <=> IsList(b)) /\ ~(kind[a] = "odd" /\ kind[b] = "odd")

\* What is known of two children, where something is known of every pair of boxes; is comes before ==.
ChildAnswer(a, b, known) ==
  IF a = b THEN "yes"
  ELSE IF {a, b} \subseteq Box THEN known[a, b]
  ELSE IF <<a, b>> \in Alike THEN "yes" ELSE "no"

\* The first child that is not equal answers for the pair.
PartsAnswer(a, b, known) ==
  LET Child(key) == IF key \in DOMAIN parts[b] THEN ChildAnswer(parts[a][key], parts[b][key], known) ELSE "no"
      stops      == {key \in DOMAIN parts[a] : Child(key) # "yes"}
  IN  IF Cardinality(DOMAIN parts[a]) # Cardinality(DOMAIN parts[b]) THEN "no"
      ELSE IF stops = {} THEN "yes"
      ELSE Child(Min(stops))

\* "yes" or "no" where that is found in finitely many steps, and "none" where == goes on until the stack runs out.
EqualAnswers ==
  LET Deeper(known) ==
        [pair \in BoxPairs |->
           IF pair[1] = pair[2] THEN "yes"
           ELSE IF ~ComparedByParts(pair[1], pair[2]) THEN "no"
           ELSE IF known[pair] # "none" THEN known[pair]
           ELSE PartsAnswer(pair[1], pair[2], known)]
      answers == {"yes", "no", "none"}
      settled[known \in [BoxPairs -> answers], before \in [BoxPairs -> answers \cup {"unasked"}]] ==
        IF known = before THEN known ELSE settled[Deeper(known), known]
  IN  settled[[pair \in BoxPairs |-> "none"], [pair \in BoxPairs |-> "unasked"]]

WalkedEqual(a, b) ==
  IF {a, b} \subseteq Box THEN equal[a, b]
  ELSE IF (a = b /\ a \notin Nan) \/ <<a, b>> \in Alike THEN "yes" ELSE "no"

-----------------------------------------------------------------------------
(* Decisions *)

\* A list and a tuple: neither == has an answer, and their parts could not make them equal.
KindsNeverEqual(a, b) == IsSequence(a) /\ IsSequence(b) /\ ~(IsList(a) <=> IsList(b))

\* Whether == may hold a pair apart whatever the two hold.
DiffersOfItself(a, b) ==
  IF kind[a] = kind[b] THEN kind[a] = "odd"
  ELSE "odd" \in {kind[a], kind[b]} \/ KindsNeverEqual(a, b)

ResolvesComparator(a) == Given("comparators") /\ a \in Owned

PlainDecision(a, b, atRoot) ==
  IF a = b /\ ~atRoot THEN "equal"
  ELSE CASE WalkedEqual(a, b) = "yes"  -> "equal"
         [] WalkedEqual(a, b) = "none" -> "unanswered"
         [] OTHER -> IF ~Plain /\ KindsNeverEqual(a, b) THEN "leaf" ELSE "recurse"

ToleranceDecision(a, b, atRoot) ==
  IF (a = b /\ ~atRoot) \/ WalkedEqual(a, b) = "yes" \/ <<a, b>> \in Near THEN "equal" ELSE "leaf"

\* A slip: a container that is equal by its own == is not looked into.
TakesItsWord(a, b, atRoot) ==
  IF ResolvesComparator(a) THEN IF <<a, b>> \in Approves THEN "equal" ELSE "leaf"
  ELSE IF Given("strict_types") /\ TypeOf(a) # TypeOf(b) THEN "leaf"
  ELSE IF Given("tolerance") /\ {a, b} \subseteq Number THEN ToleranceDecision(a, b, atRoot)
  ELSE PlainDecision(a, b, atRoot)

NodeDecision(a, b, atRoot) ==
  IF ResolvesComparator(a) THEN IF <<a, b>> \in Approves THEN "equal" ELSE "leaf"
  ELSE IF Given("strict_types") /\ a = b /\ ~atRoot THEN "equal"
  ELSE IF Given("strict_types") /\ TypeOf(a) # TypeOf(b) THEN "leaf"
  ELSE IF Given("strict_types") /\ a \in Box /\ WalkedEqual(a, b) = "yes" THEN "strict"
  ELSE IF Given("tolerance") /\ {a, b} \subseteq Number THEN ToleranceDecision(a, b, atRoot)
  ELSE IF Given("comparators") /\ a # b /\ a \in Box /\ WalkedEqual(a, b) = "yes" THEN "strict"
  ELSE PlainDecision(a, b, atRoot)

-----------------------------------------------------------------------------
(* What the comparison means: two values agree when nothing that can be    *)
(* reached from them side by side is apart.                                *)

\* Inside another value a NaN is itself; as a root it is equal to nothing.
ScalarsAgree(a, b, atRoot) ==
  IF ResolvesComparator(a) THEN <<a, b>> \in Approves
  ELSE \/ a = b /\ ~(atRoot /\ a \in Nan)
       \/ /\ Given("strict_types") => TypeOf(a) = TypeOf(b)
          /\ <<a, b>> \in Alike \/ (Given("tolerance") /\ <<a, b>> \in Near)

\* Kinds that may agree, whatever the two hold.
KindsAgree(a, b) ==
  /\ TakenApart(a, b) /\ ~KindsNeverEqual(a, b)
  /\ Given("strict_types") => kind[a] = kind[b]
  /\ Plain => ComparedByParts(a, b)

AgreeGiven(a, b, pairs, Scalars(_, _)) == IF {a, b} \subseteq Box THEN <<a, b>> \in pairs ELSE Scalars(a, b)

PartsAgreeGiven(a, b, pairs, Scalars(_, _)) ==
  /\ DOMAIN parts[a] = DOMAIN parts[b]
  /\ \A key \in DOMAIN parts[a] : AgreeGiven(parts[a][key], parts[b][key], pairs, Scalars)

\* Nothing is apart but what a difference found somewhere keeps apart.
NeverApart(Kinds(_, _), Scalars(_, _)) ==
  LET Still(pairs) == {pair \in pairs : pair[1] = pair[2] \/ PartsAgreeGiven(pair[1], pair[2], pairs, Scalars)}
      remaining[pairs \in SUBSET BoxPairs, before \in SUBSET BoxPairs] ==
        IF pairs = before THEN pairs ELSE remaining[Still(pairs), pairs]
  IN  remaining[{pair \in BoxPairs : pair[1] = pair[2] \/ Kinds(pair[1], pair[2])}, {}]

InsideAgree(a, b)   == ScalarsAgree(a, b, FALSE)
InsideAlike(a, b)   == a = b \/ <<a, b>> \in Alike
AgreeingPairs       == NeverApart(KindsAgree, InsideAgree)
AlikePairs          == IF Plain THEN agreed ELSE NeverApart(ComparedByParts, InsideAlike)

Agree(a, b)      == AgreeGiven(a, b, agreed, InsideAgree)
\* Of two that are taken apart.
PartsAgree(a, b) == PartsAgreeGiven(a, b, agreed, InsideAgree)

Graph(kinds, held, options) ==
  /\ kind' = kinds /\ parts' = held /\ config' = options
  /\ equal' = EqualAnswers' /\ agreed' = AgreeingPairs' /\ alike' = AlikePairs'
=============================================================================
