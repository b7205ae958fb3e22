------------------------------ MODULE EqualTo -------------------------------
(***************************************************************************)
(* is_equal_to() and match.equal_to(), with the same options, of the same  *)
(* two values: the comparison of mappings key by key, of sequences with    *)
(* keys left out item by item, and of the rest by == or by the walk.       *)
(***************************************************************************)
EXTENDS DiffWalk
LOCAL INSTANCE SequencesExt

Left  == roots[1]
Right == roots[2]

BothMappings(a, b)  == IsMapping(a) /\ IsMapping(b)
ClassesDiffer(a, b) == Given("strict_types") /\ TypeOf(a) # TypeOf(b)

Not(answer) == IF answer = "yes" THEN "no" ELSE IF answer = "no" THEN "yes" ELSE answer
Says(differs) == IF differs THEN "yes" ELSE "no"

-----------------------------------------------------------------------------
(* values_differ(), mapping_differs(): "yes", "no", or "raises" *)

\* _child_entries() finds something: a walk does where the parts do not agree, as VerdictIsAgreement checks of walks.
ChildEntries(a, b, why) == IF TakenApart(a, b) THEN ~PartsAgree(a, b) ELSE why # "strict"

\* A slip: a list and a tuple are told apart by what they hold.
DifferByParts(a, b, atRoot) ==
  IF a = b /\ ~atRoot THEN FALSE
  ELSE IF Plain THEN WalkedEqual(a, b) = "no" \/ (WalkedEqual(a, b) = "none" /\ ChildEntries(a, b, "unanswered"))
  ELSE IF TakenApart(a, b) THEN ~PartsAgree(a, b)
  ELSE NodeDecision(a, b, atRoot) \notin {"equal", "strict"}

ValuesDiffer(a, b, atRoot) ==
  IF a = b /\ ~atRoot THEN FALSE
  ELSE IF Plain THEN WalkedEqual(a, b) = "no" \/ (WalkedEqual(a, b) = "none" /\ ChildEntries(a, b, "unanswered"))
  ELSE IF atRoot /\ ResolvesComparator(a) THEN NodeDecision(a, b, TRUE) = "leaf"
  ELSE IF KindsNeverEqual(a, b) THEN TRUE
  ELSE IF TakenApart(a, b) THEN ~PartsAgree(a, b)
  ELSE NodeDecision(a, b, atRoot) \notin {"equal", "strict"}

Kept(v, keys) == DOMAIN parts[v] \ keys

RECURSIVE MappingOpened(_, _, _, _)
MappingOpened(a, b, keys, onPath) ==
  LET inside == IF keys = {} THEN onPath \cup {<<a, b>>} ELSE onPath
      Nested(one, other) ==
        IF BothMappings(one, other) THEN MappingOpened(one, other, {}, inside) ELSE ValuesDiffer(one, other, FALSE)
      Differs(one, other) ==
        LET decision == IF Plain THEN "recurse" ELSE NodeDecision(one, other, FALSE)
        IN  decision = "leaf" \/ (decision # "equal" /\ Nested(one, other))
  IN  IF keys = {} /\ <<a, b>> \in onPath THEN FALSE
      ELSE IF keys = {} /\ Plain /\ WalkedEqual(a, b) # "none" THEN WalkedEqual(a, b) = "no"
      ELSE \/ Kept(a, keys) # Kept(b, keys)
           \/ \E pair \in {<<parts[a][key], parts[b][key]>> : key \in Kept(a, keys)} : Differs(pair[1], pair[2])

\* Only at the root is a graph == cannot finish refused, and only where == is what is asked.
MappingDiffers(a, b, keys) ==
  IF keys = {} /\ Plain /\ WalkedEqual(a, b) = "none" THEN "raises" ELSE Says(MappingOpened(a, b, keys, {}))

\* One item of a sequence whose keys are filtered, as the assertion asks it and as the matcher does.
ItemDiffers(a, b, keys) ==
  LET decision == NodeDecision(a, b, FALSE)
  IN  IF BothMappings(a, b) THEN MappingOpened(a, b, keys, {})
      ELSE IF decision \in {"strict", "unanswered"} \/ (decision = "recurse" /\ ~Plain)
      THEN ChildEntries(a, b, decision)
      ELSE decision # "equal"

FilteredPairDiffers(a, b, keys) ==
  IF BothMappings(a, b) THEN MappingOpened(a, b, keys, {}) ELSE ValuesDiffer(a, b, FALSE)

\* Two sequences whose items are not asked of.
NotPaired(a, b) == DOMAIN parts[a] # DOMAIN parts[b] \/ KindsNeverEqual(a, b)

-----------------------------------------------------------------------------
(* The two ways to ask *)

\* What the walk of _build_equality_diff() comes to, under a configuration.
RootDiffers(a, b) ==
  LET decision == NodeDecision(a, b, TRUE)
  IN  decision = "leaf" \/ (decision # "equal" /\ ChildEntries(a, b, decision))

AssertionDiffers(a, b, keys) ==
  IF ResolvesComparator(a) THEN Says(RootDiffers(a, b))
  ELSE IF ClassesDiffer(a, b) THEN "yes"
  ELSE IF BothMappings(a, b) THEN MappingDiffers(a, b, keys)
  ELSE IF keys # {} /\ IsSequence(a) /\ IsSequence(b)
       THEN Says(NotPaired(a, b) \/ \E n \in DOMAIN parts[a] : ItemDiffers(parts[a][n], parts[b][n], keys))
  ELSE IF keys # {} THEN "raises"
  ELSE IF Plain THEN IF WalkedEqual(a, b) = "none" THEN "raises" ELSE Not(WalkedEqual(a, b))
  ELSE Says(RootDiffers(a, b))

MatcherDiffers(a, b, keys) ==
  IF Plain /\ keys = {} THEN IF WalkedEqual(a, b) = "none" THEN "raises" ELSE Not(WalkedEqual(a, b))
  ELSE IF ResolvesComparator(a) THEN Says(ValuesDiffer(a, b, TRUE))
  ELSE IF ClassesDiffer(a, b) THEN "yes"
  ELSE IF BothMappings(a, b) THEN MappingDiffers(a, b, keys)
  ELSE IF keys # {} /\ IsSequence(a) /\ IsSequence(b)
       THEN Says(NotPaired(a, b) \/ \E n \in DOMAIN parts[a] : FilteredPairDiffers(parts[a][n], parts[b][n], keys))
  ELSE IF keys # {} THEN "yes"
  ELSE Says(ValuesDiffer(a, b, TRUE))

-----------------------------------------------------------------------------

EqualToInit ==
  /\ kind = <<>> /\ parts = <<>> /\ config = {} /\ equal = <<>> /\ agreed = {} /\ alike = {}
  /\ asking = "nothing" /\ roots = <<>> /\ leftOut = {}
  /\ stack = <<>> /\ entries = <<>> /\ met = <<>> /\ answered = FALSE

\* A test has two values, and options for their comparison.
Hold(kinds, held, options, two, keys) ==
  /\ asking = "nothing"
  /\ Graph(kinds, held, options)
  /\ roots' = two /\ leftOut' = keys
  /\ asking' = "anything"
  /\ UNCHANGED <<stack, entries, met, answered>>

\* What the walk decides, and what it would decide the same way where the classes are told apart first.
WalkDecides ==
  \/ ResolvesComparator(Left)
  \/ ClassesDiffer(Left, Right)
  \/ ~Plain /\ leftOut = {} /\ ~BothMappings(Left, Right)

\* The failure of a sequence with keys left out is described item by item, which is not modelled.
Described ==
  IF BothMappings(Left, Right) THEN SubDiffEntries(Left, Right, leftOut)
  ELSE IF leftOut # {} THEN AtOnce(<<>>)
  ELSE BuildEqualityDiff(Left, Right)

IsEqualTo ==
  /\ asking = "anything"
  /\ asking' = "is_equal_to"
  /\ \/ WalkDecides /\ BuildEqualityDiff(Left, Right)
     \/ ~WalkDecides /\ AssertionDiffers(Left, Right, leftOut) = "yes" /\ Described
     \/ ~WalkDecides /\ AssertionDiffers(Left, Right, leftOut) # "yes" /\ AtOnce(<<>>)
  /\ UNCHANGED <<graphVars, roots, leftOut>>

\* An alignment of two sequences asks so of their items.
AskGraphs ==
  /\ asking = "anything" /\ Plain /\ leftOut = {}
  /\ WalkedEqual(Left, Right) = "none"
  /\ asking' = "graphs differ"
  /\ GraphsDiffer(Left, Right)
  /\ UNCHANGED <<graphVars, roots, leftOut>>

EqualToStep == IsEqualTo \/ AskGraphs \/ Visit \/ Leave
EqualToDone == answered

-----------------------------------------------------------------------------
(* Properties *)

KeptAgree(a, b) ==
  IF BothMappings(a, b)
  THEN Kept(a, leftOut) = Kept(b, leftOut) /\ \A key \in Kept(a, leftOut) : Agree(parts[a][key], parts[b][key])
  ELSE Agree(a, b)

\* The roots agree, but for keys that are left out: of the two, or of their items.
RootsAgree ==
  IF ~({Left, Right} \subseteq Box) THEN ScalarsAgree(Left, Right, TRUE)
  ELSE IF leftOut = {} \/ BothMappings(Left, Right) THEN KeptAgree(Left, Right)
  ELSE /\ KindsAgree(Left, Right) /\ DOMAIN parts[Left] = DOMAIN parts[Right]
       /\ \A n \in DOMAIN parts[Left] : KeptAgree(parts[Left][n], parts[Right][n])

\* is_equal_to() fails exactly on two values that do not agree, whatever the two lead back to, unless == itself
\* cannot answer; and a failure, or a walk that answers for ==, has found something (base.py 268-345).  A value and
\* itself are left out under comparators, which are asked of what it holds under strict types alone.
VerdictIsAgreement ==
  answered /\ ~(Left = Right /\ Given("comparators")) =>
    LET verdict == IF asking = "graphs differ" THEN Says(entries # <<>>) ELSE AssertionDiffers(Left, Right, leftOut)
    IN  verdict # "raises" =>
          /\ verdict = "no" <=> RootsAgree
          /\ (leftOut = {} \/ BothMappings(Left, Right)) => (verdict = "no" <=> entries = <<>>)

Under(place, at) == IsPrefix(place, at)

\* An entry at a pair or inside it; or the walk came back inside it to a pair around it, and == had no other ground.
Accounted(meeting) ==
  \/ \E n \in DOMAIN entries : Under(meeting.at, entries[n].at)
  \/ /\ ~DiffersOfItself(meeting.left, meeting.right)
     /\ \E n \in DOMAIN met :
          /\ met[n].again /\ Under(meeting.at, met[n].at)
          /\ \A outer \in DOMAIN met :
               ~met[outer].again /\ met[outer].left = met[n].left /\ met[outer].right = met[n].right
                 /\ IsStrictPrefix(met[outer].at, met[n].at) => IsStrictPrefix(met[outer].at, meeting.at)

\* The diff of a failed plain comparison accounts for each pair == held apart on the way down, names no pair == holds
\* equal, and names nothing twice, a part and the whole of it (_diff.py 490-567).
EveryDifferenceIsTold ==
  answered /\ Plain =>
    /\ \A n \in DOMAIN met : met[n].why = "recurse" /\ ~met[n].again => Accounted(met[n])
    /\ \A n \in DOMAIN entries :
         /\ ~entries[n].absent => WalkedEqual(entries[n].left, entries[n].right) = "no"
         /\ \A m \in DOMAIN entries : m # n => ~Under(entries[m].at, entries[n].at)

\* Without comparators, and without strict types where keys are left out, the assertion and the matcher are one relation
\* (matchers.py 289-297).
SpelledEitherWay ==
  asking = "anything" /\ ~Given("comparators") /\ (leftOut = {} \/ ~Given("strict_types")) =>
    LET answers == {AssertionDiffers(Left, Right, leftOut), MatcherDiffers(Left, Right, leftOut)}
    IN  "raises" \in answers \/ Cardinality(answers) = 1
=============================================================================
