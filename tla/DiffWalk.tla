------------------------------ MODULE DiffWalk ------------------------------
(***************************************************************************)
(* The walk that takes two values apart side by side: it writes the diff   *)
(* of a failed comparison, and under a configuration it is the comparison. *)
(* It goes through the children of a pair on a stack of its own, and a     *)
(* pair it meets again inside itself adds nothing.                         *)
(***************************************************************************)
EXTENDS ObjectGraphs
LOCAL INSTANCE SequencesExt

VARIABLES
  asking,   \* what asked for the walk, or "nothing" yet
  roots,    \* the two values
  leftOut,  \* keys of the roots that are left out
  stack,    \* the pairs it is inside: the children still to walk, what is owed, the entries there were before
  entries,  \* what it found: where, and the two sides
  met,      \* every pair it descended to, in turn; history
  answered      \* it has answered

walkVars == <<asking, roots, leftOut, stack, entries, met, answered>>

DiffEntry(at, a, b, absent) == [at |-> at, left |-> a, right |-> b, absent |-> absent]
Meeting(at, a, b, why, again) == [at |-> at, left |-> a, right |-> b, why |-> why, again |-> again]

\* A child is visited by its index or key on each side, 0 where that side has none.
Side(v, key) == IF key \in DOMAIN parts[v] THEN key ELSE 0

Positional(a, b) ==
  LET keys == SetToSortSeq(DOMAIN parts[a] \cup DOMAIN parts[b], <)
  IN  [n \in DOMAIN keys |-> <<Side(a, keys[n]), Side(b, keys[n])>>]

-----------------------------------------------------------------------------
(* Alignment of two sequences of different lengths *)

\* _graphs_differ() walks the pairs == has no answer for, whatever the options.
HoldsEqual(a, b) == WalkedEqual(a, b) = "yes" \/ (WalkedEqual(a, b) = "none" /\ <<a, b>> \in alike)

PositionalDifferences(a, b) ==
  Cardinality({n \in DOMAIN parts[a] \cup DOMAIN parts[b] :
                 ~(n \in DOMAIN parts[a] /\ n \in DOMAIN parts[b] /\ HoldsEqual(parts[a][n], parts[b][n]))})

\* With two parts at most, the one alignment shorter than the positions drops the first item of the longer side.
Shifted(a, b) ==
  LET dropped == IF Len(parts[a]) > Len(parts[b]) THEN <<1, 0>> ELSE <<0, 1>>
      kept    == IF Len(parts[a]) > Len(parts[b]) THEN <<2, 1>> ELSE <<1, 2>>
  IN  IF Plain THEN <<dropped>> ELSE <<dropped, kept>>

AlignmentIsShorter(a, b) ==
  /\ IsSequence(a) /\ {Len(parts[a]), Len(parts[b])} = {1, 2}
  /\ PositionalDifferences(a, b) = 2
  /\ HoldsEqual(Last(parts[a]), Last(parts[b]))

\* difflib finds equal atoms by their hashes; anything else by what it prints as, which two equal values may not share.
Printed(a, b) == ~(Range(parts[a]) \cup Range(parts[b]) \subseteq Atom)

Children(a, b, aligns) ==
  LET aligned == aligns /\ AlignmentIsShorter(a, b)
  IN  (IF aligned THEN {Shifted(a, b)} ELSE {}) \cup (IF ~aligned \/ Printed(a, b) THEN {Positional(a, b)} ELSE {})

-----------------------------------------------------------------------------

Frame(at, a, b, pair, todo, owed) ==
  [at |-> at, left |-> a, right |-> b, pair |-> pair, todo |-> todo, owed |-> owed, found |-> Len(entries)]

OpenPairs == {stack[n].pair : n \in DOMAIN stack}

Innermost == Last(stack)

\* The top frame with one child less, and what is put on it.
Advanced(frames) == Append(Front(frames), [Last(frames) EXCEPT !.todo = Tail(@)])

\* A slip: the way back excuses a pair whatever == asked of the two themselves.
ExcusedAlike(pair) ==
  [n \in DOMAIN stack |->
     IF \A outer \in n .. Len(stack) : stack[outer].pair # pair THEN [stack[n] EXCEPT !.owed = FALSE] ELSE stack[n]]

\* What is owed by the frames inside a pair that one of them has led back to.
Excused(pair) ==
  [n \in DOMAIN stack |->
     IF /\ \A outer \in n .. Len(stack) : stack[outer].pair # pair
        /\ ~DiffersOfItself(stack[n].left, stack[n].right)
     THEN [stack[n] EXCEPT !.owed = FALSE]
     ELSE stack[n]]

MeetAgain(at, a, b, why) ==
  /\ <<a, b>> \in OpenPairs
  /\ stack' = Advanced(IF Plain THEN Excused(<<a, b>>) ELSE stack)
  /\ met' = Append(met, Meeting(at, a, b, why, TRUE))
  /\ UNCHANGED entries

NotTakenApart(at, a, b, why) ==
  /\ <<a, b>> \notin OpenPairs /\ ~TakenApart(a, b)
  /\ stack' = Advanced(stack)
  /\ entries' = IF why = "strict" THEN entries ELSE Append(entries, DiffEntry(at, a, b, FALSE))
  /\ met' = Append(met, Meeting(at, a, b, why, FALSE))

Opened(at, a, b, why) ==
  /\ <<a, b>> \notin OpenPairs /\ TakenApart(a, b)
  /\ \E todo \in Children(a, b, asking # "graphs differ") :
       stack' = Append(Advanced(stack), Frame(at, a, b, <<a, b>>, todo, why = "recurse" /\ Plain))
  /\ met' = Append(met, Meeting(at, a, b, why, FALSE))
  /\ UNCHANGED entries

Descend(at, a, b, why) == MeetAgain(at, a, b, why) \/ NotTakenApart(at, a, b, why) \/ Opened(at, a, b, why)

Note(entry) ==
  /\ stack' = Advanced(stack)
  /\ entries' = Append(entries, entry)
  /\ UNCHANGED met

\* The next child of the pair on top.
Visit ==
  /\ stack # <<>> /\ Innermost.todo # <<>>
  /\ LET visit == Head(Innermost.todo)
         at    == Append(Innermost.at, visit)
     IN  IF 0 \in {visit[1], visit[2]} THEN Note(DiffEntry(at, Innermost.left, Innermost.right, TRUE))
         ELSE LET actual   == parts[Innermost.left][visit[1]]
                  expected == parts[Innermost.right][visit[2]]
                  decision == NodeDecision(actual, expected, FALSE)
              IN  CASE decision = "leaf"  -> Note(DiffEntry(at, actual, expected, FALSE))
                    [] decision = "equal" -> stack' = Advanced(stack) /\ UNCHANGED <<entries, met>>
                    [] OTHER -> Descend(at, actual, expected, decision)
  /\ UNCHANGED <<graphVars, asking, roots, leftOut, answered>>

\* The children of the pair on top are walked: where they account for nothing, the pair itself is the entry.
Leave ==
  /\ stack # <<>> /\ Innermost.todo = <<>>
  /\ entries' = IF Innermost.owed /\ Len(entries) = Innermost.found
                THEN Append(entries, DiffEntry(Innermost.at, Innermost.left, Innermost.right, FALSE)) ELSE entries
  /\ stack' = Front(stack)
  /\ answered' = (Len(stack) = 1)
  /\ UNCHANGED <<graphVars, asking, roots, leftOut, met>>

-----------------------------------------------------------------------------
(* What asks for a walk *)

RunWalk(a, b, pair, todo, owed) ==
  /\ stack' = <<[Frame(<<>>, a, b, pair, todo, owed) EXCEPT !.found = 0]>>
  /\ entries' = <<>> /\ met' = <<>> /\ answered' = FALSE

AtOnce(found) == stack' = <<>> /\ entries' = found /\ met' = <<>> /\ answered' = TRUE

\* _build_equality_diff(): of a pair == held apart, or as the comparison under a configuration.
BuildEqualityDiff(a, b) ==
  LET decision == IF Plain THEN "recurse" ELSE NodeDecision(a, b, TRUE)
  IN  IF decision \in {"equal", "leaf"} \/ ~(IsSequence(a) /\ IsSequence(b))
      THEN AtOnce(IF decision \in {"equal", "strict"} THEN <<>> ELSE <<DiffEntry(<<>>, a, b, FALSE)>>)
      ELSE \E todo \in Children(a, b, TRUE) : RunWalk(a, b, <<a, b>>, todo, Plain)

\* A failed comparison of two mappings: of the mappings, or of copies with keys left out, which lead back to neither.
\* Where the walk finds nothing, _dict_err() makes the pair itself the entry.
SubDiffEntries(a, b, keys) ==
  LET kept == SelectSeq(Positional(a, b), LAMBDA visit : {visit[1], visit[2]} \cap keys = {})
  IN  RunWalk(a, b, IF keys = {} THEN <<a, b>> ELSE <<>>, kept, TRUE)

\* _graphs_differ(): of a pair == has no answer for, each sequence by its positions.
GraphsDiffer(a, b) == RunWalk(a, b, <<a, b>>, Positional(a, b), FALSE)
=============================================================================
