---------------------------- MODULE Containment ----------------------------
(***************************************************************************)
(* The assertions about the items of a collection, as they are asked of a  *)
(* list, and those of them that a text answers too: each with its verdict  *)
(* and what its failure names.                                             *)
(*                                                                         *)
(* Those that hold in any order pair items with values, one at a time, and *)
(* so does satisfies_exactly_in_any_order(), items with matchers: the rest *)
(* is answered in one step.                                                *)
(***************************************************************************)
EXTENDS Membership, Pairing

CONSTANTS
  MaxValues, MaxItems, MaxText   \* bounds: values of the collection, items asked for, characters of a text

ASSUME ContainmentAssumption ==
  /\ 1 .. MaxValues \subseteq Option /\ 1 .. MaxItems \subseteq Entry
  /\ Entry \subseteq Nat /\ Option \subseteq Nat /\ IsFiniteSet(Option)
  /\ MaxValues \in Nat /\ MaxItems \in Nat /\ MaxText \in Nat

VARIABLES
  asked,    \* the assertion, or "nothing" yet
  values,   \* the collection
  items,    \* what it is asked for
  pending,  \* the answer waits for a pairing
  said      \* the answer: the verdict, and what the failure names

containmentVars == <<asked, values, items, pending, said, pairingVars>>

Answer(holds, named, also) == [holds |-> holds, named |-> named, also |-> also]

SeqsUpTo(n, set) == UNION {[1 .. k -> set] : k \in 0 .. n}

Collections == SeqsUpTo(MaxValues, Object \ Matcher)
Asked       == SeqsUpTo(MaxItems, Object) \ {<<>>}
Texts       == SeqsUpTo(MaxText, Char)
Parts       == SeqsUpTo(2, SeqsUpTo(2, Char)) \ {<<>>}

ContainmentInit ==
  /\ asked = "nothing" /\ values = <<>> /\ items = <<>>
  /\ pending = FALSE /\ said = Answer(FALSE, <<>>, <<>>)
  /\ options = [entry \in Entry |-> {}] /\ fresh = <<>> /\ waiting = <<>> /\ paired = <<>>
  /\ NoChain

NothingAsked == asked = "nothing"

Ask(name, container, wanted) ==
  /\ asked' = name /\ values' = container /\ items' = wanted

AskAtOnce(name, container, wanted, answer) ==
  /\ Ask(name, container, wanted)
  /\ said' = answer
  /\ UNCHANGED <<pending, pairingVars>>

-----------------------------------------------------------------------------
(* Answered in one step *)

Contains(container, wanted) ==
  LET only    == wanted[1]
      there   == IF only \in Matcher THEN Matched(only, container) ELSE Member(only, container)
      missing == IF Len(wanted) > 1 THEN MissingItems(container, wanted) ELSE IF there THEN <<>> ELSE wanted
  IN  Answer(missing = <<>>, missing, <<>>)

DoesNotContain(container, wanted) ==
  LET probes  == Those(wanted, Object \ Matcher)
      hashed  == Len(probes) > 1 /\ Indexed(container, probes)
      present == Those(wanted, {item \in Elements(wanted) : IF item \in Matcher THEN Matched(item, container)
                                                             ELSE Held(item, container, hashed)})
  IN  Answer(present = <<>>, present, <<>>)

ContainsOnly(container, wanted) ==
  LET faults == OnlyFaults(container, wanted)
  IN  Answer(faults = <<<<>>, <<>>>>, faults[1], faults[2])

ContainsSequence(container, wanted) ==
  LET break == SequenceBreak(container, wanted)
      run   == Largest({break, LateRun(container, wanted)})
  IN  IF break = Len(wanted) THEN Answer(TRUE, <<>>, <<>>) ELSE Answer(FALSE, SubSeq(wanted, 1, run), <<>>)

DoesNotContainDuplicates(container) ==
  IF HasDuplicates(container) THEN Answer(FALSE, RepeatedCounts(container), <<>>) ELSE Answer(TRUE, <<>>, <<>>)

ContainsInOrder(container, wanted) ==
  LET upTo == FollowedUpTo(container, wanted)
  IN  Answer(upTo = Len(wanted), SubSeq(wanted, 1, upTo), <<>>)

ContainsOnlyOnce(container, wanted) ==
  LET hashed   == Indexed(container, wanted)
      missing  == Those(wanted, {item \in Elements(wanted) : Count(container, item, hashed) = 0})
      repeated == Those(wanted, {item \in Elements(wanted) : Count(container, item, hashed) > 1})
  IN  Answer(missing = <<>> /\ repeated = <<>>, missing, repeated)

\* is_subset_of(), is_in() and is_not_in(): the collection is what is asked about, the items are what may hold it.
IsSubsetOf(container, superset) ==
  LET missing == NotContainedIn(container, superset)
  IN  Answer(missing = <<>>, missing, <<>>)

IsIn(value, wanted) == Answer(Member(value, wanted), <<>>, <<>>)

Questions(container, wanted) ==
  \/ AskAtOnce("contains", container, wanted, Contains(container, wanted))
  \/ AskAtOnce("does_not_contain", container, wanted, DoesNotContain(container, wanted))
  \/ AskAtOnce("contains_only", container, wanted, ContainsOnly(container, wanted))
  \/ AskAtOnce("contains_sequence", container, wanted, ContainsSequence(container, wanted))
  \/ AskAtOnce("contains_in_order", container, wanted, ContainsInOrder(container, wanted))
  \/ AskAtOnce("contains_only_once", container, wanted, ContainsOnlyOnce(container, wanted))
  \/ AskAtOnce("is_subset_of", container, wanted, IsSubsetOf(container, wanted))

AskItems == NothingAsked /\ \E container \in Collections, wanted \in Asked : Questions(container, wanted)

AskDuplicates ==
  NothingAsked /\ \E container \in Collections :
    AskAtOnce("does_not_contain_duplicates", container, <<>>, DoesNotContainDuplicates(container))

AskIsIn ==
  NothingAsked /\ \E value \in Object \ Matcher, wanted \in Asked :
    AskAtOnce("is_in", <<value>>, wanted, IsIn(value, wanted))

-----------------------------------------------------------------------------
(* Asked of a text *)

NotInText(parts, text) == Those(parts, {part \in Elements(parts) : ~InText(part, text)})

TextContains(text, parts) ==
  LET missing == NotInText(parts, text) IN Answer(missing = <<>>, missing, <<>>)

\* Several parts are looked for in an index of a long text, which is a set of its characters.
TextDoesNotContain(text, parts) ==
  LET hashed  == Len(parts) > 1 /\ WorthHashing(text, parts)
      present == Those(parts, {part \in Elements(parts) : IF hashed THEN InCharacters(part, text) ELSE InText(part, text)})
  IN  Answer(present = <<>>, present, <<>>)

TextContainsOnly(text, parts) ==
  LET letters == [i \in DOMAIN text |-> <<text[i]>>]
      extra   == Those(letters, Elements(letters) \ Elements(parts))
      missing == NotInText(parts, text)
  IN  Answer(extra = <<>> /\ missing = <<>>, extra, missing)

TextContainsSequence(text, parts) == Answer(FoundInTurn(text, parts) # 0, <<>>, <<>>)

TextQuestions(text, parts) ==
  \/ AskAtOnce("text_contains", text, parts, TextContains(text, parts))
  \/ AskAtOnce("text_does_not_contain", text, parts, TextDoesNotContain(text, parts))
  \/ AskAtOnce("text_contains_only", text, parts, TextContainsOnly(text, parts))
  \/ AskAtOnce("text_contains_sequence", text, parts, TextContainsSequence(text, parts))

AskText == NothingAsked /\ \E text \in Texts, parts \in Parts : TextQuestions(text, parts)

-----------------------------------------------------------------------------
(* Answered by a pairing *)

\* Counter(values) - Counter(items), as a list: the first of each kind, as often as there are too many of it.
CountedSurplus(seq, other) ==
  LET times(n) == Count(seq, seq[n], TRUE) - Count(other, seq[n], TRUE)
      surplus[n \in 0 .. Len(seq)] ==
        IF n = 0 THEN <<>>
        ELSE IF Held(seq[n], SubSeq(seq, 1, n - 1), TRUE) THEN surplus[n - 1]
        ELSE surplus[n - 1] \o [k \in 1 .. times(n) |-> seq[n]]
  IN  surplus[Len(seq)]

\* _walked_difference(): each value takes the first item left that it is, or equals.
GreedyPairs(container, wanted) ==
  LET pairs[n \in 0 .. Len(container)] ==
        IF n = 0 THEN <<>>
        ELSE LET before == pairs[n - 1]
                 free   == {e \in DOMAIN wanted \ Entries(before) : Same(wanted[e], container[n])}
             IN  IF free = {} THEN before
                 ELSE With(before, n, CHOOSE e \in free : \A other \in free : e <= other)
  IN  pairs[Len(container)]

\* What is left over on either side, which contains_exactly() asks for only once the lists differ.
LeftOver(extra, missing) ==
  said' = Answer(asked' # "contains_exactly" /\ extra = <<>> /\ missing = <<>>, extra, missing)

InAnyOrder(container, wanted) ==
  IF Counted(Elements(container) \cup Elements(wanted))
  THEN /\ LeftOver(CountedSurplus(container, wanted), CountedSurplus(wanted, container))
       /\ UNCHANGED <<pending, pairingVars>>
  ELSE LET pairs == GreedyPairs(container, wanted)
       IN  /\ options' = [e \in Entry |-> IF e \notin DOMAIN wanted THEN {}
                                          ELSE {i \in DOMAIN container : Same(wanted[e], container[i])}]
           /\ paired' = pairs
           /\ waiting' = Those([e \in DOMAIN wanted |-> e], DOMAIN wanted \ Entries(pairs))
           /\ pending' = TRUE
           /\ UNCHANGED <<fresh, chain, said>>

AskInAnyOrder ==
  NothingAsked /\ \E container \in Collections, wanted \in Asked :
    /\ Ask("contains_exactly_in_any_order", container, wanted)
    /\ InAnyOrder(container, wanted)

AlikeInOrder(container, wanted) ==
  Len(container) = Len(wanted) /\ \A i \in DOMAIN wanted : Same(container[i], wanted[i])

\* contains_exactly() compares the lists, and says what differs as the other does: nothing, where only the order does.
AskExactly ==
  NothingAsked /\ \E container \in Collections, wanted \in Asked :
    /\ Ask("contains_exactly", container, wanted)
    /\ IF AlikeInOrder(container, wanted)
       THEN said' = Answer(TRUE, <<>>, <<>>) /\ UNCHANGED <<pending, pairingVars>>
       ELSE InAnyOrder(container, wanted)

\* What is in no pair is left over on its side.
AnswerPairing ==
  LET Untaken(seq, taken_) == Those([i \in DOMAIN seq |-> i], DOMAIN seq \ taken_)
      extra   == Untaken(values, DOMAIN paired)
      missing == Untaken(items, Entries(paired))
  IN  /\ asked # "satisfies_exactly_in_any_order" /\ pending /\ Paired
      /\ pending' = FALSE
      /\ UNCHANGED <<asked, values, items, pairingVars>>
      /\ LeftOver([k \in DOMAIN extra |-> values[extra[k]]], [k \in DOMAIN missing |-> items[missing[k]]])

\* satisfies_exactly_in_any_order(): as many matchers as items, each item with the matchers it satisfies.
AskSatisfied ==
  NothingAsked /\ \E n \in (1 .. MaxItems) \cap (1 .. MaxValues) : \E satisfied \in [1 .. n -> SUBSET (1 .. n)] :
    /\ Ask("satisfies_exactly_in_any_order", <<>>, [i \in 1 .. n |-> i])
    /\ options' = [e \in Entry |-> IF e \in 1 .. n THEN satisfied[e] ELSE {}]
    /\ fresh' = [i \in 1 .. n |-> i]
    /\ pending' = TRUE
    /\ UNCHANGED <<said, waiting, paired, chain>>

AnswerSatisfied ==
  /\ asked = "satisfies_exactly_in_any_order" /\ pending /\ Paired
  /\ pending' = FALSE
  /\ LET unpaired == Those(items, DOMAIN items \ Entries(paired))
     IN  said' = Answer(unpaired = <<>>, unpaired, <<>>)
  /\ UNCHANGED <<asked, values, items, pairingVars>>

Pair == pending /\ PairingStep /\ UNCHANGED <<asked, values, items, pending, said>>

ContainmentStep ==
  \/ AskItems \/ AskDuplicates \/ AskIsIn \/ AskText
  \/ AskInAnyOrder \/ AskExactly \/ AskSatisfied
  \/ Pair \/ AnswerPairing \/ AnswerSatisfied

ContainmentSpec == ContainmentInit /\ [][ContainmentStep]_containmentVars

ContainmentDone == asked # "nothing" /\ ~pending

-----------------------------------------------------------------------------
(* What the answers have to be, by definitions that do not search *)

Times(item, seq) == Cardinality({i \in DOMAIN seq : Same(seq[i], item)})
Absent(item, seq) == IF item \in Matcher THEN ~Matched(item, seq) ELSE Times(item, seq) = 0

AbsentFrom(seq, other) == {item \in Elements(seq) : Absent(item, other)}

\* The items line up side by side somewhere, or one after another with others in between.
LinesUp(seq, run) == \E i \in 0 .. Len(seq) - Len(run) : \A k \in DOMAIN run : Same(seq[i + k], run[k])
Embeds(seq, run) ==
  \E place \in [DOMAIN run -> DOMAIN seq] :
    \A k \in DOMAIN run : Same(seq[place[k]], run[k]) /\ (k > 1 => place[k - 1] < place[k])

\* The parts of a text are in it in this order and do not overlap.
InTurn(text, parts) ==
  \E place \in [DOMAIN parts -> 1 .. Len(text) + 1] :
    \A k \in DOMAIN parts :
      PartAt(text, parts[k], place[k]) /\ (k > 1 => place[k - 1] + Len(parts[k - 1]) <= place[k])

Accepted(container, wanted) == [e \in DOMAIN wanted |-> {i \in DOMAIN container : Same(container[i], wanted[e])}]
Most(accepted) == Largest({Cardinality(DOMAIN pairs) : pairs \in PairingsOf(accepted)})
MostPairs == Most(Accepted(values, items))

Names(wrong) == said.holds = (wrong = <<>>) /\ said.named = wrong

LongestThat(Fits(_, _)) ==
  \E n \in 0 .. Len(items) :
    /\ said.holds = (n = Len(items)) /\ (said.holds \/ said.named = SubSeq(items, 1, n))
    /\ Fits(values, SubSeq(items, 1, n))
    /\ n < Len(items) => ~Fits(values, SubSeq(items, 1, n + 1))

\* Nothing is left over on one side that another pairing would have a place for, and nothing is left out.
FewestLeftOver ==
  Len(said.named) = Len(values) - MostPairs /\ Len(said.also) = Len(items) - MostPairs

EveryRepeatNamed ==
  LET named == Elements(said.named)
  IN  /\ said.holds = (\A i, j \in DOMAIN values : Same(values[i], values[j]) => i = j)
      /\ \A pair \in named : pair[2] > 1 /\ pair[2] = Times(pair[1], values)
      /\ \A value \in Elements(values) : Times(value, values) > 1 => \E pair \in named : Same(pair[1], value)

\* Whatever a value and an item are, however many there are and so however they are searched for, every assertion
\* about the items of a collection holds exactly when it says so, and its failure names exactly what is wrong.
\* An index, a Counter and a walk answer alike; no item counts twice; no run, order or pairing is overlooked
\* (_membership.py, contains.py).  The parts a long text must not contain are another matter: TextIsSearched.
ContainmentIsExact ==
  ContainmentDone =>
    /\ asked = "contains" => Names(Those(items, AbsentFrom(items, values)))
    /\ asked = "does_not_contain" => Names(Those(items, Elements(items) \ AbsentFrom(items, values)))
    /\ asked = "is_subset_of" => Names(Those(values, AbsentFrom(values, items)))
    /\ asked = "is_in" => said.holds = ~Absent(values[1], items)
    /\ asked = "contains_only" =>
         /\ said.named = Those(values, AbsentFrom(values, items))
         /\ said.also = Those(items, AbsentFrom(items, values))
         /\ said.holds = (said.named = <<>> /\ said.also = <<>>)
    /\ asked = "contains_only_once" =>
         /\ said.named = Those(items, {item \in Elements(items) : Times(item, values) = 0})
         /\ said.also = Those(items, {item \in Elements(items) : Times(item, values) > 1})
         /\ said.holds = \A item \in Elements(items) : Times(item, values) = 1
    /\ asked = "contains_sequence" => LongestThat(LinesUp)
    /\ asked = "contains_in_order" => LongestThat(Embeds)
    /\ asked = "contains_exactly_in_any_order" =>
         FewestLeftOver /\ said.holds = (MostPairs = Len(values) /\ MostPairs = Len(items))
    /\ asked = "contains_exactly" =>
         IF said.holds THEN AlikeInOrder(values, items)
         ELSE FewestLeftOver /\ (said.named = <<>> /\ said.also = <<>> => ~AlikeInOrder(values, items))
    /\ asked = "does_not_contain_duplicates" => EveryRepeatNamed
    /\ asked = "satisfies_exactly_in_any_order" => Len(said.named) = Len(items) - Most(options)
    /\ asked = "text_contains" => said.holds = \A part \in Elements(items) : InText(part, values)
    /\ asked = "text_contains_only" =>
         said.holds = /\ \A part \in Elements(items) : InText(part, values)
                      /\ \A i \in DOMAIN values : <<values[i]>> \in Elements(items)
    /\ asked = "text_contains_sequence" => said.holds = InTurn(values, items)
    /\ asked = "text_does_not_contain" /\ (\A part \in Elements(items) : Len(part) = 1) =>
         said.holds = \A part \in Elements(items) : ~InText(part, values)

\* does_not_contain() "checks if the collection excludes the given item or items using ``in`` operator"
\* (contains.py:521): of a text, that none of the items is a part of it, however long the text is.
TextIsSearched ==
  ContainmentDone /\ asked = "text_does_not_contain" =>
    said.holds = \A part \in Elements(items) : ~InText(part, values)
=============================================================================
