----------------------------- MODULE Membership -----------------------------
(***************************************************************************)
(* Who is in what: the searches every assertion about the items of a       *)
(* collection is built from.  Each is a walk that asks an element whether  *)
(* it is the item or equals it, or, where that is known to answer alike, a *)
(* look into a set or a Counter, by hash.                                  *)
(*                                                                         *)
(* An object has an identity; `==` is any symmetric relation of objects,   *)
(* so a NaN equals nothing, mock.ANY everything, and 1 is 1.0; a matcher   *)
(* equals what it matches.  A pair whose `==` raises is one that equals()  *)
(* answers false for.                                                      *)
(***************************************************************************)
EXTENDS Naturals, Sequences, FiniteSets

CONSTANTS
  Object,       \* values and items
  Equal,        \* pairs of different objects `==` answers true for
  Matcher,      \* objects that are matchers
  Accepts,      \* pairs of a matcher and an object it matches
  Safe,         \* objects of a type in _HASH_SAFE, whose hash and `==` agree
  Refuses,      \* objects that raise when they are hashed: Decimal("snan"), a list
  Bucket,       \* the hash of an object
  Char,         \* what a text is made of
  WalkUnder     \* _WALK_UNDER

Same(one, other) == one = other \/ <<one, other>> \in Equal
Hashes(objects)  == objects \cap Refuses = {}

ASSUME MembershipAssumption ==
  /\ Equal \subseteq Object \X Object /\ \A pair \in Equal : <<pair[2], pair[1]>> \in Equal
  /\ Matcher \subseteq Object /\ Accepts \subseteq Matcher \X Object
  /\ Safe \subseteq Object /\ Refuses \subseteq Object /\ WalkUnder \in Nat
  /\ \A one, other \in Safe \ Refuses : Same(one, other) => Bucket[one] = Bucket[other]
  /\ \A one, other, third \in Safe : Same(one, other) /\ Same(other, third) => Same(one, third)
  /\ \A matcher \in Matcher, other \in Object \ Matcher : Same(other, matcher) <=> <<matcher, other>> \in Accepts

Elements(seq) == {seq[i] : i \in DOMAIN seq}

\* [item for item in seq if ...]: the elements that are some of a set, in their order.
Those(seq, some) ==
  LET upTo[n \in 0 .. Len(seq)] ==
        IF n = 0 THEN <<>>
        ELSE IF seq[n] \in some THEN Append(upTo[n - 1], seq[n]) ELSE upTo[n - 1]
  IN  upTo[Len(seq)]

-----------------------------------------------------------------------------
(* When hashing answers *)

WorthHashing(container, probes) ==
  Len(container) * (IF probes = <<>> THEN 1 ELSE Len(probes)) >= WalkUnder

AllSafe(seq) == Elements(seq) \subseteq Safe

\* A slip: the types are not asked.
IndexedAlways(container, probes) ==
  /\ WorthHashing(container, probes)
  /\ Hashes(Elements(container) \cup Elements(probes))

\* _index(), _index_both() and occurrences(): safe and large, and nothing refuses to hash after all.
Indexed(container, probes) ==
  /\ WorthHashing(container, probes)
  /\ AllSafe(container) /\ AllSafe(probes)
  /\ Hashes(Elements(container) \cup Elements(probes))

\* has_duplicates(), repeated_counts(), and the two sides of _counted_difference(): safe, whatever the size.
Counted(objects) == objects \subseteq Safe /\ Hashes(objects)

\* `item in container`: the element is the item or equals it, and by hash only one of the same bucket is asked.
Held(item, container, hashed) ==
  \E i \in DOMAIN container :
    Same(container[i], item) /\ (hashed => Bucket[container[i]] = Bucket[item])

Member(item, container) == Held(item, container, FALSE)

\* How often: _count(), or a Counter.
Count(container, item, hashed) ==
  Cardinality({i \in DOMAIN container :
                 Same(container[i], item) /\ (hashed => Bucket[container[i]] = Bucket[item])})

-----------------------------------------------------------------------------
(* The searches *)

Without(seq, container, hashed) == Those(seq, {item \in Elements(seq) : ~Held(item, container, hashed)})

Matched(matcher, container) == \E i \in DOMAIN container : <<matcher, container[i]>> \in Accepts

\* missing_items() and _absent_from(): a matcher among the items is asked about each element.
MissingItems(container, items) ==
  LET hashed == Indexed(container, items)
  IN  Those(items, {item \in Elements(items) : IF item \in Matcher THEN ~Matched(item, container)
                                                ELSE ~Held(item, container, hashed)})

\* only_faults(): what is held and was not asked for, and what was asked for and is not held.
OnlyFaults(container, items) ==
  LET hashed == Indexed(items, container)
  IN  <<Without(container, items, hashed), Without(items, container, hashed)>>

NotContainedIn(seq, container) == Without(seq, container, Indexed(container, seq))

HasDuplicates(seq) ==
  \E i, j \in DOMAIN seq :
    i < j /\ Same(seq[i], seq[j]) /\ (Counted(Elements(seq)) => Bucket[seq[i]] = Bucket[seq[j]])

\* The first of the elements that occur more than once, each named once with how often it occurs.
RepeatedCounts(seq) ==
  LET hashed   == Counted(Elements(seq))
      total(i) == Count(seq, seq[i], hashed)
      named[n \in 0 .. Len(seq)] ==
        IF n = 0 THEN <<>>
        ELSE LET before == named[n - 1]
                 known  == \E k \in DOMAIN before : Same(before[k][1], seq[n])
             IN  IF total(n) > 1 /\ ~known THEN Append(before, <<seq[n], total(n)>>) ELSE before
  IN  named[Len(seq)]

-----------------------------------------------------------------------------
(* Runs and orders *)

\* How many of the items line up from one position on.
RunAt(seq, items, start) ==
  LET lines(k) == start + k - 1 <= Len(seq) /\ Same(seq[start + k - 1], items[k])
  IN  CHOOSE n \in 0 .. Len(items) :
        (\A k \in 1 .. n : lines(k)) /\ (n < Len(items) => ~lines(n + 1))

Largest(numbers) == CHOOSE n \in numbers \cup {0} : \A other \in numbers : other <= n

\* _sequence_break(): the longest run from where all the items still fit, and none when one is whole.
SequenceBreak(seq, items) == Largest({RunAt(seq, items, i) : i \in {s \in DOMAIN seq : s + Len(items) - 1 <= Len(seq)}})

\* _late_run(): and from where they no longer do.
LateRun(seq, items) == Largest({RunAt(seq, items, i) : i \in {s \in DOMAIN seq : s + Len(items) - 1 > Len(seq)}})

\* contains_in_order(): how many of the items follow one another, each taken at the first place left for it.
FollowedUpTo(seq, items) ==
  LET reached[n \in 0 .. Len(seq)] ==
        IF n = 0 THEN 0
        ELSE LET before == reached[n - 1]
             IN  IF before < Len(items) /\ Same(seq[n], items[before + 1]) THEN before + 1 ELSE before
  IN  reached[Len(seq)]

-----------------------------------------------------------------------------
(* Text: `in` looks for a part of it, and a walk reads its characters *)

PartAt(text, part, i) == i + Len(part) - 1 <= Len(text) /\ SubSeq(text, i, i + Len(part) - 1) = part
InText(part, text)    == \E i \in 1 .. Len(text) + 1 : PartAt(text, part, i)

\* str.find() of each in turn, from the end of the one before: the place after the last, or 0 if one is not there.
FoundInTurn(text, parts) ==
  LET end[n \in 0 .. Len(parts)] ==
        IF n = 0 THEN 1
        ELSE LET at == {i \in 1 .. Len(text) + 1 : end[n - 1] # 0 /\ i >= end[n - 1] /\ PartAt(text, parts[n], i)}
             IN  IF at = {} THEN 0 ELSE (CHOOSE i \in at : \A j \in at : i <= j) + Len(parts[n])
  IN  end[Len(parts)]

\* The index of a text is the set of its characters.
InCharacters(part, text) == \E i \in DOMAIN text : part = <<text[i]>>
=============================================================================
