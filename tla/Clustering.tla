----------------------------- MODULE Clustering -----------------------------
(***************************************************************************)
(* The grouping of a run's failures by the difference they share.          *)
(*                                                                         *)
(* A difference has a place when every step to it names one; the place is  *)
(* then its signature.  The others are known by the diagnostic line of the *)
(* failure, or by their two values where the diff holds values at all.     *)
(*                                                                         *)
(* A step is a pair of its kind and a value, a value of a step a pair of   *)
(* its type and its name, so that the keys 3 and "3" are two values with   *)
(* one name.  A compared value is the number its text sorts at.            *)
(***************************************************************************)
EXTENDS Naturals, Sequences, FiniteSets, SequencesExt

CONSTANTS
  ExampleLimit,   \* _EXAMPLE_LIMIT: the values a cluster keeps per side before it says "and more"
  MaxClusters,    \* _MAX_CLUSTERS: the clusters a summary prints
  Absent          \* what stands for a side that held nothing

ASSUME LimitsAssumption == ExampleLimit \in Nat /\ MaxClusters \in Nat \ {0}

Coordinate  == {"key", "index", "attr", "line"}
Positional  == {"index", "line"}
AnyPosition == <<"any", "*">>
NoLabel     == "no label"

\* The kinds of diff whose two fields hold the values compared.
HoldsValues == {"scalar", "string"}

-----------------------------------------------------------------------------
(* Signatures and observations *)

\* The canonical location of an entry, empty for one that has none.
CanonicalSteps(entry) ==
  LET steps == SelectSeq(entry.steps, LAMBDA step : step[1] # "json")
  IN  IF \E i \in DOMAIN steps : steps[i][1] \notin Coordinate THEN <<>>
      ELSE [i \in DOMAIN steps |->
              IF steps[i][1] \in Positional THEN <<steps[i][1], AnyPosition>> ELSE steps[i]]

\* The readable form of a location drops what type a key has.
RenderPath(steps) == [i \in DOMAIN steps |-> steps[i][2][2]]

SideOf(entry, side) == IF entry.absent = side THEN Absent ELSE entry[side]

NoSignature == [located |-> FALSE, where |-> <<>>, steps |-> <<>>, label |-> NoLabel, values |-> <<>>]

Signature(diff, entry) ==
  LET steps == CanonicalSteps(entry)
      named == [NoSignature EXCEPT !.where = <<diff.kind>>]
  IN  IF steps # <<>> THEN [NoSignature EXCEPT !.located = TRUE, !.where = RenderPath(steps), !.steps = steps]
      ELSE IF diff.label # NoLabel THEN [named EXCEPT !.label = diff.label]
      ELSE IF diff.kind \notin HoldsValues THEN NoSignature
      ELSE [named EXCEPT !.values = <<SideOf(entry, "actual"), SideOf(entry, "expected")>>]

\* Whether a signature that came over the wire is one signature() could have made.
IsWellFormed(key) ==
  IF key.located
  THEN /\ key.steps # <<>> /\ \A i \in DOMAIN key.steps : key.steps[i][1] \in Coordinate
       /\ key.label = NoLabel /\ key.values = <<>> /\ key.where = RenderPath(key.steps)
  ELSE /\ key.steps = <<>>
       /\ IF key.label # NoLabel THEN key.values = <<>>
          ELSE Len(key.values) = 2 /\ key.where[1] \in HoldsValues

\* Every signature of one failure, once, with the values it showed first.
ObservationsOf(diff) ==
  LET found[n \in 0 .. Len(diff.entries)] ==
        IF n = 0 THEN <<>>
        ELSE LET before == found[n - 1]
                 entry  == diff.entries[n]
                 key    == Signature(diff, entry)
             IN  IF key = NoSignature \/ \E i \in DOMAIN before : before[i].signature = key THEN before
                 ELSE Append(before, [signature |-> key, actual |-> SideOf(entry, "actual"),
                                      expected |-> SideOf(entry, "expected")])
  IN  found[Len(diff.entries)]

-----------------------------------------------------------------------------
(* Clusters *)

\* One value more of a side: one past the limit is kept, then only the smallest still replace another.
Keep(seen, value) ==
  IF Cardinality(seen) <= ExampleLimit THEN seen \cup {value}
  ELSE IF value < Min(seen) THEN (seen \ {Max(seen)}) \cup {value} ELSE seen

\* What is kept of one side of a signature after one more failure.
Fed(seen, found, key, side) ==
  LET fed[n \in 0 .. Len(found)] ==
        IF n = 0 THEN seen
        ELSE IF found[n].signature = key THEN Keep(fed[n - 1], found[n][side]) ELSE fed[n - 1]
  IN  fed[Len(found)]

Kept(recorded, key, side) ==
  LET kept[n \in 0 .. Len(recorded)] ==
        IF n = 0 THEN {} ELSE Fed(kept[n - 1], recorded[n].found, key, side)
  IN  kept[Len(recorded)]

\* The signatures with the most tests first, and those with as many in an order of their own, of no matter
\* as long as it is one.
LargestFirst(keys, nodes) ==
  LET listed[n \in 0 .. Cardinality(keys)] ==
        IF n = 0 THEN <<>>
        ELSE LET before == listed[n - 1]
                 left   == keys \ ToSet(before)
             IN  Append(before, CHOOSE key \in left :
                                  \A other \in left : Cardinality(nodes[key]) >= Cardinality(nodes[other]))
  IN  listed[Cardinality(keys)]

SignaturesIn(found) == {found[i].signature : i \in DOMAIN found}

\* clusters(): recorded is a sequence of a node id and what the test's failure showed.
Clusters(recorded, minimum) ==
  LET nodes  == [key \in UNION {SignaturesIn(recorded[i].found) : i \in DOMAIN recorded} |->
                   {recorded[i].node : i \in {j \in DOMAIN recorded : key \in SignaturesIn(recorded[j].found)}}]
      sorted == LargestFirst({key \in DOMAIN nodes : Cardinality(nodes[key]) >= minimum}, nodes)
  IN  [i \in DOMAIN sorted |->
         [signature |-> sorted[i], nodes |-> nodes[sorted[i]],
          actuals |-> Kept(recorded, sorted[i], "actual"), expecteds |-> Kept(recorded, sorted[i], "expected")]]

\* One side in words: the smallest value as the example, how many others, and whether that is a floor.
Side(values) ==
  [example |-> Min(values), capped |-> Cardinality(values) > ExampleLimit,
   others  |-> IF Cardinality(values) > ExampleLimit THEN ExampleLimit ELSE Cardinality(values) - 1]

\* The headings of the clusters printed: the readable place, spelled out where two read alike,
\* and numbered where they still do.
Headings(found) ==
  LET plain(i)   == found[i].signature.where
      clashes    == {i \in DOMAIN found : \E j \in DOMAIN found \ {i} : plain(j) = plain(i)}
      spelled    == [i \in DOMAIN found |->
                       <<plain(i), IF i \in clashes THEN found[i].signature.steps ELSE <<>>>>]
  IN  [i \in DOMAIN found |->
         <<spelled[i], IF \A j \in DOMAIN found \ {i} : spelled[j] # spelled[i] THEN 0
                       ELSE Cardinality({j \in 1 .. i : spelled[j] = spelled[i]})>>]

Silence == [silent |-> TRUE]

\* render(): what the summary claims, or silence where there is nothing to say.
Rendered(found, total, lost, unreadable, collectErrors) ==
  LET shown == SubSeq(found, 1, IF Len(found) < MaxClusters THEN Len(found) ELSE MaxClusters)
  IN  IF found = <<>> THEN Silence
      ELSE [silent |-> FALSE, total |-> total, lost |-> lost, unreadable |-> unreadable,
            collectErrors |-> collectErrors, omitted |-> Len(found) - Len(shown),
            headings |-> Headings(shown),
            clusters |-> [i \in DOMAIN shown |->
                            [signature |-> shown[i].signature, size |-> Cardinality(shown[i].nodes),
                             actual |-> Side(shown[i].actuals), expected |-> Side(shown[i].expecteds)]],
            outside |-> total - Cardinality(UNION {found[i].nodes : i \in DOMAIN found})]

=============================================================================
