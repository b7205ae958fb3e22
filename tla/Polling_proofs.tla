--------------------------- MODULE Polling_proofs ---------------------------
(***************************************************************************)
(* For any budget, probe and limits: a timeout comes after the whole       *)
(* budget, the samples are the window of the runs of polls that they claim *)
(* to be, and what the summary says is so of every poll.  For any number   *)
(* of chains and of attempts: a chain that is dropped without having run   *)
(* is heard of.                                                            *)
(*                                                                         *)
(* The samples and the counters are related to the whole run of polls one  *)
(* poll at a time: a poll opens a run or lengthens the last one.           *)
(***************************************************************************)
EXTENDS Polling, PollChain, FiniteSetTheorems, SequenceTheorems, TLAPS

-----------------------------------------------------------------------------
(* Sets of positions, counted from the first *)

Rank(S, i) == Cardinality({j \in S : j <= i})

Nth(S, m) == CHOOSE i \in S : Rank(S, i) = m

\* Each rank up to the size of the set is that of a position in it.
Enumerated(S) ==
  /\ IsFiniteSet(S) /\ S \subseteq Nat
  /\ \A m \in 1 .. Cardinality(S) : \E i \in S : Rank(S, i) = m

LEMMA RankRises ==
  ASSUME NEW S, IsFiniteSet(S), S \subseteq Nat, NEW i \in S
  PROVE  /\ Rank(S, i) \in 1 .. Cardinality(S) /\ Cardinality(S) \in Nat
         /\ \A j \in S : i < j => Rank(S, i) < Rank(S, j)
  <1> DEFINE T(k) == {j \in S : j <= k}
  <1>1. Cardinality(S) \in Nat
    BY FS_CardinalityType
  <1>2. IsFiniteSet(T(i)) /\ Cardinality(T(i)) <= Cardinality(S)
    BY FS_Subset
  <1>3. Cardinality(T(i)) \in Nat /\ (Cardinality(T(i)) = 0 <=> T(i) = {})
    <2> HIDE DEF T
    <2> QED
      BY <1>2, FS_CardinalityType, FS_EmptySet
  <1>4. i \in T(i)
    OBVIOUS
  <1>5. Cardinality(T(i)) \in 1 .. Cardinality(S)
    <2> HIDE DEF T
    <2> QED
      BY <1>1, <1>2, <1>3, <1>4
  <1>6. ASSUME NEW j \in S, i < j PROVE Cardinality(T(i)) < Cardinality(T(j))
    <2>1. IsFiniteSet(T(j))
      BY FS_Subset
    <2>0. i \in Nat /\ j \in Nat /\ ~ j <= i /\ \A k \in S : k \in Nat /\ (k <= i => k <= j)
      <3>1. i \in Nat /\ j \in Nat /\ \A k \in S : k \in Nat
        OBVIOUS
      <3> QED
        BY <1>6, <3>1
    <2>5. \A k \in T(i) : k \in T(j)
      BY <2>0
    <2>6. j \in T(j) /\ j \notin T(i)
      BY <2>0
    <2>2. T(i) \subseteq T(j) /\ j \in T(j) /\ j \notin T(i)
      BY <2>5, <2>6
    <2> HIDE DEF T
    <2>3. Cardinality(T(i)) <= Cardinality(T(j)) /\ (Cardinality(T(j)) = Cardinality(T(i)) => T(j) = T(i))
      BY <2>1, <2>2, FS_Subset
    <2>4. Cardinality(T(j)) \in Nat
      BY <2>1, FS_CardinalityType
    <2> QED
      BY <2>2, <2>3, <2>4, <1>3
  <1> QED
    BY <1>1, <1>5, <1>6 DEF Rank

LEMMA NthIs ==
  ASSUME NEW S, Enumerated(S)
  PROVE  /\ \A i \in S : Nth(S, Rank(S, i)) = i
         /\ \A m \in 1 .. Cardinality(S) : Nth(S, m) \in S /\ Rank(S, Nth(S, m)) = m
  <1>1. ASSUME NEW i \in S, NEW j \in S, Rank(S, i) = Rank(S, j) PROVE i = j
    <2>1. i \in Nat /\ j \in Nat
      BY DEF Enumerated
    <2>3. IsFiniteSet(S) /\ S \subseteq Nat
      BY DEF Enumerated
    <2>6. Rank(S, i) \in 1 .. Cardinality(S) /\ Cardinality(S) \in Nat /\ (i < j => Rank(S, i) < Rank(S, j))
      BY <2>3, RankRises
    <2>4. Rank(S, i) \in Nat /\ (i < j => Rank(S, i) < Rank(S, j))
      BY <2>6
    <2>5. j < i => Rank(S, j) < Rank(S, i)
      BY <2>3, RankRises
    <2>2. Rank(S, i) \in Nat /\ (i < j => Rank(S, i) < Rank(S, j)) /\ (j < i => Rank(S, j) < Rank(S, i))
      BY <2>4, <2>5
    <2> QED
      BY <1>1, <2>1, <2>2
  <1>2. ASSUME NEW m \in 1 .. Cardinality(S) PROVE Nth(S, m) \in S /\ Rank(S, Nth(S, m)) = m
    BY DEF Enumerated, Nth
  <1>3. ASSUME NEW i \in S PROVE Nth(S, Rank(S, i)) = i
    <2>1. Rank(S, i) \in 1 .. Cardinality(S)
      BY RankRises DEF Enumerated
    <2>2. Nth(S, Rank(S, i)) \in S /\ Rank(S, Nth(S, Rank(S, i))) = Rank(S, i)
      BY <1>2, <2>1
    <2> QED
      BY <1>1, <2>2
  <1> QED
    BY <1>2, <1>3

LEMMA NthRises ==
  ASSUME NEW S, Enumerated(S), NEW m \in 1 .. Cardinality(S), NEW k \in 1 .. Cardinality(S), m < k
  PROVE  Nth(S, m) < Nth(S, k)
  <1>1. PICK i \in S : i = Nth(S, m) /\ Rank(S, i) = m
    BY NthIs
  <1>2. PICK j \in S : j = Nth(S, k) /\ Rank(S, j) = k
    BY NthIs
  <1>3. i \in Nat /\ j \in Nat /\ Cardinality(S) \in Nat
    BY FS_CardinalityType DEF Enumerated
  <1>4. j < i => Rank(S, j) < Rank(S, i)
    BY RankRises DEF Enumerated
  <1> QED
    BY <1>1, <1>2, <1>3, <1>4

\* The last one.
LEMMA LastNth ==
  ASSUME NEW S, Enumerated(S), S # {}
  PROVE  /\ Cardinality(S) \in Nat \ {0}
         /\ Nth(S, Cardinality(S)) \in S
         /\ \A k \in S : k <= Nth(S, Cardinality(S))
         /\ \A m \in 1 .. Cardinality(S) : (\A k \in S : k <= Nth(S, m)) => m = Cardinality(S)
  <1>1. Cardinality(S) \in Nat /\ Cardinality(S) # 0
    BY FS_CardinalityType, FS_EmptySet DEF Enumerated
  <1>2. PICK i \in S : i = Nth(S, Cardinality(S)) /\ Rank(S, i) = Cardinality(S)
    BY <1>1, NthIs
  <1>3. ASSUME NEW k \in S PROVE k <= i
    <2>1. i < k => Rank(S, i) < Rank(S, k)
      BY RankRises DEF Enumerated
    <2>2. Rank(S, k) \in 1 .. Cardinality(S) /\ k \in Nat /\ i \in Nat
      BY RankRises DEF Enumerated
    <2> QED
      BY <1>1, <1>2, <2>1, <2>2
  <1>4. ASSUME NEW m \in 1 .. Cardinality(S), \A k \in S : k <= Nth(S, m) PROVE m = Cardinality(S)
    <2>1. Nth(S, m) \in S /\ Rank(S, Nth(S, m)) = m
      BY NthIs
    <2>2. i <= Nth(S, m) /\ Nth(S, m) <= i /\ i \in Nat /\ Nth(S, m) \in Nat
      BY <1>3, <1>4, <2>1 DEF Enumerated
    <2>3. Nth(S, m) = i
      BY <2>2
    <2> QED
      BY <1>2, <2>1, <2>3
  <1> QED
    BY <1>1, <1>2, <1>3, <1>4

\* A position beyond the others is the last, and the others keep their places.
LEMMA EnumeratedGrows ==
  ASSUME NEW S, Enumerated(S), NEW n \in Nat, \A i \in S : i < n
  PROVE  /\ Enumerated(S \cup {n})
         /\ Cardinality(S) \in Nat /\ Cardinality(S \cup {n}) = Cardinality(S) + 1
         /\ \A m \in 1 .. Cardinality(S) : Nth(S \cup {n}, m) = Nth(S, m)
         /\ Nth(S \cup {n}, Cardinality(S) + 1) = n
  <1> DEFINE T == S \cup {n}
  <1>1. n \notin S /\ S \subseteq Nat /\ IsFiniteSet(S) /\ T \subseteq Nat
    BY DEF Enumerated
  <1>2. IsFiniteSet(T) /\ Cardinality(T) = Cardinality(S) + 1 /\ Cardinality(S) \in Nat
    BY <1>1, FS_AddElement, FS_CardinalityType
  <1>3. ASSUME NEW i \in S PROVE Rank(T, i) = Rank(S, i)
    <2>1. {j \in T : j <= i} = {j \in S : j <= i}
      BY <1>1
    <2> QED
      BY <2>1 DEF Rank
  <1>4. Rank(T, n) = Cardinality(S) + 1
    <2>2. \A j \in T : j <= n
      BY <1>1
    <2>1. {j \in T : j <= n} = T
      BY <2>2
    <2> QED
      BY <2>1, <1>2 DEF Rank
  <1>5. S \subseteq T /\ n \in T
    OBVIOUS
  <1> HIDE DEF T
  <1>6. Enumerated(T)
    <2>1. ASSUME NEW m \in 1 .. Cardinality(T) PROVE \E i \in T : Rank(T, i) = m
      <3>1. CASE m = Cardinality(S) + 1
        BY <3>1, <1>4, <1>5
      <3>2. CASE m \in 1 .. Cardinality(S)
        <4>1. PICK i \in S : Rank(S, i) = m
          BY <3>2 DEF Enumerated
        <4> QED
          BY <4>1, <1>3, <1>5
      <3> QED
        BY <3>1, <3>2, <1>2
    <2> QED
      BY <2>1, <1>1, <1>2, <1>5 DEF Enumerated
  <1>7. ASSUME NEW m \in 1 .. Cardinality(S) PROVE Nth(T, m) = Nth(S, m)
    <2>1. PICK i \in S : i = Nth(S, m) /\ Rank(S, i) = m
      BY NthIs
    <2>2. i \in T /\ Rank(T, i) = m
      BY <2>1, <1>3, <1>5
    <2>3. Nth(T, m) = i
      BY <2>2, <1>6, NthIs
    <2> QED
      BY <2>1, <2>3
  <1>8. Nth(T, Cardinality(S) + 1) = n
    BY <1>4, <1>5, <1>6, NthIs
  <1> QED
    BY <1>2, <1>6, <1>7, <1>8 DEF T

-----------------------------------------------------------------------------
(* Runs of polls *)

Poll ==
  {p \in [at : Nat, outcome : {"fail", "error"}, what : Key \cup {Unkeyed} \cup Exc] :
    /\ p.outcome = "fail" => p.what \in Key \cup {Unkeyed}
    /\ p.outcome = "error" => p.what \in Exc}

SampleT == [outcome : {"fail", "error"}, what : Key \cup {Unkeyed} \cup Exc, repeats : Nat]

Agree(p, q) == p.outcome = q.outcome /\ p.what = q.what

\* Every poll agrees with the start of a run, and the last one with that of the last run.
PollsHold(ps) ==
  /\ ps \in Seq(Poll)
  /\ Enumerated(Starts(ps))
  /\ \A i \in Starts(ps) : (\A k \in Starts(ps) : k <= i) => Agree(ps[i], ps[Len(ps)])
  /\ \A i \in DOMAIN ps : \E s \in Starts(ps) : Agree(ps[s], ps[i])

LEMMA Appended ==
  ASSUME NEW S, NEW s \in Seq(S), NEW e \in S
  PROVE  /\ Append(s, e) \in Seq(S) /\ Len(s) \in Nat
         /\ DOMAIN s = 1 .. Len(s) /\ DOMAIN Append(s, e) = 1 .. Len(s) + 1
         /\ Len(Append(s, e)) = Len(s) + 1
         /\ \A i \in 1 .. Len(s) : Append(s, e)[i] = s[i]
         /\ Append(s, e)[Len(s) + 1] = e
  BY AppendProperties, LenProperties

\* What starts a run still does.
LEMMA StartsGrow ==
  ASSUME NEW ps \in Seq(Poll), NEW p \in Poll
  PROVE  LET n == Len(ps)
             q == Append(ps, p)
         IN  /\ Starts(ps) \subseteq 1 .. n /\ n \in Nat
             /\ \A i \in 1 .. n : StartsRun(q, i) <=> i \in Starts(ps)
             /\ StartsRun(q, n + 1) <=> n = 0 \/ p.what = Unkeyed \/ ~Agree(ps[n], p)
             /\ Starts(q) = IF StartsRun(q, n + 1) THEN Starts(ps) \cup {n + 1} ELSE Starts(ps)
  <1> DEFINE q == Append(ps, p)
  <1>1. PICK n \in Nat : n = Len(ps)
    BY LenProperties
  <1>2. /\ DOMAIN ps = 1 .. n /\ DOMAIN q = 1 .. n + 1 /\ q[n + 1] = p
        /\ \A i \in 1 .. n : q[i] = ps[i]
    BY <1>1, Appended
  <1> HIDE DEF q
  <1>3. ASSUME NEW i \in 1 .. n PROVE StartsRun(q, i) <=> StartsRun(ps, i)
    <2>1. q[i] = ps[i] /\ (i # 1 => q[i - 1] = ps[i - 1])
      BY <1>2
    <2> QED
      BY <2>1 DEF StartsRun
  <1>4. StartsRun(q, n + 1) <=> n = 0 \/ p.what = Unkeyed \/ ~Agree(ps[n], p)
    <2>1. n + 1 = 1 <=> n = 0
      OBVIOUS
    <2>2. n + 1 - 1 = n /\ (n # 0 => q[n] = ps[n])
      BY <1>2
    <2> QED
      BY <1>2, <2>1, <2>2 DEF StartsRun, Agree
  <1>5. Starts(ps) \subseteq 1 .. n /\ \A i \in 1 .. n : StartsRun(q, i) <=> i \in Starts(ps)
    BY <1>2, <1>3 DEF Starts
  <1>6. \A i : i \in 1 .. n + 1 <=> i \in 1 .. n \/ i = n + 1
    OBVIOUS
  <1>7. Starts(q) = IF StartsRun(q, n + 1) THEN Starts(ps) \cup {n + 1} ELSE Starts(ps)
    <2>1. \A i : i \in Starts(q) <=> i \in Starts(ps) \/ (i = n + 1 /\ StartsRun(q, n + 1))
      BY <1>2, <1>5, <1>6 DEF Starts
    <2> QED
      BY <2>1
  <1> QED
    BY <1>1, <1>4, <1>5, <1>7 DEF q

LEMMA PollsGrow ==
  ASSUME NEW ps, PollsHold(ps), NEW p \in Poll
  PROVE  PollsHold(Append(ps, p))
  <1> DEFINE q == Append(ps, p)
             S == Starts(ps)
  <1>0. ps \in Seq(Poll) /\ Enumerated(S)
    BY DEF PollsHold
  <1>1. PICK n \in Nat : n = Len(ps)
    BY <1>0, LenProperties
  <1>2. /\ DOMAIN ps = 1 .. n /\ DOMAIN q = 1 .. n + 1 /\ q[n + 1] = p /\ q \in Seq(Poll) /\ Len(q) = n + 1
        /\ \A i \in 1 .. n : q[i] = ps[i]
    BY <1>0, <1>1, Appended
  <1>3. /\ S \subseteq 1 .. n
        /\ StartsRun(q, n + 1) <=> n = 0 \/ p.what = Unkeyed \/ ~Agree(ps[n], p)
        /\ Starts(q) = IF StartsRun(q, n + 1) THEN S \cup {n + 1} ELSE S
    BY <1>0, <1>1, StartsGrow
  <1>4. /\ \A i \in S : (\A k \in S : k <= i) => Agree(ps[i], ps[n])
        /\ \A i \in 1 .. n : \E s \in S : Agree(ps[s], ps[i])
    BY <1>1, <1>2 DEF PollsHold
  <1> HIDE DEF q, S
  <1>5. CASE StartsRun(q, n + 1)
    <2>1. Starts(q) = S \cup {n + 1}
      BY <1>3, <1>5
    <2>2. Enumerated(Starts(q))
      <3>1. PICK m \in Nat : m = n + 1
        OBVIOUS
      <3>2. \A i \in S : i < m
        BY <1>3, <3>1
      <3>3. Enumerated(S \cup {m})
        BY <3>2, <1>0, EnumeratedGrows
      <3> QED
        BY <3>1, <3>3, <2>1
    <2>3. ASSUME NEW i \in Starts(q), \A k \in Starts(q) : k <= i PROVE Agree(q[i], q[n + 1])
      <3>2. n + 1 <= i
        BY <2>1, <2>3
      <3>3. i \in 1 .. n \/ i = n + 1
        BY <1>3, <2>1
      <3>1. i = n + 1
        BY <3>2, <3>3
      <3> QED
        BY <3>1 DEF Agree
    <2>4. ASSUME NEW i \in 1 .. n + 1 PROVE \E s \in Starts(q) : Agree(q[s], q[i])
      <3>1. CASE i = n + 1
        BY <3>1, <2>1 DEF Agree
      <3>2. CASE i \in 1 .. n
        BY <3>2, <1>2, <1>3, <1>4, <2>1
      <3> QED
        BY <3>1, <3>2
    <2> QED
      BY <1>2, <2>2, <2>3, <2>4 DEF PollsHold, q
  <1>6. CASE ~StartsRun(q, n + 1)
    <2>1. Starts(q) = S /\ n # 0 /\ Agree(ps[n], p)
      BY <1>3, <1>6
    <2>3. ASSUME NEW i \in S, \A k \in S : k <= i PROVE Agree(q[i], p)
      <3>1. Agree(ps[i], ps[n]) /\ q[i] = ps[i]
        BY <1>2, <1>3, <1>4, <2>3
      <3> QED
        BY <3>1, <2>1 DEF Agree
    <2>4. ASSUME NEW i \in 1 .. n + 1 PROVE \E s \in S : Agree(q[s], q[i])
      <3>1. CASE i = n + 1
        <4>1. PICK s \in S : Agree(ps[s], ps[n])
          BY <1>4, <2>1
        <4> QED
          BY <4>1, <3>1, <2>1, <1>2, <1>3 DEF Agree
      <3>2. CASE i \in 1 .. n
        BY <3>2, <1>2, <1>3, <1>4
      <3> QED
        BY <3>1, <3>2
    <2> QED
      BY <1>0, <1>2, <2>1, <2>3, <2>4 DEF PollsHold, q
  <1> QED
    BY <1>5, <1>6

-----------------------------------------------------------------------------

LEMMA SameLength ==
  ASSUME NEW n \in Nat, NEW m \in Nat, 1 .. n = 1 .. m
  PROVE  m = n
  <1>1. \A i \in Nat : (1 <= i /\ i <= n) <=> (1 <= i /\ i <= m)
    OBVIOUS
  <1>2. n # 0 => n <= m
    BY <1>1
  <1>3. m # 0 => m <= n
    BY <1>1
  <1> QED
    BY <1>2, <1>3

\* The polls of the run that starts at i.
RunSet(ps, i) == {j \in DOMAIN ps : j >= i /\ \A k \in i + 1 .. j : ~StartsRun(ps, k)}

LEMMA RunAtIs ==
  ASSUME NEW ps \in Seq(Poll), NEW i \in DOMAIN ps
  PROVE  RunAt(ps, i) \in SampleT /\ IsFiniteSet(RunSet(ps, i))
         /\ RunAt(ps, i) = [outcome |-> ps[i].outcome, what |-> ps[i].what, repeats |-> Cardinality(RunSet(ps, i))]
  <1>1. DOMAIN ps = 1 .. Len(ps) /\ Len(ps) \in Nat /\ ps[i] \in Poll
    BY LenProperties, ElementOfSeq
  <1>2. IsFiniteSet(1 .. Len(ps))
    BY <1>1, FS_Interval
  <1>3. RunSet(ps, i) \subseteq 1 .. Len(ps)
    BY <1>1 DEF RunSet
  <1>4. IsFiniteSet(RunSet(ps, i))
    BY <1>2, <1>3, FS_Subset
  <1>5. Cardinality(RunSet(ps, i)) \in Nat
    BY <1>4, FS_CardinalityType
  <1>6. RunAt(ps, i) = [outcome |-> ps[i].outcome, what |-> ps[i].what, repeats |-> Cardinality(RunSet(ps, i))]
    BY DEF RunAt, RunSet
  <1> QED
    BY <1>1, <1>4, <1>5, <1>6 DEF SampleT, Poll

\* What poll p makes of the runs of ps.
RunsWith(ps, p, q, n) ==
  /\ RunAt(q, n + 1) = Sample(p)
  /\ \A i \in Starts(ps) :
       IF ~StartsRun(q, n + 1) /\ \A k \in Starts(ps) : k <= i
       THEN RunAt(q, i) = [RunAt(ps, i) EXCEPT !.repeats = @ + 1]
       ELSE RunAt(q, i) = RunAt(ps, i)

LEMMA RunAtGrows ==
  ASSUME NEW ps \in Seq(Poll), NEW p \in Poll, NEW n \in Nat, n = Len(ps)
  PROVE  RunsWith(ps, p, Append(ps, p), n)
  <1> DEFINE q == Append(ps, p)
  <1>1. /\ DOMAIN ps = 1 .. n /\ DOMAIN q = 1 .. n + 1 /\ q[n + 1] = p /\ q \in Seq(Poll)
        /\ \A i \in 1 .. n : q[i] = ps[i]
    BY Appended
  <1>2. /\ Starts(ps) \subseteq 1 .. n
        /\ \A i \in 1 .. n : StartsRun(q, i) <=> i \in Starts(ps)
    BY StartsGrow
  <1>a. \A i \in 1 .. n : StartsRun(ps, i) <=> i \in Starts(ps)
    BY <1>1 DEF Starts
  <1>3. RunAt(q, n + 1) = Sample(p)
    <2>1. \A j : j \in RunSet(q, n + 1) <=> j = n + 1
      <3>1. \A k : k \notin n + 1 + 1 .. n + 1
        OBVIOUS
      <3>2. \A j \in 1 .. n + 1 : j >= n + 1 <=> j = n + 1
        OBVIOUS
      <3> QED
        BY <1>1, <3>1, <3>2 DEF RunSet
    <2>2. RunSet(q, n + 1) = {n + 1}
      BY <2>1
    <2>3. Cardinality(RunSet(q, n + 1)) = 1
      BY <2>2, FS_Singleton
    <2>4. RunAt(q, n + 1) = [outcome |-> p.outcome, what |-> p.what, repeats |-> Cardinality(RunSet(q, n + 1))]
      <3>1. PICK k \in DOMAIN q : k = n + 1
        BY <1>1
      <3>2. RunAt(q, k) = [outcome |-> q[k].outcome, what |-> q[k].what, repeats |-> Cardinality(RunSet(q, k))]
        BY <1>1, RunAtIs
      <3> QED
        BY <1>1, <3>1, <3>2
    <2> QED
      BY <2>3, <2>4 DEF Sample
  <1>4. ASSUME NEW i \in Starts(ps)
        PROVE  IF ~StartsRun(q, n + 1) /\ \A k \in Starts(ps) : k <= i
               THEN RunAt(q, i) = [RunAt(ps, i) EXCEPT !.repeats = @ + 1]
               ELSE RunAt(q, i) = RunAt(ps, i)
    <2>0. i \in 1 .. n /\ i \in 1 .. n + 1 /\ q[i] = ps[i]
      BY <1>1, <1>2
    <2>1. /\ RunAt(ps, i) = [outcome |-> ps[i].outcome, what |-> ps[i].what, repeats |-> Cardinality(RunSet(ps, i))]
          /\ IsFiniteSet(RunSet(ps, i))
          /\ RunAt(q, i) = [outcome |-> ps[i].outcome, what |-> ps[i].what, repeats |-> Cardinality(RunSet(q, i))]
      BY <1>1, <2>0, RunAtIs
    <2>2. ASSUME NEW j \in 1 .. n PROVE j \in RunSet(q, i) <=> j \in RunSet(ps, i)
      <3>1. \A k \in i + 1 .. j : k \in 1 .. n
        BY <2>0
      <3>2. \A k \in i + 1 .. j : StartsRun(q, k) <=> StartsRun(ps, k)
        BY <3>1, <1>2, <1>a
      <3>3. j \in 1 .. n + 1
        OBVIOUS
      <3> QED
        BY <1>1, <3>2, <3>3 DEF RunSet
    <2>3. n + 1 \in RunSet(q, i) <=> ~StartsRun(q, n + 1) /\ \A k \in Starts(ps) : k <= i
      <3>1. n + 1 >= i /\ n + 1 \in 1 .. n + 1
        BY <2>0
      <3>2. n + 1 \in RunSet(q, i) <=> \A k \in i + 1 .. n + 1 : ~StartsRun(q, k)
        BY <3>1, <1>1 DEF RunSet
      <3>3. \A k : k \in i + 1 .. n + 1 <=> (k \in 1 .. n /\ k > i) \/ k = n + 1
        BY <2>0
      <3>4. (\A k \in i + 1 .. n + 1 : ~StartsRun(q, k))
              <=> ~StartsRun(q, n + 1) /\ \A k \in 1 .. n : k > i => k \notin Starts(ps)
        BY <3>3, <1>2
      <3>5. (\A k \in 1 .. n : k > i => k \notin Starts(ps)) <=> \A k \in Starts(ps) : k <= i
        BY <1>2, <2>0
      <3> QED
        BY <3>2, <3>4, <3>5
    <2>4. RunSet(q, i) \subseteq 1 .. n + 1 /\ RunSet(ps, i) \subseteq 1 .. n
      BY <1>1 DEF RunSet
    <2>5. n + 1 \notin RunSet(ps, i) /\ \A j : j \in 1 .. n + 1 <=> j \in 1 .. n \/ j = n + 1
      BY <2>4
    <2>6. CASE n + 1 \in RunSet(q, i)
      <3>1. RunSet(q, i) = RunSet(ps, i) \cup {n + 1}
        BY <2>2, <2>4, <2>5, <2>6
      <3>2. Cardinality(RunSet(q, i)) = Cardinality(RunSet(ps, i)) + 1
        BY <3>1, <2>1, <2>5, FS_AddElement
      <3> QED
        BY <2>1, <2>3, <2>6, <3>2
    <2>7. CASE n + 1 \notin RunSet(q, i)
      <3>1. RunSet(q, i) = RunSet(ps, i)
        BY <2>2, <2>4, <2>5, <2>7
      <3> QED
        BY <2>1, <2>3, <2>7, <3>1
    <2> QED
      BY <2>6, <2>7
  <1> QED
    BY <1>3, <1>4 DEF RunsWith

\* The runs are those of their starts.
LEMMA RunsAre ==
  ASSUME NEW ps, PollsHold(ps)
  PROVE  LET S == Starts(ps)
         IN  /\ RunsOf(ps) \in Seq(SampleT) /\ Len(RunsOf(ps)) = Cardinality(S) /\ Cardinality(S) \in Nat
             /\ \A m \in 1 .. Cardinality(S) :
                  Nth(S, m) \in S /\ Nth(S, m) \in DOMAIN ps /\ RunsOf(ps)[m] = RunAt(ps, Nth(S, m))
  <1> DEFINE S == Starts(ps)
  <1>1. ps \in Seq(Poll) /\ Enumerated(S) /\ Cardinality(S) \in Nat
    BY FS_CardinalityType DEF PollsHold, Enumerated
  <1>2. RunsOf(ps) = [m \in 1 .. Cardinality(S) |-> RunAt(ps, Nth(S, m))]
    BY DEF RunsOf, Nth, Rank
  <1>3. S \subseteq DOMAIN ps
    BY DEF Starts
  <1> HIDE DEF S
  <1>4. ASSUME NEW m \in 1 .. Cardinality(S) PROVE Nth(S, m) \in S /\ Nth(S, m) \in DOMAIN ps /\ RunAt(ps, Nth(S, m)) \in SampleT
    <2>1. Nth(S, m) \in S /\ Nth(S, m) \in DOMAIN ps
      BY <1>1, <1>3, NthIs
    <2> QED
      BY <2>1, <1>1, RunAtIs
  <1>5. RunsOf(ps) \in [1 .. Cardinality(S) -> SampleT]
    BY <1>2, <1>4
  <1>6. RunsOf(ps) \in Seq(SampleT) /\ Len(RunsOf(ps)) = Cardinality(S)
    <2>1. PICK N \in Nat : N = Cardinality(S)
      BY <1>1
    <2>2. RunsOf(ps) \in Seq(SampleT) /\ DOMAIN RunsOf(ps) = 1 .. N
      BY <1>5, <2>1, SeqDef
    <2>3. PICK m \in Nat : m = Len(RunsOf(ps)) /\ 1 .. N = 1 .. m
      BY <2>2, LenProperties
    <2>4. m = N
      BY <2>3, SameLength
    <2> QED
      BY <2>1, <2>2, <2>3, <2>4
  <1> QED
    BY <1>1, <1>2, <1>4, <1>6 DEF S

\* A poll lengthens the last run or starts another.
LEMMA RunsGrow ==
  ASSUME NEW ps, PollsHold(ps), NEW p \in Poll
  PROVE  LET R == RunsOf(ps)
             N == Len(R)
             Q == RunsOf(Append(ps, p))
         IN  IF N # 0 /\ Repeats(R[N], p)
             THEN Q = [R EXCEPT ![N].repeats = @ + 1]
             ELSE Q = Append(R, Sample(p))
  <1> DEFINE R == RunsOf(ps)
             q == Append(ps, p)
             Q == RunsOf(q)
             S == Starts(ps)
             T == Starts(q)
  <1>1. PICK N \in Nat : N = Cardinality(S)
    BY RunsAre
  <1>2. PICK n \in Nat : n = Len(ps)
    BY LenProperties DEF PollsHold
  <1>3. /\ R \in Seq(SampleT) /\ Len(R) = N /\ Enumerated(S) /\ ps \in Seq(Poll) /\ DOMAIN ps = 1 .. n
        /\ \A m \in 1 .. N : Nth(S, m) \in S /\ Nth(S, m) \in 1 .. n /\ R[m] = RunAt(ps, Nth(S, m))
    <2>1. ps \in Seq(Poll) /\ Enumerated(S) /\ DOMAIN ps = 1 .. n
      BY <1>2, LenProperties DEF PollsHold
    <2> QED
      BY <1>1, <2>1, RunsAre
  <1>4. /\ Q \in Seq(SampleT) /\ Len(Q) = Cardinality(T) /\ Enumerated(T)
        /\ \A m \in 1 .. Cardinality(T) : Q[m] = RunAt(q, Nth(T, m))
    BY PollsGrow, RunsAre DEF PollsHold
  <1>5. /\ S \subseteq 1 .. n
        /\ StartsRun(q, n + 1) <=> n = 0 \/ p.what = Unkeyed \/ ~Agree(ps[n], p)
        /\ T = IF StartsRun(q, n + 1) THEN S \cup {n + 1} ELSE S
    BY <1>2, <1>3, StartsGrow
  <1>6. /\ RunAt(q, n + 1) = Sample(p)
        /\ \A i \in S :
              IF ~StartsRun(q, n + 1) /\ \A k \in S : k <= i
              THEN RunAt(q, i) = [RunAt(ps, i) EXCEPT !.repeats = @ + 1]
              ELSE RunAt(q, i) = RunAt(ps, i)
    <2>1. RunsWith(ps, p, q, n)
      BY <1>2, <1>3, RunAtGrows
    <2> QED
      BY <2>1 DEF RunsWith
  <1>7. Sample(p) \in SampleT
    BY DEF Sample, SampleT, Poll
  <1>8. N # 0 => Nth(S, N) \in S /\ (\A k \in S : k <= Nth(S, N)) /\ Agree(R[N], ps[n])
                 /\ \A m \in 1 .. N : (\A k \in S : k <= Nth(S, m)) => m = N
    <2> SUFFICES ASSUME N # 0 PROVE Nth(S, N) \in S /\ (\A k \in S : k <= Nth(S, N)) /\ Agree(R[N], ps[n])
                                    /\ \A m \in 1 .. N : (\A k \in S : k <= Nth(S, m)) => m = N
      OBVIOUS
    <2>1. S # {}
      BY <1>1, FS_EmptySet
    <2>2. Nth(S, N) \in S /\ (\A k \in S : k <= Nth(S, N)) /\ \A m \in 1 .. N : (\A k \in S : k <= Nth(S, m)) => m = N
      BY <1>1, <1>3, <2>1, LastNth
    <2>3. Agree(ps[Nth(S, N)], ps[n])
      BY <2>2, <1>2 DEF PollsHold
    <2>4. R[N] = RunAt(ps, Nth(S, N))
      BY <1>3
    <2> QED
      BY <2>2, <2>3, <2>4 DEF Agree, RunAt
  <1>9. N = 0 <=> n = 0
    <2>1. N = 0 <=> S = {}
      BY <1>1, <1>3, FS_EmptySet DEF Enumerated
    <2>2. n # 0 => S # {}
      BY <1>2, <1>3 DEF PollsHold
    <2>3. n = 0 => S = {}
      BY <1>5
    <2> QED
      BY <2>1, <2>2, <2>3
  <1>10. StartsRun(q, n + 1) <=> ~(N # 0 /\ Repeats(R[N], p))
    BY <1>5, <1>8, <1>9 DEF Agree, Repeats
  <1> HIDE DEF R, q, Q, S, T
  <1>11. CASE StartsRun(q, n + 1)
    <2>1. PICK k \in Nat : k = n + 1
      OBVIOUS
    <2>2. T = S \cup {k} /\ \A i \in S : i < k
      BY <1>5, <1>11, <2>1
    <2>3. Cardinality(T) = N + 1 /\ (\A m \in 1 .. N : Nth(T, m) = Nth(S, m)) /\ Nth(T, N + 1) = k
      <3>1. /\ Cardinality(S \cup {k}) = Cardinality(S) + 1
            /\ \A m \in 1 .. Cardinality(S) : Nth(S \cup {k}, m) = Nth(S, m)
            /\ Nth(S \cup {k}, Cardinality(S) + 1) = k
        BY <1>3, <2>2, EnumeratedGrows
      <3> QED
        BY <1>1, <2>2, <3>1
    <2>4. ASSUME NEW m \in 1 .. N PROVE Q[m] = R[m]
      BY <1>3, <1>4, <1>6, <1>11, <2>3
    <2>5. Q[N + 1] = Sample(p)
      BY <1>4, <1>6, <2>1, <2>3
    <2>6. /\ Append(R, Sample(p)) \in Seq(SampleT) /\ Len(Append(R, Sample(p))) = N + 1
          /\ \A i \in 1 .. N : Append(R, Sample(p))[i] = R[i]
          /\ Append(R, Sample(p))[N + 1] = Sample(p)
      BY <1>3, <1>7, Appended
    <2>7. \A m \in 1 .. N + 1 : m \in 1 .. N \/ m = N + 1
      OBVIOUS
    <2>8. Q = Append(R, Sample(p))
      BY <1>4, <2>3, <2>4, <2>5, <2>6, <2>7, SeqEqual
    <2> QED
      BY <1>3, <1>10, <1>11, <2>8 DEF R, Q, q
  <1>12. CASE ~StartsRun(q, n + 1)
    <2>1. T = S /\ N # 0
      BY <1>5, <1>10, <1>12
    <2> DEFINE e == [R[N] EXCEPT !.repeats = @ + 1]
    <2>2. R[N] \in SampleT
      BY <1>3, <2>1, ElementOfSeq
    <2>3. e \in SampleT
      BY <2>2 DEF SampleT
    <2>4. ASSUME NEW m \in 1 .. N PROVE Q[m] = IF m = N THEN e ELSE R[m]
      <3>1. Q[m] = RunAt(q, Nth(S, m)) /\ R[m] = RunAt(ps, Nth(S, m)) /\ Nth(S, m) \in S
        BY <1>1, <1>3, <1>4, <2>1
      <3>2. (\A k \in S : k <= Nth(S, m)) <=> m = N
        BY <1>8, <2>1
      <3> QED
        BY <3>1, <3>2, <1>6, <1>12
    <2> HIDE DEF e
    <2>5. /\ [R EXCEPT ![N] = e] \in Seq(SampleT) /\ Len([R EXCEPT ![N] = e]) = N
          /\ \A m \in 1 .. N : [R EXCEPT ![N] = e][m] = IF m = N THEN e ELSE R[m]
      BY <1>3, <2>1, <2>3, ExceptSeq
    <2>6. Q = [R EXCEPT ![N] = e]
      BY <1>1, <1>4, <2>1, <2>4, <2>5, SeqEqual
    <2>7. [R EXCEPT ![N].repeats = @ + 1] = [R EXCEPT ![N] = e]
      BY DEF e
    <2> QED
      BY <1>3, <1>10, <1>12, <2>6, <2>7 DEF R, Q, q
  <1> QED
    BY <1>11, <1>12

-----------------------------------------------------------------------------
(* The window of the runs that is kept *)

\* h, a gap of d, and t are the runs R, and there is a gap only when the head and the tail are full.
WindowIs(h, t, d, R) ==
  /\ h \in Seq(SampleT) /\ t \in Seq(SampleT) /\ R \in Seq(SampleT) /\ d \in Nat
  /\ Len(R) = Len(h) + d + Len(t)
  /\ \A i \in 1 .. Len(h) : h[i] = R[i]
  /\ \A i \in 1 .. Len(t) : t[i] = R[Len(h) + d + i]
  /\ Len(h) <= HeadLimit /\ Len(t) <= TailLimit
  /\ Len(t) # 0 \/ d # 0 => Len(h) = HeadLimit
  /\ d # 0 => Len(t) = TailLimit

LEMMA HeadGrows ==
  ASSUME NEW h, NEW t, NEW d, NEW R, WindowIs(h, t, d, R), NEW s \in SampleT, Len(h) < HeadLimit
  PROVE  WindowIs(Append(h, s), t, d, Append(R, s))
  <1>1. /\ h \in Seq(SampleT) /\ t \in Seq(SampleT) /\ R \in Seq(SampleT) /\ d \in Nat
        /\ HeadLimit \in Nat /\ TailLimit \in Nat
    BY RecorderConstants DEF WindowIs
  <1>2. PICK a \in Nat : a = Len(h)
    BY <1>1, LenProperties
  <1>3. PICK b \in Nat : b = Len(t)
    BY <1>1, LenProperties
  <1>4. b = 0 /\ d = 0 /\ Len(R) = a
    BY <1>1, <1>2, <1>3 DEF WindowIs
  <1>5. /\ Append(h, s) \in Seq(SampleT) /\ Len(Append(h, s)) = a + 1
        /\ \A i \in 1 .. a : Append(h, s)[i] = h[i]
        /\ Append(h, s)[a + 1] = s
    BY <1>1, <1>2, Appended
  <1>6. /\ Append(R, s) \in Seq(SampleT) /\ Len(Append(R, s)) = a + 1
        /\ \A i \in 1 .. a : Append(R, s)[i] = R[i]
        /\ Append(R, s)[a + 1] = s
    BY <1>1, <1>4, Appended
  <1>7. \A i \in 1 .. a : h[i] = R[i]
    BY <1>2 DEF WindowIs
  <1>8. ASSUME NEW i \in 1 .. a + 1 PROVE Append(h, s)[i] = Append(R, s)[i]
    <2>1. i \in 1 .. a \/ i = a + 1
      OBVIOUS
    <2> QED
      BY <2>1, <1>5, <1>6, <1>7
  <1>9. a + 1 <= HeadLimit /\ a + 1 = a + 1 + d + b
    BY <1>1, <1>2, <1>4
  <1> QED
    BY <1>1, <1>2, <1>3, <1>4, <1>5, <1>6, <1>8, <1>9 DEF WindowIs

LEMMA TailGrows ==
  ASSUME NEW h, NEW t, NEW d, NEW R, WindowIs(h, t, d, R), NEW s \in SampleT, ~ Len(h) < HeadLimit
  PROVE  IF Len(t) < TailLimit
         THEN WindowIs(h, Append(t, s), d, Append(R, s))
         ELSE WindowIs(h, Append(Tail(t), s), d + 1, Append(R, s))
  <1>1. /\ h \in Seq(SampleT) /\ t \in Seq(SampleT) /\ R \in Seq(SampleT) /\ d \in Nat
        /\ HeadLimit \in Nat /\ TailLimit \in Nat /\ TailLimit # 0
    BY RecorderConstants DEF WindowIs
  <1>2. PICK a \in Nat : a = Len(h)
    BY <1>1, LenProperties
  <1>3. PICK b \in Nat : b = Len(t)
    BY <1>1, LenProperties
  <1>4. PICK c \in Nat : c = a + d
    BY <1>1
  <1>5. /\ a = HeadLimit /\ Len(R) = c + b /\ b <= TailLimit /\ (d # 0 => b = TailLimit)
        /\ \A i \in 1 .. a : h[i] = R[i]
        /\ \A i \in 1 .. b : t[i] = R[c + i]
    BY <1>1, <1>2, <1>3, <1>4 DEF WindowIs
  <1> DEFINE Q == Append(R, s)
  <1>6. /\ Q \in Seq(SampleT) /\ Len(Q) = c + b + 1
        /\ \A i \in 1 .. c + b : Q[i] = R[i]
        /\ Q[c + b + 1] = s
    BY <1>1, <1>5, Appended
  <1> HIDE DEF Q
  <1>7. \A i \in 1 .. a : h[i] = Q[i]
    <2> SUFFICES ASSUME NEW i \in 1 .. a PROVE h[i] = Q[i]
      OBVIOUS
    <2>1. i \in 1 .. c + b
      BY <1>1, <1>4
    <2> QED
      BY <2>1, <1>5, <1>6
  <1>8. \A i \in 1 .. b : t[i] = Q[c + i]
    <2> SUFFICES ASSUME NEW i \in 1 .. b PROVE t[i] = Q[c + i]
      OBVIOUS
    <2>1. c + i \in 1 .. c + b
      OBVIOUS
    <2> QED
      BY <2>1, <1>5, <1>6
  <1>9. CASE b < TailLimit
    <2> DEFINE u == Append(t, s)
    <2>1. u \in Seq(SampleT) /\ Len(u) = b + 1 /\ (\A i \in 1 .. b : u[i] = t[i]) /\ u[b + 1] = s
      BY <1>1, <1>3, Appended
    <2> HIDE DEF u
    <2>2. ASSUME NEW i \in 1 .. b + 1 PROVE u[i] = Q[c + i]
      <3>1. CASE i \in 1 .. b
        BY <3>1, <2>1, <1>8
      <3>2. CASE i = b + 1
        <4>1. c + i = c + b + 1
          BY <3>2
        <4> QED
          BY <3>2, <4>1, <2>1, <1>6
      <3> QED
        BY <3>1, <3>2
    <2>3. d = 0 /\ c + b + 1 = a + d + (b + 1) /\ b + 1 <= TailLimit
      BY <1>1, <1>4, <1>5, <1>9
    <2>4. WindowIs(h, u, d, Q)
      BY <1>1, <1>2, <1>4, <1>5, <1>6, <1>7, <2>1, <2>2, <2>3 DEF WindowIs
    <2> QED
      BY <1>3, <1>9, <2>4 DEF u, Q
  <1>10. CASE ~ b < TailLimit
    <2>1. b = TailLimit /\ t # <<>>
      BY <1>1, <1>3, <1>5, <1>10, EmptySeq
    <2>2. PICK e \in Nat : b = e + 1
      BY <1>1, <2>1
    <2>3. Tail(t) \in Seq(SampleT) /\ Len(Tail(t)) = e /\ \A i \in 1 .. e : Tail(t)[i] = t[i + 1]
      <3>1. /\ Tail(t) \in Seq(SampleT) /\ Len(Tail(t)) = Len(t) - 1
            /\ \A i \in 1 .. Len(Tail(t)) : Tail(t)[i] = t[i + 1]
        BY <1>1, <2>1, HeadTailProperties
      <3>2. Len(t) - 1 = e
        BY <1>3, <2>2
      <3> QED
        BY <3>1, <3>2
    <2> DEFINE u == Append(Tail(t), s)
    <2>4. u \in Seq(SampleT) /\ Len(u) = e + 1 /\ (\A i \in 1 .. e : u[i] = Tail(t)[i]) /\ u[e + 1] = s
      BY <2>3, Appended
    <2> HIDE DEF u
    <2>5. ASSUME NEW i \in 1 .. b PROVE u[i] = Q[c + 1 + i]
      <3>1. CASE i \in 1 .. e
        <4>1. i + 1 \in 1 .. b /\ c + (i + 1) = c + 1 + i
          BY <3>1, <2>2
        <4>2. u[i] = t[i + 1] /\ t[i + 1] = Q[c + (i + 1)]
          BY <3>1, <4>1, <2>3, <2>4, <1>8
        <4> QED
          BY <4>1, <4>2
      <3>2. CASE i = b
        <4>1. c + 1 + i = c + b + 1 /\ i = e + 1
          BY <3>2, <2>2
        <4> QED
          BY <4>1, <2>4, <1>6
      <3> QED
        BY <3>1, <3>2, <2>2
    <2>6. a + (d + 1) = c + 1 /\ c + b + 1 = a + (d + 1) + b /\ d + 1 \in Nat
      BY <1>1, <1>4
    <2>7. WindowIs(h, u, d + 1, Q)
      BY <1>1, <1>2, <1>5, <1>6, <1>7, <2>1, <2>2, <2>4, <2>5, <2>6 DEF WindowIs
    <2> QED
      BY <1>3, <1>10, <2>7 DEF u, Q
  <1> QED
    BY <1>9, <1>10

\* One more of what came last.
Again(s) == [s EXCEPT ![Len(s)].repeats = @ + 1]

LEMMA AgainIs ==
  ASSUME NEW s \in Seq(SampleT), Len(s) # 0
  PROVE  /\ Again(s) \in Seq(SampleT) /\ Len(Again(s)) = Len(s) /\ Len(s) \in Nat \ {0}
         /\ \A i \in 1 .. Len(s) : Again(s)[i] = IF i = Len(s) THEN [s[i] EXCEPT !.repeats = @ + 1] ELSE s[i]
  <1>1. PICK n \in Nat : n = Len(s)
    BY LenProperties
  <1>2. n \in 1 .. n
    BY <1>1
  <1> DEFINE e == [s[n] EXCEPT !.repeats = @ + 1]
  <1>3. e \in SampleT
    <2>1. s[n] \in SampleT
      BY <1>1, <1>2, ElementOfSeq
    <2> QED
      BY <2>1 DEF SampleT
  <1>4. Again(s) = [s EXCEPT ![n] = e]
    BY <1>1 DEF Again
  <1> HIDE DEF e
  <1>5. /\ [s EXCEPT ![n] = e] \in Seq(SampleT) /\ Len([s EXCEPT ![n] = e]) = n
        /\ \A i \in 1 .. n : [s EXCEPT ![n] = e][i] = IF i = n THEN e ELSE s[i]
    BY <1>1, <1>2, <1>3, ExceptSeq
  <1> QED
    BY <1>1, <1>4, <1>5 DEF e

LEMMA WindowAgain ==
  ASSUME NEW h, NEW t, NEW d, NEW R, WindowIs(h, t, d, R), Len(R) # 0
  PROVE  IF t # <<>> THEN WindowIs(h, Again(t), d, Again(R)) ELSE WindowIs(Again(h), t, d, Again(R))
  <1>1. /\ h \in Seq(SampleT) /\ t \in Seq(SampleT) /\ R \in Seq(SampleT) /\ d \in Nat
        /\ HeadLimit \in Nat /\ TailLimit \in Nat /\ TailLimit # 0
    BY RecorderConstants DEF WindowIs
  <1>2. PICK a \in Nat : a = Len(h)
    BY <1>1, LenProperties
  <1>3. PICK b \in Nat : b = Len(t)
    BY <1>1, LenProperties
  <1>4. PICK c \in Nat : c = a + d
    BY <1>1
  <1>5. PICK N \in Nat : N = c + b
    OBVIOUS
  <1>6. /\ Len(R) = N
        /\ \A i \in 1 .. a : h[i] = R[i]
        /\ \A i \in 1 .. b : t[i] = R[c + i]
    BY <1>1, <1>2, <1>3, <1>4, <1>5 DEF WindowIs
  <1>7. /\ Again(R) \in Seq(SampleT) /\ Len(Again(R)) = N
        /\ \A i \in 1 .. N : Again(R)[i] = IF i = N THEN [R[i] EXCEPT !.repeats = @ + 1] ELSE R[i]
    BY <1>1, <1>6, AgainIs
  <1>8. b = 0 <=> t = <<>>
    BY <1>1, <1>3, EmptySeq
  <1>9. CASE b # 0
    <2>1. /\ Again(t) \in Seq(SampleT) /\ Len(Again(t)) = b
          /\ \A i \in 1 .. b : Again(t)[i] = IF i = b THEN [t[i] EXCEPT !.repeats = @ + 1] ELSE t[i]
      BY <1>1, <1>3, <1>9, AgainIs
    <2>2. ASSUME NEW i \in 1 .. b PROVE Again(t)[i] = Again(R)[c + i]
      <3>1. c + i \in 1 .. N /\ (c + i = N <=> i = b)
        BY <1>5
      <3> QED
        BY <3>1, <2>1, <1>6, <1>7
    <2>3. ASSUME NEW i \in 1 .. a PROVE h[i] = Again(R)[i]
      <3>1. i \in 1 .. N /\ i # N
        BY <1>1, <1>4, <1>5, <1>9
      <3> QED
        BY <3>1, <1>6, <1>7
    <2>4. WindowIs(h, Again(t), d, Again(R))
      BY <1>1, <1>2, <1>3, <1>4, <1>5, <1>7, <2>1, <2>2, <2>3 DEF WindowIs
    <2> QED
      BY <1>8, <1>9, <2>4
  <1>10. CASE b = 0
    <2>1. d = 0 /\ a = N /\ a # 0
      BY <1>1, <1>3, <1>4, <1>5, <1>6, <1>10 DEF WindowIs
    <2>2. /\ Again(h) \in Seq(SampleT) /\ Len(Again(h)) = a
          /\ \A i \in 1 .. a : Again(h)[i] = IF i = a THEN [h[i] EXCEPT !.repeats = @ + 1] ELSE h[i]
      BY <1>1, <1>2, <2>1, AgainIs
    <2>3. ASSUME NEW i \in 1 .. a PROVE Again(h)[i] = Again(R)[i]
      BY <2>1, <2>2, <1>6, <1>7
    <2>4. \A i \in 1 .. b : t[i] = Again(R)[c + i]
      BY <1>10
    <2>5. WindowIs(Again(h), t, d, Again(R))
      BY <1>1, <1>2, <1>3, <1>4, <1>5, <1>7, <2>1, <2>2, <2>3, <2>4 DEF WindowIs
    <2> QED
      BY <1>8, <1>10, <2>5
  <1> QED
    BY <1>9, <1>10

\* What was kept last is the last run.
LEMMA LastKept ==
  ASSUME NEW h, NEW t, NEW d, NEW R, WindowIs(h, t, d, R)
  PROVE  /\ h \o t # <<>> <=> Len(R) # 0
         /\ Len(R) # 0 => Last(h \o t) = R[Len(R)]
  <1>1. /\ h \in Seq(SampleT) /\ t \in Seq(SampleT) /\ R \in Seq(SampleT) /\ d \in Nat
        /\ HeadLimit \in Nat \ {0} /\ TailLimit \in Nat \ {0}
    BY RecorderConstants DEF WindowIs
  <1>2. PICK a \in Nat : a = Len(h)
    BY <1>1, LenProperties
  <1>3. PICK b \in Nat : b = Len(t)
    BY <1>1, LenProperties
  <1>4. PICK c \in Nat : c = a + d
    BY <1>1
  <1>5. PICK N \in Nat : N = c + b
    OBVIOUS
  <1>6. /\ Len(R) = N
        /\ \A i \in 1 .. a : h[i] = R[i]
        /\ \A i \in 1 .. b : t[i] = R[c + i]
    BY <1>1, <1>2, <1>3, <1>4, <1>5 DEF WindowIs
  <1>7. b = 0 => d = 0
    BY <1>1, <1>3 DEF WindowIs
  <1>8. PICK k \in Nat : k = a + b
    OBVIOUS
  <1>9. /\ h \o t \in Seq(SampleT) /\ Len(h \o t) = k
        /\ \A i \in 1 .. k : (h \o t)[i] = IF i <= a THEN h[i] ELSE t[i - a]
    BY <1>1, <1>2, <1>3, <1>8, ConcatProperties
  <1>10. k = 0 <=> N = 0
    BY <1>1, <1>4, <1>5, <1>7, <1>8
  <1>11. h \o t # <<>> <=> k # 0
    BY <1>9, EmptySeq
  <1>12. ASSUME N # 0 PROVE (h \o t)[k] = R[N]
    <2>1. k \in 1 .. k
      BY <1>10, <1>12
    <2>2. CASE b = 0
      <3>1. k = a /\ N = a /\ a \in 1 .. a
        BY <2>1, <2>2, <1>1, <1>4, <1>5, <1>7, <1>8
      <3> QED
        BY <2>1, <3>1, <1>6, <1>9
    <2>3. CASE b # 0
      <3>1. ~ k <= a /\ k - a = b /\ b \in 1 .. b /\ c + b = N
        BY <2>3, <1>5, <1>8
      <3> QED
        BY <2>1, <3>1, <1>6, <1>9
    <2> QED
      BY <2>2, <2>3
  <1> QED
    BY <1>6, <1>9, <1>10, <1>11, <1>12 DEF Last

LEMMA WindowEquals ==
  ASSUME NEW h, NEW t, NEW d, NEW ps, WindowIs(h, t, d, RunsOf(ps))
  PROVE  [head |-> h, tail |-> t, dropped |-> d] = Window(ps)
  <1> DEFINE R == RunsOf(ps)
  <1>1. /\ h \in Seq(SampleT) /\ t \in Seq(SampleT) /\ R \in Seq(SampleT) /\ d \in Nat
        /\ HeadLimit \in Nat \ {0} /\ TailLimit \in Nat \ {0}
    BY RecorderConstants DEF WindowIs
  <1>2. PICK a \in Nat : a = Len(h)
    BY <1>1, LenProperties
  <1>3. PICK b \in Nat : b = Len(t)
    BY <1>1, LenProperties
  <1>4. PICK N \in Nat : N = a + d + b
    BY <1>1
  <1>6. /\ Len(R) = N
        /\ \A i \in 1 .. a : h[i] = R[i]
        /\ \A i \in 1 .. b : t[i] = R[a + d + i]
        /\ a <= HeadLimit /\ b <= TailLimit
        /\ b # 0 \/ d # 0 => a = HeadLimit
        /\ d # 0 => b = TailLimit
    BY <1>1, <1>2, <1>3, <1>4 DEF WindowIs
  <1> HIDE DEF R
  <1>7. \A i \in 1 .. N : R[i] \in SampleT
    BY <1>1, <1>6, ElementOfSeq
  <1> DEFINE most == IF N < HeadLimit THEN N ELSE HeadLimit
             first == SubSeq(R, 1, most)
             rest == SubSeq(R, HeadLimit + 1, N)
  <1>8. most = a
    BY <1>1, <1>4, <1>6
  <1>9. h = first
    <2>1. \A i \in 1 .. a : i \in 1 .. N
      BY <1>1, <1>4
    <2>2. first \in Seq(SampleT) /\ Len(first) = (IF 1 <= a THEN a - 1 + 1 ELSE 0) /\ \A i \in 1 .. a - 1 + 1 : first[i] = R[1 + i - 1]
      BY <1>7, <1>8, <2>1, SubSeqProperties
    <2> HIDE DEF first
    <2>3. Len(first) = a
      BY <2>2
    <2>4. ASSUME NEW i \in 1 .. a PROVE first[i] = h[i]
      <3>1. i \in 1 .. a - 1 + 1 /\ 1 + i - 1 = i
        OBVIOUS
      <3> QED
        BY <3>1, <2>2, <1>6
    <2> QED
      BY <1>1, <1>2, <2>2, <2>3, <2>4, SeqEqual
  <1>10. rest \in Seq(SampleT) /\ Len(rest) = d + b /\ \A i \in 1 .. d + b : rest[i] = R[a + i]
    <2>1. PICK f \in Nat : f = HeadLimit + 1
      BY <1>1
    <2>2. \A i \in f .. N : i \in 1 .. N
      BY <1>1, <2>1
    <2> DEFINE g == SubSeq(R, f, N)
    <2>3. g \in Seq(SampleT) /\ Len(g) = (IF f <= N THEN N - f + 1 ELSE 0) /\ \A i \in 1 .. N - f + 1 : g[i] = R[f + i - 1]
      BY <1>7, <2>2, SubSeqProperties
    <2> HIDE DEF g
    <2>4. Len(g) = d + b
      <3>1. CASE d + b = 0
        BY <3>1, <1>1, <1>4, <1>6, <2>1, <2>3
      <3>2. CASE d + b # 0
        <4>1. a = HeadLimit
          BY <3>2, <1>1, <1>6
        <4>2. N - f + 1 = d + b /\ f <= N
          BY <4>1, <3>2, <1>1, <1>4, <2>1
        <4> QED
          BY <4>2, <2>3
      <3> QED
        BY <3>1, <3>2
    <2>5. ASSUME NEW i \in 1 .. d + b PROVE g[i] = R[a + i]
      <3>0. d + b # 0 /\ i \in Nat
        BY <1>1
      <3>1. a = HeadLimit
        BY <3>0, <1>1, <1>6
      <3>2. i \in 1 .. N - f + 1 /\ f + i - 1 = a + i
        BY <3>1, <3>0, <1>1, <1>4, <2>1
      <3> QED
        BY <3>2, <2>3
    <2>6. rest = g
      BY <2>1 DEF g
    <2> QED
      BY <2>3, <2>4, <2>5, <2>6
  <1> HIDE DEF rest, first, most
  <1> DEFINE skip == IF Len(rest) > TailLimit THEN Len(rest) - TailLimit ELSE 0
  <1>11. skip = d
    BY <1>1, <1>6, <1>10
  <1> HIDE DEF skip
  <1>12. t = SubSeq(rest, skip + 1, Len(rest))
    <2>1. PICK f \in Nat : f = d + 1
      BY <1>1
    <2>2. PICK l \in Nat : l = d + b
      BY <1>1
    <2>3. \A i \in f .. l : rest[i] \in SampleT
      <3>1. \A i \in f .. l : i \in 1 .. l
        BY <1>1, <2>1
      <3>2. l = Len(rest)
        BY <1>10, <2>2
      <3> QED
        BY <3>1, <3>2, <1>10, ElementOfSeq
    <2> DEFINE g == SubSeq(rest, f, l)
    <2>4. g \in Seq(SampleT) /\ Len(g) = (IF f <= l THEN l - f + 1 ELSE 0) /\ \A i \in 1 .. l - f + 1 : g[i] = rest[f + i - 1]
      BY <2>3, SubSeqProperties
    <2> HIDE DEF g
    <2>5. Len(g) = b
      BY <1>1, <2>1, <2>2, <2>4
    <2>6. ASSUME NEW i \in 1 .. b PROVE g[i] = t[i]
      <3>1. i \in 1 .. l - f + 1 /\ f + i - 1 = d + i /\ d + i \in 1 .. d + b /\ a + (d + i) = a + d + i
        BY <1>1, <2>1, <2>2
      <3> QED
        BY <3>1, <2>4, <1>6, <1>10
    <2>7. t = g
      BY <1>1, <1>3, <2>4, <2>5, <2>6, SeqEqual
    <2> QED
      BY <2>7, <2>1, <2>2, <1>10, <1>11 DEF g
  <1>13. Window(ps) = [head |-> first, tail |-> SubSeq(rest, skip + 1, Len(rest)), dropped |-> skip]
    BY <1>6 DEF Window, R, first, rest, most, skip
  <1> QED
    BY <1>9, <1>11, <1>12, <1>13

-----------------------------------------------------------------------------
(* The recorder *)

RecT ==
  [head : Seq(SampleT), tail : Seq(SampleT), dropped : Nat, total : Nat, fails : Nat, errors : Nat, changes : Nat,
   since : Nat, uncomparable : BOOLEAN, lastChange : Nat, class : {NoClass} \cup {ClassOf[e] : e \in Exc},
   mixed : BOOLEAN, lastOutcome : {"none", "fail", "error"}, lastKey : Key \cup {NoKey}]

\* The counters of c are those of r after poll p.
Counts(c, r, p) ==
  LET moved == r.lastKey # NoKey /\ p.what # r.lastKey
      keyed == p.outcome = "fail" /\ p.what # Unkeyed
  IN
  /\ c.lastOutcome = p.outcome
  /\ c.fails = IF p.outcome = "fail" THEN r.fails + 1 ELSE r.fails
  /\ c.errors = IF p.outcome = "error" THEN r.errors + 1 ELSE r.errors
  /\ c.uncomparable = (r.uncomparable \/ (p.outcome = "fail" /\ p.what = Unkeyed))
  /\ c.lastKey = IF keyed THEN p.what ELSE r.lastKey
  /\ c.changes = IF keyed /\ moved THEN r.changes + 1 ELSE r.changes
  /\ c.since = IF p.outcome = "error" THEN 0 ELSE IF keyed /\ moved THEN r.since + 1 ELSE r.since
  /\ c.lastChange = IF keyed /\ moved THEN p.at ELSE r.lastChange
  /\ c.class = IF p.outcome = "error" /\ r.class = NoClass THEN ClassOf[p.what] ELSE r.class
  /\ c.mixed = (r.mixed \/ (p.outcome = "error" /\ r.class \notin {NoClass, ClassOf[p.what]}))

LEMMA CountedIs ==
  ASSUME NEW r, r \in RecT, NEW p \in Poll
  PROVE  LET c == [Counted(r, p) EXCEPT !.total = @ + 1, !.lastOutcome = p.outcome]
         IN  c \in RecT /\ c.head = r.head /\ c.tail = r.tail /\ c.dropped = r.dropped /\ Counts(c, r, p)
  <1> DEFINE Classes == {NoClass} \cup {ClassOf[x] : x \in Exc}
  <1>0. p.outcome \in {"fail", "error"} /\ p.at \in Nat
        /\ (p.outcome = "error" => p.what \in Exc) /\ (p.outcome = "fail" /\ p.what # Unkeyed => p.what \in Key)
    BY DEF Poll
  <1>1. /\ r.total \in Nat /\ r.fails \in Nat /\ r.errors \in Nat /\ r.changes \in Nat /\ r.since \in Nat
        /\ r.lastChange \in Nat /\ r.class \in Classes /\ r.mixed \in BOOLEAN
    BY DEF RecT
  <1> HIDE DEF Classes
  <1>2. PICK total \in Nat : total = r.total + 1
    BY <1>1
  <1>3. CASE p.outcome = "error"
    <2>1. PICK errors \in Nat : errors = r.errors + 1
      BY <1>1
    <2>2. PICK class \in Classes : class = IF r.class = NoClass THEN ClassOf[p.what] ELSE r.class
      BY <1>0, <1>1, <1>3 DEF Classes
    <2>3. PICK mixed \in BOOLEAN : mixed = (r.mixed \/ r.class \notin {NoClass, ClassOf[p.what]})
      BY <1>1
    <2> DEFINE d == [r EXCEPT !.errors = errors, !.since = 0, !.class = class, !.mixed = mixed]
               c == [d EXCEPT !.total = total, !.lastOutcome = "error"]
    <2>4. d \in RecT
      BY DEF RecT, Classes
    <2>5. [Counted(r, p) EXCEPT !.total = @ + 1, !.lastOutcome = p.outcome] = c
      <3>1. Counted(r, p) = d
        BY <1>3, <2>1, <2>2, <2>3 DEF Counted
      <3>2. d.total = r.total
        BY DEF RecT
      <3> QED
        BY <3>1, <3>2, <1>2, <1>3
    <2>6. c \in RecT
      <3> HIDE DEF d
      <3> QED
        BY <2>4 DEF RecT
    <2>7. c.head = r.head /\ c.tail = r.tail /\ c.dropped = r.dropped /\ Counts(c, r, p)
      BY <1>3, <2>1, <2>2, <2>3 DEF RecT, Counts
    <2> QED
      BY <2>5, <2>6, <2>7
  <1>4. CASE p.outcome = "fail" /\ p.what = Unkeyed
    <2>1. PICK fails \in Nat : fails = r.fails + 1
      BY <1>1
    <2> DEFINE d == [r EXCEPT !.fails = fails, !.uncomparable = TRUE]
               c == [d EXCEPT !.total = total, !.lastOutcome = "fail"]
    <2>4. d \in RecT
      BY DEF RecT
    <2>5. [Counted(r, p) EXCEPT !.total = @ + 1, !.lastOutcome = p.outcome] = c
      <3>1. Counted(r, p) = d
        BY <1>4, <2>1 DEF Counted
      <3>2. d.total = r.total
        BY DEF RecT
      <3> QED
        BY <3>1, <3>2, <1>2, <1>4
    <2>6. c \in RecT
      <3> HIDE DEF d
      <3> QED
        BY <2>4 DEF RecT
    <2>7. c.head = r.head /\ c.tail = r.tail /\ c.dropped = r.dropped /\ Counts(c, r, p)
      BY <1>4, <2>1 DEF RecT, Counts
    <2> QED
      BY <2>5, <2>6, <2>7
  <1>5. CASE p.outcome = "fail" /\ p.what # Unkeyed
    <2> DEFINE moved == r.lastKey # NoKey /\ p.what # r.lastKey
    <2>1. PICK fails \in Nat : fails = r.fails + 1
      BY <1>1
    <2>2. PICK changes \in Nat : changes = IF moved THEN r.changes + 1 ELSE r.changes
      BY <1>1
    <2>3. PICK since \in Nat : since = IF moved THEN r.since + 1 ELSE r.since
      BY <1>1
    <2>8. PICK last \in Nat : last = IF moved THEN p.at ELSE r.lastChange
      BY <1>0, <1>1
    <2>9. PICK k \in Key : k = p.what
      BY <1>0, <1>5
    <2> DEFINE d == [r EXCEPT !.fails = fails, !.lastKey = k, !.changes = changes, !.since = since, !.lastChange = last]
               c == [d EXCEPT !.total = total, !.lastOutcome = "fail"]
    <2>4. d \in RecT
      BY DEF RecT
    <2>5. [Counted(r, p) EXCEPT !.total = @ + 1, !.lastOutcome = p.outcome] = c
      <3>1. Counted(r, p) = d
        BY <1>5, <2>1, <2>2, <2>3, <2>8, <2>9 DEF Counted
      <3>2. d.total = r.total
        BY DEF RecT
      <3> QED
        BY <3>1, <3>2, <1>2, <1>5
    <2>6. c \in RecT
      <3> HIDE DEF d
      <3> QED
        BY <2>4 DEF RecT
    <2>7. c.head = r.head /\ c.tail = r.tail /\ c.dropped = r.dropped /\ Counts(c, r, p)
      BY <1>5, <2>1, <2>2, <2>3, <2>8, <2>9 DEF RecT, Counts
    <2> QED
      BY <2>5, <2>6, <2>7
  <1> QED
    BY <1>0, <1>3, <1>4, <1>5

Shows(r, ps) == WindowIs(r.head, r.tail, r.dropped, RunsOf(ps))

LEMMA RecordedShows ==
  ASSUME NEW r \in RecT, NEW ps, PollsHold(ps), Shows(r, ps), NEW p \in Poll
  PROVE  Recorded(r, p) \in RecT /\ Counts(Recorded(r, p), r, p) /\ Shows(Recorded(r, p), Append(ps, p))
  <1> DEFINE c == [Counted(r, p) EXCEPT !.total = @ + 1, !.lastOutcome = p.outcome]
             R == RunsOf(ps)
             Q == RunsOf(Append(ps, p))
             h == r.head
             t == r.tail
             d == r.dropped
  <1>1. c \in RecT /\ c.head = h /\ c.tail = t /\ c.dropped = d /\ Counts(c, r, p)
    BY CountedIs
  <1>2. WindowIs(h, t, d, R)
    BY DEF Shows
  <1>3. Kept(r) = h \o t
    BY DEF Kept
  <1>4. /\ h \o t # <<>> <=> Len(R) # 0
        /\ Len(R) # 0 => Last(h \o t) = R[Len(R)]
    BY <1>2, LastKept
  <1> DEFINE again == Len(R) # 0 /\ Repeats(R[Len(R)], p)
  <1>5. Recorded(r, p) = IF again THEN Collapsed(c) ELSE KeptNew(c, p)
    BY <1>3, <1>4 DEF Recorded
  <1>6. Q = IF again THEN Again(R) ELSE Append(R, Sample(p))
    BY RunsGrow DEF Again
  <1> HIDE DEF c, R, Q, h, t, d
  <1>7. Sample(p) \in SampleT
    BY DEF Sample, SampleT, Poll
  <1>8. h \in Seq(SampleT) /\ t \in Seq(SampleT) /\ d \in Nat
    BY <1>2 DEF WindowIs
  <1>9. CASE again
    <2>1. IF t # <<>> THEN WindowIs(h, Again(t), d, Again(R)) ELSE WindowIs(Again(h), t, d, Again(R))
      BY <1>2, <1>9, WindowAgain
    <2>2. CASE t # <<>>
      <3>1. WindowIs(h, Again(t), d, Q)
        BY <1>6, <1>9, <2>1, <2>2
      <3>2. Collapsed(c) = [c EXCEPT !.tail = Again(t)]
        BY <1>1, <2>2 DEF Collapsed, Again
      <3>3. Again(t) \in Seq(SampleT)
        BY <3>1 DEF WindowIs
      <3> DEFINE e == [c EXCEPT !.tail = Again(t)]
      <3>4. e \in RecT /\ e.head = h /\ e.tail = Again(t) /\ e.dropped = d /\ Counts(e, r, p)
        BY <1>1, <3>3 DEF RecT, Counts
      <3>5. Recorded(r, p) = e
        BY <1>5, <1>9, <3>2
      <3> HIDE DEF e
      <3> QED
        BY <3>1, <3>4, <3>5 DEF Shows, Q
    <2>3. CASE t = <<>>
      <3>1. WindowIs(Again(h), t, d, Q)
        BY <1>6, <1>9, <2>1, <2>3
      <3>2. Collapsed(c) = [c EXCEPT !.head = Again(h)]
        BY <1>1, <2>3 DEF Collapsed, Again
      <3>3. Again(h) \in Seq(SampleT)
        BY <3>1 DEF WindowIs
      <3> DEFINE e == [c EXCEPT !.head = Again(h)]
      <3>4. e \in RecT /\ e.head = Again(h) /\ e.tail = t /\ e.dropped = d /\ Counts(e, r, p)
        BY <1>1, <3>3 DEF RecT, Counts
      <3>5. Recorded(r, p) = e
        BY <1>5, <1>9, <3>2
      <3> HIDE DEF e
      <3> QED
        BY <3>1, <3>4, <3>5 DEF Shows, Q
    <2> QED
      BY <2>2, <2>3
  <1>10. CASE ~again
    <2>0. Recorded(r, p) = KeptNew(c, p) /\ Q = Append(R, Sample(p))
      BY <1>5, <1>6, <1>10
    <2>1. CASE Len(h) < HeadLimit
      <3>1. WindowIs(Append(h, Sample(p)), t, d, Q)
        BY <1>2, <1>7, <2>0, <2>1, HeadGrows
      <3> DEFINE e == [c EXCEPT !.head = Append(h, Sample(p))]
      <3>2. Append(h, Sample(p)) \in Seq(SampleT)
        BY <3>1 DEF WindowIs
      <3>3. e \in RecT /\ e.head = Append(h, Sample(p)) /\ e.tail = t /\ e.dropped = d /\ Counts(e, r, p)
        BY <1>1, <3>2 DEF RecT, Counts
      <3>4. Recorded(r, p) = e
        BY <1>1, <2>0, <2>1 DEF KeptNew
      <3> HIDE DEF e
      <3> QED
        BY <3>1, <3>3, <3>4 DEF Shows, Q
    <2>2. CASE ~ Len(h) < HeadLimit /\ Len(t) < TailLimit
      <3>1. WindowIs(h, Append(t, Sample(p)), d, Q)
        BY <1>2, <1>7, <2>0, <2>2, TailGrows
      <3> DEFINE e == [c EXCEPT !.tail = Append(t, Sample(p))]
      <3>2. Append(t, Sample(p)) \in Seq(SampleT)
        BY <3>1 DEF WindowIs
      <3>3. e \in RecT /\ e.head = h /\ e.tail = Append(t, Sample(p)) /\ e.dropped = d /\ Counts(e, r, p)
        BY <1>1, <3>2 DEF RecT, Counts
      <3>4. Recorded(r, p) = e
        BY <1>1, <2>0, <2>2 DEF KeptNew
      <3> HIDE DEF e
      <3> QED
        BY <3>1, <3>3, <3>4 DEF Shows, Q
    <2>3. CASE ~ Len(h) < HeadLimit /\ ~ Len(t) < TailLimit
      <3>1. WindowIs(h, Append(Tail(t), Sample(p)), d + 1, Q)
        BY <1>2, <1>7, <2>0, <2>3, TailGrows
      <3> DEFINE e == [c EXCEPT !.tail = Append(Tail(t), Sample(p)), !.dropped = @ + 1]
      <3>2. Append(Tail(t), Sample(p)) \in Seq(SampleT) /\ d + 1 \in Nat
        BY <3>1 DEF WindowIs
      <3>3. e \in RecT /\ e.head = h /\ e.tail = Append(Tail(t), Sample(p)) /\ e.dropped = d + 1 /\ Counts(e, r, p)
        BY <1>1, <3>2 DEF RecT, Counts
      <3>4. Recorded(r, p) = e
        BY <1>1, <2>0, <2>3 DEF KeptNew
      <3> HIDE DEF e
      <3> QED
        BY <3>1, <3>3, <3>4 DEF Shows, Q
    <2> QED
      BY <2>1, <2>2, <2>3
  <1> QED
    BY <1>9, <1>10

-----------------------------------------------------------------------------
(* What the counters say of all the polls *)

Keyed(ps) == {i \in Fails(ps) : ps[i].what # Unkeyed}

CountsFails(r, ps) ==
  /\ IsFiniteSet(Fails(ps)) /\ r.fails = Cardinality(Fails(ps))
  /\ IsFiniteSet(Errors(ps)) /\ r.errors = Cardinality(Errors(ps))
  /\ ps # <<>> => r.lastOutcome = ps[Len(ps)].outcome
  /\ r.uncomparable <=> \E i \in Fails(ps) : ps[i].what = Unkeyed

NamesClass(r, ps) ==
  /\ r.class = NoClass <=> Errors(ps) = {}
  /\ r.class # NoClass => \E i \in Errors(ps) : ClassOf[ps[i].what] = r.class
  /\ ~r.mixed => \A i \in Errors(ps) : ClassOf[ps[i].what] = r.class
  /\ r.mixed => \E i, j \in Errors(ps) : ClassOf[ps[i].what] # ClassOf[ps[j].what]

KnowsKey(r, ps) ==
  /\ r.lastKey = NoKey <=> Keyed(ps) = {}
  /\ Keyed(ps) # {} => \E j \in Keyed(ps) : (\A k \in Keyed(ps) : k <= j) /\ ps[j].what = r.lastKey

CountsMoves(r, ps) ==
  /\ IsFiniteSet(Moves(ps)) /\ r.changes = Cardinality(Moves(ps))
  /\ r.since = Cardinality(SinceRaised(ps))
  /\ Moves(ps) # {} => \E i \in Moves(ps) : (\A j \in Moves(ps) : j <= i) /\ ps[i].at = r.lastChange
  /\ Moves(ps) = {} => \A i \in Keyed(ps) : ps[i].what = r.lastKey

Facts(r, ps) == CountsFails(r, ps) /\ NamesClass(r, ps) /\ KnowsKey(r, ps) /\ CountsMoves(r, ps)

\* Poll p comes at n + 1.
Comes(q, ps, p, n) ==
  /\ ps \in Seq(Poll) /\ q \in Seq(Poll) /\ p \in Poll /\ n \in Nat /\ Len(q) = n + 1
  /\ DOMAIN ps = 1 .. n /\ DOMAIN q = 1 .. n + 1 /\ q[n + 1] = p
  /\ \A i \in 1 .. n : q[i] = ps[i]
  /\ \A i : i \in 1 .. n + 1 <=> i \in 1 .. n \/ i = n + 1
  /\ n + 1 \notin 1 .. n /\ \A i \in 1 .. n : i < n + 1 /\ i \in Nat

LEMMA ItComes ==
  ASSUME NEW ps \in Seq(Poll), NEW p \in Poll
  PROVE  Comes(Append(ps, p), ps, p, Len(ps))
  <1>1. PICK n \in Nat : n = Len(ps)
    BY LenProperties
  <1>2. /\ DOMAIN ps = 1 .. n /\ DOMAIN Append(ps, p) = 1 .. n + 1 /\ Append(ps, p)[n + 1] = p
        /\ Append(ps, p) \in Seq(Poll) /\ Len(Append(ps, p)) = n + 1
        /\ \A i \in 1 .. n : Append(ps, p)[i] = ps[i]
    BY <1>1, Appended
  <1>3. /\ \A i : i \in 1 .. n + 1 <=> i \in 1 .. n \/ i = n + 1
        /\ n + 1 \notin 1 .. n /\ \A i \in 1 .. n : i < n + 1 /\ i \in Nat
    OBVIOUS
  <1> QED
    BY <1>1, <1>2, <1>3 DEF Comes

LEMMA SetsGrow ==
  ASSUME NEW q, NEW ps, NEW p, NEW n, Comes(q, ps, p, n)
  PROVE  /\ Fails(ps) \subseteq 1 .. n /\ Errors(ps) \subseteq 1 .. n
         /\ Fails(q) = IF p.outcome = "fail" THEN Fails(ps) \cup {n + 1} ELSE Fails(ps)
         /\ Errors(q) = IF p.outcome = "error" THEN Errors(ps) \cup {n + 1} ELSE Errors(ps)
         /\ Keyed(q) = IF p.outcome = "fail" /\ p.what # Unkeyed THEN Keyed(ps) \cup {n + 1} ELSE Keyed(ps)
         /\ Keyed(ps) \subseteq 1 .. n
  <1> USE DEF Comes
  <1>1. Fails(ps) \subseteq 1 .. n /\ Errors(ps) \subseteq 1 .. n /\ Keyed(ps) \subseteq 1 .. n
    BY DEF Fails, Errors, Keyed
  <1>2. \A i : i \in Fails(q) <=> i \in Fails(ps) \/ (i = n + 1 /\ p.outcome = "fail")
    BY DEF Fails
  <1>3. \A i : i \in Errors(q) <=> i \in Errors(ps) \/ (i = n + 1 /\ p.outcome = "error")
    BY DEF Errors
  <1>4. \A i : i \in Keyed(q) <=> i \in Keyed(ps) \/ (i = n + 1 /\ p.outcome = "fail" /\ p.what # Unkeyed)
    BY <1>1, <1>2 DEF Keyed
  <1>5. Fails(q) = IF p.outcome = "fail" THEN Fails(ps) \cup {n + 1} ELSE Fails(ps)
    BY <1>2
  <1>6. Errors(q) = IF p.outcome = "error" THEN Errors(ps) \cup {n + 1} ELSE Errors(ps)
    BY <1>3
  <1>7. Keyed(q) = IF p.outcome = "fail" /\ p.what # Unkeyed THEN Keyed(ps) \cup {n + 1} ELSE Keyed(ps)
    BY <1>4
  <1> QED
    BY <1>1, <1>5, <1>6, <1>7

LEMMA OneMore ==
  ASSUME NEW S, IsFiniteSet(S), NEW x, x \notin S
  PROVE  IsFiniteSet(S \cup {x}) /\ Cardinality(S \cup {x}) = Cardinality(S) + 1
  BY FS_AddElement

LEMMA FailsCounted ==
  ASSUME NEW q, NEW ps, NEW p, NEW n, Comes(q, ps, p, n), NEW r, CountsFails(r, ps), NEW c, Counts(c, r, p)
  PROVE  CountsFails(c, q)
  <1>1. p.outcome \in {"fail", "error"} /\ p.outcome \in {"fail"} <=> ~(p.outcome = "error")
    BY DEF Comes, Poll
  <1>2. n + 1 \notin Fails(ps) /\ n + 1 \notin Errors(ps)
    BY SetsGrow DEF Comes
  <1>3. IsFiniteSet(Fails(q)) /\ c.fails = Cardinality(Fails(q))
    <2>1. CASE p.outcome = "fail"
      <3>1. Fails(q) = Fails(ps) \cup {n + 1} /\ c.fails = r.fails + 1
        BY <2>1, SetsGrow DEF Counts
      <3> QED
        BY <3>1, <1>2, OneMore DEF CountsFails
    <2>2. CASE p.outcome # "fail"
      <3>1. Fails(q) = Fails(ps) /\ c.fails = r.fails
        BY <2>2, SetsGrow DEF Counts
      <3> QED
        BY <3>1 DEF CountsFails
    <2> QED
      BY <2>1, <2>2
  <1>4. IsFiniteSet(Errors(q)) /\ c.errors = Cardinality(Errors(q))
    <2>1. CASE p.outcome = "error"
      <3>1. Errors(q) = Errors(ps) \cup {n + 1} /\ c.errors = r.errors + 1
        BY <2>1, SetsGrow DEF Counts
      <3> QED
        BY <3>1, <1>2, OneMore DEF CountsFails
    <2>2. CASE p.outcome # "error"
      <3>1. Errors(q) = Errors(ps) /\ c.errors = r.errors
        BY <2>2, SetsGrow DEF Counts
      <3> QED
        BY <3>1 DEF CountsFails
    <2> QED
      BY <2>1, <2>2
  <1>5. q # <<>> => c.lastOutcome = q[Len(q)].outcome
    BY DEF Comes, Counts
  <1>6. c.uncomparable <=> \E i \in Fails(q) : q[i].what = Unkeyed
    <2>1. \A i : i \in Fails(q) <=> i \in Fails(ps) \/ (i = n + 1 /\ p.outcome = "fail")
      BY SetsGrow
    <2>2. \A i \in Fails(ps) : q[i] = ps[i]
      BY SetsGrow DEF Comes
    <2>3. q[n + 1] = p
      BY DEF Comes
    <2>4. c.uncomparable <=> r.uncomparable \/ (p.outcome = "fail" /\ p.what = Unkeyed)
      BY DEF Counts
    <2>5. r.uncomparable <=> \E i \in Fails(ps) : ps[i].what = Unkeyed
      BY DEF CountsFails
    <2> QED
      BY <2>1, <2>2, <2>3, <2>4, <2>5
  <1> QED
    BY <1>3, <1>4, <1>5, <1>6 DEF CountsFails

LEMMA ClassNamed ==
  ASSUME NEW q, NEW ps, NEW p, NEW n, Comes(q, ps, p, n), NEW r, NamesClass(r, ps), NEW c, Counts(c, r, p)
  PROVE  NamesClass(c, q)
  <1>1. \A i : i \in Errors(q) <=> i \in Errors(ps) \/ (i = n + 1 /\ p.outcome = "error")
    BY SetsGrow
  <1>2. q[n + 1] = p /\ \A i \in Errors(ps) : q[i] = ps[i]
    BY SetsGrow DEF Comes
  <1>3. p.outcome = "error" => ClassOf[p.what] # NoClass
    BY NonesAreNone DEF Comes, Poll
  <1>4. CASE p.outcome = "error"
    <2>1. n + 1 \in Errors(q) /\ ClassOf[q[n + 1].what] = ClassOf[p.what]
      BY <1>1, <1>2, <1>4
    <2>2. /\ c.class = IF r.class = NoClass THEN ClassOf[p.what] ELSE r.class
          /\ c.mixed <=> r.mixed \/ r.class \notin {NoClass, ClassOf[p.what]}
      BY <1>4 DEF Counts
    <2>3. CASE r.class = NoClass
      <3>1. Errors(ps) = {} /\ ~r.mixed
        BY <2>3 DEF NamesClass
      <3> QED
        BY <1>1, <1>2, <1>3, <1>4, <2>1, <2>2, <2>3, <3>1 DEF NamesClass
    <2>4. CASE r.class # NoClass
      <3>1. PICK e \in Errors(ps) : ClassOf[ps[e].what] = r.class
        BY <2>4 DEF NamesClass
      <3>2. e \in Errors(q) /\ ClassOf[q[e].what] = r.class /\ c.class = r.class
        BY <1>1, <1>2, <2>2, <2>4, <3>1
      <3>3. c.mixed => \E i, j \in Errors(q) : ClassOf[q[i].what] # ClassOf[q[j].what]
        <4>1. CASE r.mixed
          BY <4>1, <1>1, <1>2 DEF NamesClass
        <4>2. CASE r.class # ClassOf[p.what]
          BY <4>2, <2>1, <3>2
        <4> QED
          BY <4>1, <4>2, <2>2, <2>4
      <3>4. ~c.mixed => \A i \in Errors(q) : ClassOf[q[i].what] = c.class
        BY <1>1, <1>2, <2>1, <2>2, <2>4, <3>2 DEF NamesClass
      <3> QED
        BY <2>4, <3>2, <3>3, <3>4 DEF NamesClass
    <2> QED
      BY <2>3, <2>4
  <1>5. CASE p.outcome # "error"
    <2>1. c.class = r.class /\ (c.mixed <=> r.mixed) /\ Errors(q) = Errors(ps)
      BY <1>1, <1>5 DEF Counts
    <2> QED
      BY <1>2, <2>1 DEF NamesClass
  <1> QED
    BY <1>4, <1>5

LEMMA KeyKnown ==
  ASSUME NEW q, NEW ps, NEW p, NEW n, Comes(q, ps, p, n), NEW r, KnowsKey(r, ps), NEW c, Counts(c, r, p)
  PROVE  KnowsKey(c, q)
  <1>1. CASE p.outcome = "fail" /\ p.what # Unkeyed
    <2>1. Keyed(q) = Keyed(ps) \cup {n + 1} /\ c.lastKey = p.what /\ q[n + 1] = p
      <3>1. Keyed(q) = Keyed(ps) \cup {n + 1}
        BY <1>1, SetsGrow
      <3>2. c.lastKey = p.what
        BY <1>1 DEF Counts
      <3>3. q[n + 1] = p
        BY DEF Comes
      <3> QED
        BY <3>1, <3>2, <3>3
    <2>2. p.what \in Key /\ p.what # NoKey
      BY <1>1, NonesAreNone DEF Comes, Poll
    <2>3. \A k \in Keyed(q) : k <= n + 1
      <3>1. n \in Nat /\ \A k \in 1 .. n : k <= n + 1
        BY DEF Comes
      <3>2. Keyed(ps) \subseteq 1 .. n
        BY SetsGrow
      <3> QED
        BY <2>1, <3>1, <3>2
    <2> QED
      BY <2>1, <2>2, <2>3 DEF KnowsKey
  <1>2. CASE ~(p.outcome = "fail" /\ p.what # Unkeyed)
    <2>1. Keyed(q) = Keyed(ps) /\ c.lastKey = r.lastKey
      BY <1>2, SetsGrow DEF Counts
    <2>2. \A i \in Keyed(ps) : q[i] = ps[i]
      BY SetsGrow DEF Comes
    <2> QED
      BY <2>1, <2>2 DEF KnowsKey
  <1> QED
    BY <1>1, <1>2

LEMMA MovesGrow ==
  ASSUME NEW q, NEW ps, NEW p, NEW n, Comes(q, ps, p, n), NEW r, KnowsKey(r, ps)
  PROVE  LET moves == p.outcome = "fail" /\ p.what # Unkeyed /\ r.lastKey # NoKey /\ p.what # r.lastKey
         IN  Moves(ps) \subseteq 1 .. n /\ Moves(q) = IF moves THEN Moves(ps) \cup {n + 1} ELSE Moves(ps)
  <1> DEFINE moves == p.outcome = "fail" /\ p.what # Unkeyed /\ r.lastKey # NoKey /\ p.what # r.lastKey
  <1>1. /\ Fails(ps) \subseteq 1 .. n /\ Keyed(ps) \subseteq 1 .. n
        /\ \A i : i \in Fails(q) <=> i \in Fails(ps) \/ (i = n + 1 /\ p.outcome = "fail")
    BY SetsGrow
  <1>2. ASSUME NEW i \in 1 .. n PROVE i \in Moves(q) <=> i \in Moves(ps)
    <2>1. i \in Fails(q) <=> i \in Fails(ps)
      BY <1>1 DEF Comes
    <2>2. \A j : j \in Before(q, i) <=> j \in Before(ps, i)
      <3>1. \A j : j < i /\ j \in Fails(q) => j \in Fails(ps) /\ q[j] = ps[j]
        <4>1. ~ n + 1 < i
          BY DEF Comes
        <4> QED
          BY <4>1, <1>1 DEF Comes
      <3>2. \A j \in Fails(ps) : j \in Fails(q) /\ q[j] = ps[j]
        BY <1>1 DEF Comes
      <3> QED
        BY <3>1, <3>2 DEF Before
    <2>3. Before(q, i) = Before(ps, i) /\ q[i] = ps[i] /\ \A j \in Before(ps, i) : q[j] = ps[j]
      BY <2>2, <1>1 DEF Comes, Before
    <2>4. Moved(q, i) <=> Moved(ps, i)
      BY <2>1, <2>3 DEF Moved
    <2> QED
      BY <2>4 DEF Moves, Comes
  <1>3. n + 1 \in Moves(q) <=> moves
    <2>1. \A j : j \in Before(q, n + 1) <=> j \in Keyed(ps)
      <3>1. \A j : j \in Fails(q) /\ j < n + 1 <=> j \in Fails(ps)
        <4>1. ~ n + 1 < n + 1
          BY DEF Comes
        <4> QED
          BY <4>1, <1>1 DEF Comes
      <3>2. \A j \in Fails(ps) : q[j] = ps[j]
        BY <1>1 DEF Comes
      <3> QED
        BY <3>1, <3>2 DEF Before, Keyed
    <2>2. Before(q, n + 1) = Keyed(ps) /\ \A j \in Keyed(ps) : q[j] = ps[j] /\ j \in Nat
      BY <2>1, <1>1 DEF Comes
    <2>3. Moved(q, n + 1) <=> /\ p.outcome = "fail" /\ p.what # Unkeyed
                              /\ \E j \in Keyed(ps) : (\A k \in Keyed(ps) : k <= j) /\ ps[j].what # p.what
      <3>1. n + 1 \in Fails(q) <=> p.outcome = "fail"
        BY <1>1 DEF Comes
      <3>2. q[n + 1] = p
        BY DEF Comes
      <3> QED
        BY <3>1, <3>2, <2>2 DEF Moved
    <2>4. (\E j \in Keyed(ps) : (\A k \in Keyed(ps) : k <= j) /\ ps[j].what # p.what)
            <=> r.lastKey # NoKey /\ p.what # r.lastKey
      <3>1. CASE Keyed(ps) = {}
        BY <3>1 DEF KnowsKey
      <3>2. CASE Keyed(ps) # {}
        <4>1. PICK j \in Keyed(ps) : (\A k \in Keyed(ps) : k <= j) /\ ps[j].what = r.lastKey
          BY <3>2 DEF KnowsKey
        <4>2. \A i \in Keyed(ps) : (\A k \in Keyed(ps) : k <= i) => i = j
          <5>1. SUFFICES ASSUME NEW i \in Keyed(ps), \A k \in Keyed(ps) : k <= i PROVE i = j
            OBVIOUS
          <5>2. i <= j /\ j <= i /\ i \in Nat /\ j \in Nat
            BY <5>1, <4>1, <2>2
          <5> QED
            BY <5>2
        <4>3. r.lastKey # NoKey
          BY <3>2 DEF KnowsKey
        <4> QED
          BY <4>1, <4>2, <4>3
      <3> QED
        BY <3>1, <3>2
    <2>5. n + 1 \in DOMAIN q
      BY DEF Comes
    <2> QED
      BY <2>3, <2>4, <2>5 DEF Moves
  <1>4. Moves(ps) \subseteq 1 .. n /\ Moves(q) \subseteq 1 .. n + 1
    BY DEF Moves, Comes
  <1> HIDE DEF moves
  <1>5. \A i : i \in Moves(q) <=> i \in Moves(ps) \/ (i = n + 1 /\ moves)
    BY <1>2, <1>3, <1>4 DEF Comes
  <1>6. Moves(q) = IF moves THEN Moves(ps) \cup {n + 1} ELSE Moves(ps)
    BY <1>5
  <1> QED
    BY <1>4, <1>6 DEF moves

LEMMA MovesCounted ==
  ASSUME NEW q, NEW ps, NEW p, NEW n, Comes(q, ps, p, n), NEW r, KnowsKey(r, ps), CountsMoves(r, ps),
         NEW c, Counts(c, r, p)
  PROVE  CountsMoves(c, q)
  <1> DEFINE moves == p.outcome = "fail" /\ p.what # Unkeyed /\ r.lastKey # NoKey /\ p.what # r.lastKey
  <1>1. Moves(ps) \subseteq 1 .. n /\ Moves(q) = IF moves THEN Moves(ps) \cup {n + 1} ELSE Moves(ps)
    BY MovesGrow
  <1>2. /\ c.changes = IF moves THEN r.changes + 1 ELSE r.changes
        /\ c.since = IF p.outcome = "error" THEN 0 ELSE IF moves THEN r.since + 1 ELSE r.since
        /\ c.lastChange = IF moves THEN p.at ELSE r.lastChange
        /\ moves => p.outcome # "error"
    BY DEF Counts
  <1>3. \A i \in Moves(ps) : q[i] = ps[i] /\ i <= n + 1 /\ i # n + 1 /\ ~ n + 1 < i
    <2>1. \A i \in 1 .. n : i <= n + 1 /\ i # n + 1 /\ ~ n + 1 < i
      BY DEF Comes
    <2> QED
      BY <1>1, <2>1 DEF Comes
  <1>4. n + 1 <= n + 1 /\ ~ n + 1 < n + 1 /\ n + 1 \notin Moves(ps) /\ q[n + 1] = p
    BY <1>1 DEF Comes
  <1>5. KnowsKey(c, q)
    BY KeyKnown
  <1>6. moves => c.lastKey = p.what
    BY DEF Counts
  <1>a. IsFiniteSet(Moves(ps)) /\ r.changes = Cardinality(Moves(ps)) /\ r.since = Cardinality(SinceRaised(ps))
    BY DEF CountsMoves
  <1>7. IsFiniteSet(Moves(q)) /\ c.changes = Cardinality(Moves(q))
    <2> HIDE DEF moves
    <2>1. CASE moves
      BY <2>1, <1>1, <1>2, <1>4, <1>a, OneMore
    <2>2. CASE ~moves
      BY <2>2, <1>1, <1>2, <1>a
    <2> QED
      BY <2>1, <2>2
  <1>8. c.since = Cardinality(SinceRaised(q))
    <2>1. CASE p.outcome = "error"
      <3>1. n + 1 \in Errors(q) /\ ~moves
        BY <2>1, <1>2, SetsGrow
      <3>2. SinceRaised(q) = {}
        BY <3>1, <1>1, <1>3 DEF SinceRaised
      <3> QED
        BY <2>1, <3>2, <1>2, FS_EmptySet
    <2>2. CASE p.outcome # "error"
      <3>1. Errors(q) = Errors(ps) /\ Errors(ps) \subseteq 1 .. n
        BY <2>2, SetsGrow
      <3>2. \A j \in Errors(ps) : j < n + 1
        BY <3>1 DEF Comes
      <3> HIDE DEF moves
      <3>3. CASE moves
        <4>1. SinceRaised(q) = SinceRaised(ps) \cup {n + 1}
          BY <3>1, <3>2, <3>3, <1>1 DEF SinceRaised
        <4>2. SinceRaised(ps) \subseteq Moves(ps) /\ n + 1 \notin SinceRaised(ps)
          BY <1>4 DEF SinceRaised
        <4>3. IsFiniteSet(SinceRaised(ps))
          BY <4>2, <1>a, FS_Subset
        <4> QED
          BY <4>1, <4>2, <4>3, <3>3, <2>2, <1>2, <1>a, OneMore
      <3>4. CASE ~moves
        <4>1. SinceRaised(q) = SinceRaised(ps)
          BY <3>1, <3>4, <1>1 DEF SinceRaised
        <4> QED
          BY <4>1, <3>4, <2>2, <1>2, <1>a
      <3> QED
        BY <3>3, <3>4
    <2> QED
      BY <2>1, <2>2
  <1>9. Moves(q) # {} => \E i \in Moves(q) : (\A j \in Moves(q) : j <= i) /\ q[i].at = c.lastChange
    <2> HIDE DEF moves
    <2>1. CASE moves
      <3>1. n + 1 \in Moves(q) /\ (\A j \in Moves(q) : j <= n + 1) /\ q[n + 1].at = c.lastChange
        BY <2>1, <1>1, <1>2, <1>3, <1>4
      <3> QED
        BY <3>1
    <2>2. CASE ~moves
      BY <2>2, <1>1, <1>2, <1>3 DEF CountsMoves
    <2> QED
      BY <2>1, <2>2
  <1>10. Moves(q) = {} => \A i \in Keyed(q) : q[i].what = c.lastKey
    <2> SUFFICES ASSUME Moves(q) = {} PROVE \A i \in Keyed(q) : q[i].what = c.lastKey
      OBVIOUS
    <2>1. ~moves /\ Moves(ps) = {}
      <3> HIDE DEF moves
      <3> QED
        BY <1>1
    <2>2. \A i \in Keyed(ps) : ps[i].what = r.lastKey /\ q[i] = ps[i] /\ i \in Keyed(ps)
      <3>1. Keyed(ps) \subseteq 1 .. n
        BY SetsGrow
      <3> QED
        BY <2>1, <3>1 DEF CountsMoves, Comes
    <2>3. CASE p.outcome = "fail" /\ p.what # Unkeyed
      <3>1. Keyed(q) = Keyed(ps) \cup {n + 1} /\ c.lastKey = p.what
        BY <2>3, SetsGrow DEF Counts
      <3>2. r.lastKey = NoKey \/ p.what = r.lastKey
        BY <2>1, <2>3
      <3>3. r.lastKey = NoKey => Keyed(ps) = {}
        BY DEF KnowsKey
      <3>4. \A i \in Keyed(ps) : q[i].what = p.what
        BY <2>2, <3>2, <3>3
      <3> QED
        BY <3>1, <3>4, <1>4
    <2>4. CASE ~(p.outcome = "fail" /\ p.what # Unkeyed)
      <3>1. Keyed(q) = Keyed(ps) /\ c.lastKey = r.lastKey
        BY <2>4, SetsGrow DEF Counts
      <3> QED
        BY <3>1, <2>2
    <2> QED
      BY <2>3, <2>4
  <1> QED
    BY <1>7, <1>8, <1>9, <1>10 DEF CountsMoves

LEMMA FactsGrow ==
  ASSUME NEW ps \in Seq(Poll), NEW p \in Poll, NEW r, Facts(r, ps), NEW c, Counts(c, r, p)
  PROVE  Facts(c, Append(ps, p))
  <1> DEFINE q == Append(ps, p)
             n == Len(ps)
  <1>1. Comes(q, ps, p, n)
    BY ItComes
  <1> HIDE DEF q, n
  <1>2. CountsFails(c, q) /\ NamesClass(c, q) /\ KnowsKey(c, q) /\ CountsMoves(c, q)
    BY <1>1, FailsCounted, ClassNamed, KeyKnown, MovesCounted DEF Facts
  <1> QED
    BY <1>2 DEF Facts, q

LEMMA FactsBegin == Facts(Blank, <<>>) /\ PollsHold(<<>>) /\ Shows(Blank, <<>>) /\ Blank \in RecT
  <1> DEFINE ps == <<>>
  <1>1. ps \in Seq(Poll) /\ DOMAIN ps = {} /\ \A S : ps \in Seq(S) /\ Len(ps) = 0
    BY EmptySeq
  <1>2. Starts(ps) = {} /\ Fails(ps) = {} /\ Errors(ps) = {} /\ Keyed(ps) = {} /\ Moves(ps) = {} /\ SinceRaised(ps) = {}
    BY <1>1 DEF Starts, Fails, Errors, Keyed, Moves, SinceRaised
  <1>3. IsFiniteSet({}) /\ Cardinality({}) = 0
    BY FS_EmptySet
  <1>4. Facts(Blank, ps)
    BY <1>2, <1>3 DEF Facts, CountsFails, NamesClass, KnowsKey, CountsMoves, Blank
  <1>5. PollsHold(ps)
    <2>1. 1 .. 0 = {}
      OBVIOUS
    <2> QED
      BY <1>1, <1>2, <1>3, <2>1 DEF PollsHold, Enumerated
  <1>6. Shows(Blank, ps)
    <2>1. RunsOf(ps) \in Seq(SampleT) /\ Len(RunsOf(ps)) = 0
      BY <1>2, <1>3, <1>5, RunsAre
    <2>2. \A i : i \notin 1 .. 0
      OBVIOUS
    <2> QED
      BY <1>1, <2>1, <2>2, RecorderConstants DEF Shows, WindowIs, Blank
  <1>7. Blank \in RecT
    BY <1>1 DEF Blank, RecT
  <1> QED
    BY <1>4, <1>5, <1>6, <1>7

-----------------------------------------------------------------------------
(* What the sentence claims *)

\* A set that a finite one is mapped onto is finite.
LEMMA Images ==
  ASSUME NEW S, IsFiniteSet(S), NEW T, NEW f \in [S -> T], \A y \in T : \E x \in S : f[x] = y
  PROVE  IsFiniteSet(T)
  <1>1. f \in Surjection(S, T)
    BY DEF Surjection
  <1> QED
    BY <1>1, FS_Surjection

\* The poll that the a-th sample kept stands for.
Position(r, ps, a) == Nth(Starts(ps), IF a <= Len(r.head) THEN a ELSE r.dropped + a)

LEMMA KeptIs ==
  ASSUME NEW r \in RecT, NEW ps, PollsHold(ps), Shows(r, ps)
  PROVE  LET k == Kept(r)
         IN  /\ k \in Seq(SampleT) /\ Len(k) \in Nat /\ DOMAIN k = 1 .. Len(k) /\ (ps # <<>> => Len(k) # 0)
             /\ \A a \in 1 .. Len(k) : Position(r, ps, a) \in DOMAIN ps /\ Agree(k[a], ps[Position(r, ps, a)])
             /\ \A a, b \in 1 .. Len(k) : a < b => Position(r, ps, a) < Position(r, ps, b)
             /\ r.dropped = 0 => \A s \in Starts(ps) : \E a \in 1 .. Len(k) : Position(r, ps, a) = s
  <1> DEFINE h == r.head
             t == r.tail
             d == r.dropped
             R == RunsOf(ps)
             S == Starts(ps)
             k == h \o t
             m(i) == IF i <= Len(h) THEN i ELSE d + i
  <1>1. WindowIs(h, t, d, R)
    BY DEF Shows
  <1>2. /\ h \in Seq(SampleT) /\ t \in Seq(SampleT) /\ R \in Seq(SampleT) /\ d \in Nat
    BY <1>1 DEF WindowIs
  <1>3. PICK x \in Nat : x = Len(h)
    BY <1>2, LenProperties
  <1>4. PICK y \in Nat : y = Len(t)
    BY <1>2, LenProperties
  <1>5. PICK N \in Nat : N = x + d + y
    BY <1>2
  <1>6. /\ Len(R) = N
        /\ \A i \in 1 .. x : h[i] = R[i]
        /\ \A i \in 1 .. y : t[i] = R[x + d + i]
    BY <1>1, <1>3, <1>4, <1>5 DEF WindowIs
  <1>7. /\ k \in Seq(SampleT) /\ Len(k) = x + y /\ DOMAIN k = 1 .. x + y
        /\ \A i \in 1 .. x + y : k[i] = IF i <= x THEN h[i] ELSE t[i - x]
    <2>1. /\ k \in Seq(SampleT) /\ Len(k) = x + y
          /\ \A i \in 1 .. x + y : k[i] = IF i <= x THEN h[i] ELSE t[i - x]
      BY <1>2, <1>3, <1>4, ConcatProperties
    <2> HIDE DEF k
    <2> QED
      BY <2>1, LenProperties
  <1>8. /\ Enumerated(S) /\ N = Cardinality(S)
        /\ \A i \in 1 .. N : Nth(S, i) \in S /\ Nth(S, i) \in DOMAIN ps /\ R[i] = RunAt(ps, Nth(S, i))
    BY <1>6, RunsAre DEF PollsHold
  <1>9. Kept(r) = k /\ \A i : Position(r, ps, i) = Nth(S, m(i))
    BY DEF Kept, Position
  <1> HIDE DEF h, t, d, R, S, k
  <1>10. ASSUME NEW i \in 1 .. x + y PROVE m(i) \in 1 .. N /\ k[i] = R[m(i)]
    <2>1. CASE i <= x
      <3>1. i \in 1 .. x /\ i \in 1 .. N /\ m(i) = i
        BY <2>1, <1>2, <1>3, <1>5
      <3> QED
        BY <2>1, <3>1, <1>6, <1>7
    <2>2. CASE ~ i <= x
      <3>1. i - x \in 1 .. y /\ m(i) = d + i /\ d + i \in 1 .. N /\ x + d + (i - x) = d + i
        BY <2>2, <1>2, <1>3, <1>5
      <3> QED
        BY <2>2, <3>1, <1>6, <1>7
    <2> QED
      BY <2>1, <2>2
  <1>11. ASSUME NEW i \in 1 .. x + y, NEW j \in 1 .. x + y, i < j PROVE m(i) < m(j)
    BY <1>2, <1>3, <1>11
  <1>12. ASSUME NEW i \in 1 .. x + y PROVE Nth(S, m(i)) \in DOMAIN ps /\ Agree(k[i], ps[Nth(S, m(i))])
    <2> HIDE DEF m
    <2>1. Nth(S, m(i)) \in DOMAIN ps /\ k[i] = RunAt(ps, Nth(S, m(i)))
      BY <1>8, <1>10
    <2> QED
      BY <2>1 DEF Agree, RunAt
  <1>13. ASSUME NEW i \in 1 .. x + y, NEW j \in 1 .. x + y, i < j PROVE Nth(S, m(i)) < Nth(S, m(j))
    <2>1. m(i) \in 1 .. N /\ m(j) \in 1 .. N /\ m(i) < m(j)
      BY <1>10, <1>11, <1>13
    <2> HIDE DEF m
    <2> QED
      BY <2>1, <1>8, NthRises
  <1>14. ASSUME d = 0, NEW s \in S PROVE \E i \in 1 .. x + y : Nth(S, m(i)) = s
    <2>1. Rank(S, s) \in 1 .. N /\ Nth(S, Rank(S, s)) = s
      BY <1>8, RankRises, NthIs DEF Enumerated
    <2>2. Rank(S, s) \in 1 .. x + y /\ m(Rank(S, s)) = Rank(S, s)
      BY <2>1, <1>3, <1>5, <1>14
    <2> HIDE DEF m
    <2> QED
      BY <2>1, <2>2
  <1>15. ps # <<>> => x + y # 0
    <2> SUFFICES ASSUME ps # <<>> PROVE x + y # 0
      OBVIOUS
    <2>1. DOMAIN ps = 1 .. Len(ps) /\ Len(ps) \in Nat \ {0}
      BY EmptySeq, LenProperties DEF PollsHold
    <2>2. S # {}
      BY <2>1 DEF PollsHold, S
    <2>3. N # 0
      BY <2>2, <1>8, FS_EmptySet DEF Enumerated
    <2>4. y = 0 => d = 0
      BY <1>1, <1>2, <1>4, RecorderConstants DEF WindowIs
    <2> QED
      BY <2>3, <2>4, <1>2, <1>5
  <1> HIDE DEF m
  <1>16. x + y \in Nat
    OBVIOUS
  <1> QED
    BY <1>7, <1>9, <1>12, <1>13, <1>14, <1>15, <1>16 DEF d, S

\* Where nothing raised, each sample kept is of a value, and is one of the positions that the trend goes by.
LEMMA AllAreValues ==
  ASSUME NEW r \in RecT, NEW ps, PollsHold(ps), Shows(r, ps), Errors(ps) = {}
  PROVE  /\ FailsKept(r) = DOMAIN Kept(r) /\ Fails(ps) = DOMAIN ps
         /\ KeysKept(r) = {Kept(r)[a].what : a \in DOMAIN Kept(r)} /\ KeysKept(r) \subseteq Values(ps)
         /\ r.dropped = 0 => KeysKept(r) = Values(ps)
         /\ IsFiniteSet(KeysKept(r)) /\ IsFiniteSet(Values(ps))
  <1> DEFINE k == Kept(r)
  <1>1. /\ Len(k) \in Nat /\ DOMAIN k = 1 .. Len(k)
        /\ \A a \in DOMAIN k : Position(r, ps, a) \in DOMAIN ps /\ Agree(k[a], ps[Position(r, ps, a)])
        /\ r.dropped = 0 => \A s \in Starts(ps) : \E a \in DOMAIN k : Position(r, ps, a) = s
    BY KeptIs
  <1> HIDE DEF k
  <1>2. ps \in Seq(Poll) /\ DOMAIN ps = 1 .. Len(ps) /\ Len(ps) \in Nat /\ \A i \in DOMAIN ps : ps[i] \in Poll
    BY LenProperties, ElementOfSeq DEF PollsHold
  <1>3. Fails(ps) = DOMAIN ps
    <2>1. ASSUME NEW i \in DOMAIN ps PROVE ps[i].outcome = "fail"
      <3>1. ps[i].outcome \in {"fail", "error"} /\ ps[i].outcome # "error"
        BY <1>2 DEF Poll, Errors
      <3> QED
        BY <3>1
    <2> QED
      BY <2>1 DEF Fails
  <1>4. FailsKept(r) = DOMAIN k
    BY <1>1, <1>3 DEF FailsKept, k, Agree, Fails
  <1>5. KeysKept(r) = {k[a].what : a \in DOMAIN k}
    BY <1>4 DEF KeysKept, k
  <1>6. Values(ps) = {ps[i].what : i \in DOMAIN ps}
    BY <1>3 DEF Values
  <1>7. KeysKept(r) \subseteq Values(ps)
    BY <1>1, <1>5, <1>6 DEF Agree
  <1>8. r.dropped = 0 => KeysKept(r) = Values(ps)
    <2> SUFFICES ASSUME r.dropped = 0, NEW v \in Values(ps) PROVE v \in KeysKept(r)
      BY <1>7
    <2>1. PICK i \in DOMAIN ps : v = ps[i].what
      BY <1>6
    <2>2. PICK s \in Starts(ps) : Agree(ps[s], ps[i])
      BY DEF PollsHold
    <2>3. PICK a \in DOMAIN k : Position(r, ps, a) = s
      BY <1>1
    <2>4. k[a].what = v
      BY <1>1, <2>1, <2>2, <2>3 DEF Agree
    <2> QED
      BY <1>5, <2>4
  <1>9. IsFiniteSet(KeysKept(r))
    <2> DEFINE f == [a \in DOMAIN k |-> k[a].what]
    <2>1. IsFiniteSet(DOMAIN k)
      BY <1>1, FS_Interval
    <2>2. f \in [DOMAIN k -> KeysKept(r)] /\ \A v \in KeysKept(r) : \E a \in DOMAIN k : f[a] = v
      BY <1>5
    <2> HIDE DEF f
    <2> QED
      BY <2>1, <2>2, Images
  <1>10. IsFiniteSet(Values(ps))
    <2> DEFINE f == [i \in DOMAIN ps |-> ps[i].what]
    <2>1. IsFiniteSet(DOMAIN ps)
      BY <1>2, FS_Interval
    <2>2. f \in [DOMAIN ps -> Values(ps)] /\ \A v \in Values(ps) : \E i \in DOMAIN ps : f[i] = v
      BY <1>6
    <2> HIDE DEF f
    <2> QED
      BY <2>1, <2>2, Images
  <1> QED
    BY <1>3, <1>4, <1>5, <1>7, <1>8, <1>9, <1>10 DEF k

\* As many changes as there are values: one of them came back.
ValuesIn(W, n) == {W[a] : a \in 1 .. n}

ChangesIn(W, n) ==
  {j \in 1 .. n : \E i \in 1 .. n : i < j /\ (\A k \in 1 .. n : k <= i \/ k >= j) /\ W[i] # W[j]}

ComesBack(W, n) == \E i, j, k \in 1 .. n : i < j /\ j < k /\ W[i] = W[k] /\ W[j] # W[i]

LEMMA MoreThanAPath ==
  ASSUME NEW n \in Nat, n # 0, NEW W, IsFiniteSet(ValuesIn(W, n)),
         Cardinality(ChangesIn(W, n)) >= Cardinality(ValuesIn(W, n))
  PROVE  ComesBack(W, n)
  <1> SUFFICES ASSUME \A i, j, k \in 1 .. n : i < j /\ j < k /\ W[i] = W[k] => W[j] = W[i]
               PROVE FALSE
    BY DEF ComesBack
  <1> DEFINE V == ValuesIn(W, n)
             C == ChangesIn(W, n)
             T == V \ {W[1]}
             f == [j \in C |-> W[j]]
  <1>1. 1 \in 1 .. n /\ \A a \in 1 .. n : W[a] \in V
    BY DEF ValuesIn
  <1>2. C \subseteq 1 .. n
    BY DEF ChangesIn
  <1>3. ASSUME NEW j \in C
        PROVE  \E i \in 1 .. n : i < j /\ (\A k \in 1 .. n : k <= i \/ k >= j) /\ W[i] # W[j]
    BY DEF ChangesIn
  <1>4. ASSUME NEW j \in C PROVE W[j] \in T
    <2>1. PICK i \in 1 .. n : i < j /\ (\A k \in 1 .. n : k <= i \/ k >= j) /\ W[i] # W[j]
      BY <1>3
    <2>2. j \in 1 .. n /\ W[j] \in V
      BY <1>1, <1>2
    <2>3. W[j] # W[1]
      <3> SUFFICES ASSUME W[j] = W[1] PROVE FALSE
        OBVIOUS
      <3>1. i # 1
        BY <2>1
      <3>2. 1 < i
        BY <3>1
      <3> QED
        BY <1>1, <2>1, <2>2, <3>2
    <2> QED
      BY <2>2, <2>3
  <1>5. ASSUME NEW j \in C, NEW l \in C, j < l PROVE W[j] # W[l]
    <2>1. PICK i \in 1 .. n : i < l /\ (\A k \in 1 .. n : k <= i \/ k >= l) /\ W[i] # W[l]
      BY <1>3
    <2>2. j \in 1 .. n /\ l \in 1 .. n
      BY <1>2
    <2>3. j <= i
      <3>1. (j <= i \/ j >= l) /\ j \in Nat /\ l \in Nat /\ i \in Nat
        BY <2>1, <2>2
      <3> QED
        BY <3>1, <1>5
    <2> SUFFICES ASSUME W[j] = W[l] PROVE FALSE
      OBVIOUS
    <2>4. j < i
      <3>1. j # i /\ j \in Nat /\ i \in Nat
        BY <2>1, <2>2
      <3> QED
        BY <3>1, <2>3
    <2> QED
      BY <2>1, <2>2, <2>4
  <1>6. IsFiniteSet(T) /\ Cardinality(T) = Cardinality(V) - 1 /\ Cardinality(V) \in Nat
    BY <1>1, FS_RemoveElement, FS_CardinalityType
  <1>7. f \in Injection(C, T)
    <2> HIDE DEF T
    <2>1. f \in [C -> T]
      BY <1>4
    <2>2. ASSUME NEW j \in C, NEW l \in C, f[j] = f[l] PROVE j = l
      <3>1. j \in Nat /\ l \in Nat
        BY <1>2
      <3>2. W[j] = W[l]
        BY <2>2
      <3>3. ~ j < l /\ ~ l < j
        BY <1>5, <3>2
      <3> QED
        BY <3>1, <3>3
    <2> HIDE DEF f
    <2> QED
      BY <2>1, <2>2 DEF Injection, IsInjective
  <1>8. IsFiniteSet(C) /\ Cardinality(C) <= Cardinality(T)
    <2> HIDE DEF T, f
    <2> QED
      BY <1>6, <1>7, FS_Injection
  <1>9. Cardinality(C) \in Nat
    BY <1>8, FS_CardinalityType
  <1> QED
    BY <1>6, <1>8, <1>9

LEMMA CyclesReturn ==
  ASSUME NEW r \in RecT, NEW ps, PollsHold(ps), Shows(r, ps), Errors(ps) = {}, ps # <<>>, Cycles(r)
  PROVE  Returned(ps)
  <1> DEFINE k == Kept(r)
  <1>1. PICK n \in Nat : n = Len(k)
    BY KeptIs
  <1>2. /\ n # 0 /\ DOMAIN k = 1 .. n
        /\ \A a \in 1 .. n : Position(r, ps, a) \in DOMAIN ps /\ Agree(k[a], ps[Position(r, ps, a)])
        /\ \A a, b \in 1 .. n : a < b => Position(r, ps, a) < Position(r, ps, b)
    BY <1>1, KeptIs
  <1>3. /\ FailsKept(r) = 1 .. n /\ Fails(ps) = DOMAIN ps
        /\ KeysKept(r) = {k[a].what : a \in 1 .. n} /\ IsFiniteSet(KeysKept(r))
    BY <1>2, AllAreValues
  <1> DEFINE W == [a \in 1 .. n |-> k[a].what]
  <1>4. KeysKept(r) = ValuesIn(W, n)
    BY <1>3 DEF ValuesIn
  <1>5. ChangesKept(r) = ChangesIn(W, n)
    BY <1>3 DEF ChangesKept, ChangesIn
  <1>6. Cardinality(ChangesIn(W, n)) >= Cardinality(ValuesIn(W, n))
    BY <1>4, <1>5 DEF Cycles
  <1>7. \A a \in 1 .. n : W[a] = k[a].what
    OBVIOUS
  <1> HIDE DEF k, W
  <1>8. ComesBack(W, n)
    BY <1>2, <1>3, <1>4, <1>6, MoreThanAPath
  <1>9. PICK i, j, l \in 1 .. n : i < j /\ j < l /\ W[i] = W[l] /\ W[j] # W[i]
    BY <1>8 DEF ComesBack
  <1> DEFINE P(a) == Position(r, ps, a)
  <1>10. P(i) \in Fails(ps) /\ P(j) \in Fails(ps) /\ P(l) \in Fails(ps) /\ P(i) < P(j) /\ P(j) < P(l)
    BY <1>2, <1>3, <1>9
  <1>11. ps[P(i)].what = W[i] /\ ps[P(j)].what = W[j] /\ ps[P(l)].what = W[l]
    BY <1>2, <1>7 DEF Agree
  <1> QED
    BY <1>9, <1>10, <1>11 DEF Returned

LEMMA SentenceIsTrue ==
  ASSUME NEW r \in RecT, NEW ps, PollsHold(ps), Shows(r, ps), Facts(r, ps), ps # <<>>, NEW elapsed \in Nat
  PROVE  True(Summary(r, elapsed), ps, elapsed)
  <1> DEFINE claim == Summary(r, elapsed)
  <1>1. /\ DOMAIN ps = 1 .. Len(ps) /\ Len(ps) \in Nat \ {0} /\ ps \in Seq(Poll)
        /\ \A i \in DOMAIN ps : ps[i] \in Poll
    BY EmptySeq, LenProperties, ElementOfSeq DEF PollsHold
  <1>2. /\ r.fails \in Nat /\ r.errors \in Nat /\ r.changes \in Nat /\ r.since \in Nat
        /\ r.uncomparable \in BOOLEAN /\ r.mixed \in BOOLEAN
    BY DEF RecT
  <1>3. /\ r.fails = 0 <=> Fails(ps) = {}
        /\ r.errors = 0 <=> Errors(ps) = {}
        /\ r.errors = Cardinality(Errors(ps))
        /\ r.lastOutcome = ps[Len(ps)].outcome
        /\ r.uncomparable <=> Unkeyed \in Values(ps)
    <2>1. /\ IsFiniteSet(Fails(ps)) /\ r.fails = Cardinality(Fails(ps))
          /\ IsFiniteSet(Errors(ps)) /\ r.errors = Cardinality(Errors(ps))
          /\ r.lastOutcome = ps[Len(ps)].outcome
          /\ r.uncomparable <=> \E i \in Fails(ps) : ps[i].what = Unkeyed
      BY DEF Facts, CountsFails
    <2>2. (\E i \in Fails(ps) : ps[i].what = Unkeyed) <=> Unkeyed \in Values(ps)
      BY DEF Values
    <2> QED
      BY <2>1, <2>2, FS_EmptySet
  <1>4. CASE r.fails = 0
    <2>1. Fails(ps) = {} /\ Errors(ps) = DOMAIN ps
      <3>1. \A i \in DOMAIN ps : ps[i].outcome # "fail"
        BY <1>3, <1>4 DEF Fails
      <3> QED
        BY <1>1, <1>3, <1>4, <3>1 DEF Errors, Poll
    <2>2. r.errors # 0
      BY <1>1, <1>3, <2>1
    <2>3. PICK named : named = IF r.mixed THEN NoClass ELSE r.class
      OBVIOUS
    <2>4. claim = [says |-> "raised", class |-> named]
      BY <1>4, <2>3, <2>2 DEF Summary
    <2>5. ~r.mixed => r.class # NoClass /\ \A i \in DOMAIN ps : ClassOf[ps[i].what] = r.class
      <3>1. 1 \in Errors(ps)
        BY <1>1, <2>1
      <3> QED
        BY <2>1, <3>1 DEF Facts, NamesClass
    <2>6. r.mixed => Cardinality({ClassOf[ps[i].what] : i \in DOMAIN ps}) > 1
      <3> SUFFICES ASSUME r.mixed PROVE Cardinality({ClassOf[ps[i].what] : i \in DOMAIN ps}) > 1
        OBVIOUS
      <3> DEFINE T == {ClassOf[ps[i].what] : i \in DOMAIN ps}
                 f == [i \in DOMAIN ps |-> ClassOf[ps[i].what]]
      <3>1. \E i, j \in DOMAIN ps : ClassOf[ps[i].what] # ClassOf[ps[j].what]
        BY <2>1 DEF Facts, NamesClass
      <3>2. PICK a \in T : \E b \in T : a # b
        BY <3>1
      <3>3. PICK b \in T : a # b
        BY <3>2
      <3>4. IsFiniteSet(DOMAIN ps)
        BY <1>1, FS_Interval
      <3>5. f \in [DOMAIN ps -> T] /\ \A y \in T : \E i \in DOMAIN ps : f[i] = y
        OBVIOUS
      <3> HIDE DEF f, T
      <3>6. IsFiniteSet(T)
        BY <3>4, <3>5, Images
      <3>7. Cardinality(T) \in Nat /\ Cardinality(T) # 0 /\ Cardinality(T) # 1
        <4>1. Cardinality(T) = 1 => \E x : T = {x}
          BY <3>6, FS_Singleton
        <4> QED
          BY <3>3, <3>6, <4>1, FS_EmptySet, FS_CardinalityType
      <3> QED
        BY <3>7 DEF T
    <2>7. claim.says = "raised" /\ claim.class = named
      BY <2>4
    <2> HIDE DEF claim
    <2>8. True(claim, ps, elapsed)
      BY <2>3, <2>1, <2>5, <2>6, <2>7 DEF True
    <2> QED
      BY <2>8 DEF claim
  <1>5. CASE r.fails # 0 /\ r.errors # 0
    <2>1. claim = [says |-> IF r.lastOutcome = "fail" THEN "recovered" ELSE "intermittent",
                   raised |-> r.errors, trend |-> Trend(r)]
      BY <1>5 DEF Summary
    <2>2. /\ Trend(r).says = "incomparable" <=> r.uncomparable
          /\ Trend(r).says = "changed" => Trend(r).times = r.since
      BY <1>2 DEF Trend
    <2>3. r.since = Cardinality(SinceRaised(ps))
      BY DEF Facts, CountsMoves
    <2>4. /\ claim.says = IF r.lastOutcome = "fail" THEN "recovered" ELSE "intermittent"
          /\ claim.raised = r.errors /\ claim.trend = Trend(r)
      BY <2>1
    <2> HIDE DEF claim
    <2>5. claim.says \in {"recovered", "intermittent"} /\ (claim.says = "recovered" <=> ps[Len(ps)].outcome = "fail")
      BY <1>3, <2>4
    <2>6. True(claim, ps, elapsed)
      BY <1>3, <2>2, <2>3, <2>4, <2>5 DEF True
    <2> QED
      BY <2>6 DEF claim
  <1>6. CASE r.fails # 0 /\ r.errors = 0
    <2>1. Errors(ps) = {} /\ Fails(ps) # {}
      BY <1>3, <1>6
    <2>2. CASE r.uncomparable
      <3>1. claim = [says |-> "incomparable"]
        BY <1>6, <2>2 DEF Summary
      <3> QED
        BY <1>3, <2>1, <2>2, <3>1 DEF True
    <2>3. CASE ~r.uncomparable
      <3>1. Keyed(ps) = Fails(ps)
        BY <1>3, <2>3 DEF Keyed, Values
      <3>2. /\ IsFiniteSet(Moves(ps)) /\ r.changes = Cardinality(Moves(ps))
            /\ Moves(ps) # {} => \E i \in Moves(ps) : (\A j \in Moves(ps) : j <= i) /\ ps[i].at = r.lastChange
            /\ Moves(ps) = {} => \A i \in Keyed(ps) : ps[i].what = r.lastKey
        BY DEF Facts, CountsMoves
      <3>3. r.changes = 0 <=> Moves(ps) = {}
        BY <3>2, FS_EmptySet
      <3>4. CASE r.changes = 0
        <4>1. claim = [says |-> "unchanged"]
          BY <1>6, <2>3, <3>4 DEF Summary
        <4>2. \A i \in Fails(ps) : ps[i].what = r.lastKey
          BY <3>1, <3>2, <3>3, <3>4
        <4>3. Values(ps) = {r.lastKey}
          BY <2>1, <4>2 DEF Values
        <4>4. Cardinality(Values(ps)) = 1
          BY <4>3, FS_Singleton
        <4> QED
          BY <2>1, <4>1, <4>4 DEF True
      <3>5. CASE r.changes # 0 /\ Cycles(r)
        <4>0. PICK whole \in BOOLEAN : whole = (r.dropped = 0)
          OBVIOUS
        <4>1. claim = [says |-> "cycles", states |-> Cardinality(KeysKept(r)), all |-> whole]
          BY <1>6, <2>3, <3>5, <4>0 DEF Summary
        <4>2. Returned(ps)
          BY <2>1, <3>5, CyclesReturn
        <4>3. KeysKept(r) \subseteq Values(ps) /\ IsFiniteSet(Values(ps)) /\ (r.dropped = 0 => KeysKept(r) = Values(ps))
          BY <2>1, AllAreValues
        <4>4. Cardinality(KeysKept(r)) <= Cardinality(Values(ps))
          BY <4>3, FS_Subset
        <4>5. claim.says = "cycles" /\ claim.states = Cardinality(KeysKept(r)) /\ claim.all = whole
          BY <4>1
        <4> HIDE DEF claim
        <4>6. True(claim, ps, elapsed)
          BY <4>0, <4>2, <4>3, <4>4, <4>5 DEF True
        <4> QED
          BY <4>6 DEF claim
      <3>6. CASE r.changes # 0 /\ ~Cycles(r)
        <4>1. claim = [says |-> "changed", times |-> r.changes, ago |-> elapsed - r.lastChange]
          BY <1>6, <2>3, <3>6 DEF Summary
        <4>2. \E i \in Moves(ps) : (\A j \in Moves(ps) : j <= i) /\ elapsed - r.lastChange = elapsed - ps[i].at
          BY <3>2, <3>3, <3>6
        <4>3. claim.says = "changed" /\ claim.times = Cardinality(Moves(ps)) /\ claim.ago = elapsed - r.lastChange
          BY <3>2, <4>1
        <4> HIDE DEF claim
        <4>4. True(claim, ps, elapsed)
          BY <4>2, <4>3 DEF True
        <4> QED
          BY <4>4 DEF claim
      <3> QED
        BY <3>4, <3>5, <3>6
    <2> QED
      BY <1>2, <2>2, <2>3
  <1> QED
    BY <1>4, <1>5, <1>6

-----------------------------------------------------------------------------
(* Polls *)

\* What was recorded is so, of every attempt so far; the sentence was said when the poll ended, and nothing came after it.
PollHolds ==
  /\ clock \in Nat /\ timeout \in Nat /\ trace \in BOOLEAN
  /\ pc \in {"ready", "probing", "failed", "sleeping", "done"}
  /\ recorder \in RecT /\ PollsHold(polls) /\ Shows(recorder, polls) /\ Facts(recorder, polls)
  /\ pc = "failed" /\ trace => polls # <<>>
  /\ result \in {"raised", "inert"} => pc = "done" /\ clock >= timeout
  /\ summary # NoSummary => pc = "done" /\ True(summary, polls, clock)

LEMMA PollInit == Init => PollHolds
  <1> SUFFICES ASSUME Init PROVE PollHolds
    OBVIOUS
  <1>1. recorder \in RecT /\ PollsHold(polls) /\ Shows(recorder, polls) /\ Facts(recorder, polls)
    BY FactsBegin DEF Init
  <1> QED
    BY <1>1, PollingConstants DEF Init, PollHolds

\* A step that says nothing and that no attempt ends.
LEMMA QuietStep ==
  ASSUME PollHolds, UNCHANGED <<settings, recorder, polls, summary>>, pc # "done",
         clock' \in {clock, clock + 1}, pc' \in {"ready", "probing", "failed", "sleeping", "done"},
         pc' = "failed" => pc = "failed", result' \in {"raised", "inert"} => result' = result
  PROVE  PollHolds'
  <1>1. clock' \in Nat /\ summary = NoSummary /\ result' \notin {"raised", "inert"}
    BY DEF PollHolds
  <1> QED
    BY <1>1 DEF PollHolds, settings

LEMMA FailsHolds ==
  ASSUME PollHolds, NEW outcome, NEW what, FailsWith(outcome, what),
         \/ outcome = "fail" /\ what \in Key \cup {Unkeyed}
         \/ outcome = "error" /\ what \in Exc
  PROVE  PollHolds'
  <1>1. /\ pc = "probing" /\ pc' = "failed" /\ UNCHANGED <<settings, clock, result, summary>>
        /\ summary = NoSummary /\ result \notin {"raised", "inert"} /\ clock \in Nat
    BY DEF FailsWith, PollHolds
  <1>2. CASE trace
    <2>1. PICK p \in Poll : p = [at |-> clock, outcome |-> outcome, what |-> what]
      BY <1>1 DEF Poll
    <2>2. recorder' = Recorded(recorder, p) /\ polls' = Append(polls, p)
      BY <1>2, <2>1 DEF FailsWith
    <2>3. recorder' \in RecT /\ Counts(recorder', recorder, p) /\ Shows(recorder', polls')
      BY <2>2, RecordedShows DEF PollHolds
    <2>4. PollsHold(polls') /\ polls \in Seq(Poll)
      BY <2>2, PollsGrow DEF PollHolds, PollsHold
    <2>5. Facts(recorder', polls')
      BY <2>2, <2>3, <2>4, FactsGrow DEF PollHolds
    <2>6. polls' # <<>>
      <3>1. Len(polls') = Len(polls) + 1 /\ Len(polls) \in Nat
        BY <2>2, <2>4, Appended
      <3>2. Len(polls') # 0
        BY <3>1
      <3> QED
        BY <3>2, EmptySeq
    <2> QED
      BY <1>1, <2>3, <2>4, <2>5, <2>6 DEF PollHolds, settings
  <1>3. CASE ~trace
    <2>1. UNCHANGED <<recorder, polls>>
      BY <1>3 DEF FailsWith
    <2> QED
      BY <1>1, <1>3, <2>1 DEF PollHolds, settings
  <1> QED
    BY <1>2, <1>3

LEMMA TimeIsUp == ASSUME PollHolds, OutOfTime PROVE PollHolds'
  <1>1. /\ pc = "failed" /\ clock >= timeout /\ pc' = "done" /\ result' \in {"raised", "inert"}
        /\ summary' = IF trace THEN Summary(recorder, clock) ELSE NoSummary
        /\ UNCHANGED <<settings, clock, recorder, polls>>
    BY DEF OutOfTime, Ends
  <1>2. trace => True(Summary(recorder, clock), polls, clock)
    BY <1>1, SentenceIsTrue DEF PollHolds
  <1>3. summary' # NoSummary => True(summary', polls', clock')
    BY <1>1, <1>2 DEF PollHolds
  <1> QED
    BY <1>1, <1>3 DEF PollHolds, settings

LEMMA PollStepHolds == PollHolds /\ [Next]_vars => PollHolds'
  <1> SUFFICES ASSUME PollHolds, [Next]_vars PROVE PollHolds'
    OBVIOUS
  <1>1. ASSUME Tick \/ Attempt \/ Passes \/ Escapes \/ Sleeps \/ Wakes PROVE PollHolds'
    <2>1. CASE Tick
      BY <2>1, QuietStep DEF Tick, PollHolds
    <2>2. CASE Attempt
      BY <2>2, QuietStep DEF Attempt
    <2>3. CASE Passes
      BY <2>3, QuietStep DEF Passes, Ends
    <2>4. CASE Escapes
      BY <2>4, QuietStep DEF Escapes, Ends
    <2>5. CASE Sleeps
      BY <2>5, QuietStep DEF Sleeps
    <2>6. CASE Wakes
      BY <2>6, QuietStep DEF Wakes
    <2> QED
      BY <1>1, <2>1, <2>2, <2>3, <2>4, <2>5, <2>6
  <1>2. ASSUME NEW k \in Key \cup {Unkeyed}, FailsWith("fail", k) PROVE PollHolds'
    BY <1>2, FailsHolds
  <1>3. ASSUME NEW e \in Exc, FailsWith("error", e) PROVE PollHolds'
    BY <1>3, FailsHolds
  <1>4. CASE OutOfTime
    BY <1>4, TimeIsUp
  <1>5. CASE UNCHANGED vars
    BY <1>5 DEF PollHolds, vars, settings
  <1> QED
    BY <1>1, <1>2, <1>3, <1>4, <1>5 DEF Next

LEMMA PollsAlwaysHold == Spec => []PollHolds
  BY PollInit, PollStepHolds, PTL DEF Spec

\* The samples are the first and the last of the runs of polls, with every repeat and every gap counted (_PollRecorder.record).
THEOREM WindowIsKept == Spec => []KeepsTheWindow
  <1>1. PollHolds => KeepsTheWindow
    BY WindowEquals DEF PollHolds, Shows, KeepsTheWindow
  <1> QED
    BY <1>1, PollsAlwaysHold, PTL

\* What a timeout says of the run is so, for all the polls and not only those it kept (_summarize).
THEOREM SummaryIsTrue == Spec => []TellsTheTruth
  <1>1. PollHolds => TellsTheTruth
    BY DEF PollHolds, TellsTheTruth
  <1> QED
    BY <1>1, PollsAlwaysHold, PTL

\* The probe was asked in the attempt going on; a poll asked when time was up neither sleeps nor asks again.
Budget ==
  /\ interval \in Nat /\ late \in {0, 1}
  /\ late = 1 => clock >= timeout
  /\ pc \in {"ready", "sleeping"} => late = 0
  /\ pc \in {"probing", "failed"} => asked
  /\ result \in {"raised", "inert"} => asked
  /\ pc = "sleeping" => wake <= timeout

LEMMA BudgetKept == PollHolds /\ Budget /\ [Next]_vars => Budget'
  <1> SUFFICES ASSUME PollHolds, Budget, [Next]_vars PROVE Budget'
    OBVIOUS
  <1>1. /\ clock \in Nat /\ timeout \in Nat /\ interval \in Nat /\ late \in {0, 1}
        /\ pc # "done" => result \notin {"raised", "inert"}
    BY DEF PollHolds, Budget
  <1>2. CASE Tick
    BY <1>1, <1>2 DEF Tick, Budget, settings, asking
  <1>3. CASE Attempt
    BY <1>1, <1>3 DEF Attempt, Budget, settings
  <1>4. CASE Passes \/ Escapes
    BY <1>1, <1>4 DEF Passes, Escapes, Ends, Budget, settings, asking
  <1>5. ASSUME NEW outcome, NEW what, FailsWith(outcome, what) PROVE Budget'
    BY <1>1, <1>5 DEF FailsWith, Budget, settings, asking
  <1>6. CASE OutOfTime
    BY <1>1, <1>6 DEF OutOfTime, Ends, Budget, settings, asking
  <1>7. CASE Sleeps
    <2>1. clock < timeout /\ late = 0 /\ wake' <= timeout
      BY <1>1, <1>7 DEF Sleeps, Budget
    <2> QED
      BY <1>1, <1>7, <2>1 DEF Sleeps, Budget, settings
  <1>8. CASE Wakes
    BY <1>1, <1>8 DEF Wakes, Budget, settings, asking
  <1>9. CASE UNCHANGED vars
    BY <1>9 DEF Budget, vars, settings, asking
  <1> QED
    BY <1>2, <1>3, <1>4, <1>5, <1>6, <1>7, <1>8, <1>9 DEF Next

\* A timeout is delivered after the whole budget only, and tells of an attempt made since the last sleep; no sleep ends
\* past the deadline unless it is late, and the probe is asked once at most when time is up (_out_of_time, _poll).
THEOREM BudgetIsUsed == Spec => []UsesTheBudget
  <1>1. Init => Budget
    BY PollingConstants DEF Init, Budget
  <1>2. PollHolds /\ Budget => UsesTheBudget
    BY DEF PollHolds, Budget, UsesTheBudget
  <1> QED
    BY <1>1, <1>2, BudgetKept, PollInit, PollStepHolds, PTL DEF Spec

-----------------------------------------------------------------------------
(* Chains *)

ChainT ==
  [parent : Nat, steps : {"none", "describes", "asserts"}, superseded : BOOLEAN, awaited : BOOLEAN,
   coro : {"none", "created", "running", "closed"}, held : BOOLEAN, iterator : BOOLEAN, live : BOOLEAN]

Heard == {"refused", "ran", "thrown", "discarded", "warned"}

\* A chain x of which h was heard, and that branched or did not: what was heard is what became of it.
Told(x, h, branched) ==
  /\ x.superseded <=> branched
  /\ x.held \/ x.iterator => x.live
  /\ "ran" \in h \/ "thrown" \in h \/ "discarded" \in h =>
       x.awaited /\ (x.coro \in {"running", "closed"} \/ x.steps = "none")
  /\ x.live /\ x.coro \in {"running", "closed"} => h # {}
  /\ x.awaited /\ x.coro = "none" => h # {}
  /\ "refused" \in h => x.awaited /\ x.steps # "asserts"
  /\ "warned" \in h => ~x.live

Abandoned(x, h, branched) ==
  ~x.live =>
    /\ x.steps # "none" => h # {} \/ branched
    /\ "warned" \in h => h \subseteq {"warned", "refused"} /\ ~branched
    /\ {"warned", "refused"} \subseteq h => x.steps = "describes" /\ x.coro # "none"
    /\ x.coro # "created"

ChainsHold ==
  /\ chains \in Seq(ChainT) /\ heard \in Seq(SUBSET Heard) /\ Len(heard) = Len(chains)
  /\ \A c \in Chain : chains[c].parent <= Len(chains)
  /\ \A c \in Chain : LET branched == Branches(c) # {}
                      IN  Told(chains[c], heard[c], branched) /\ Abandoned(chains[c], heard[c], branched)

LEMMA InitChains == ChainsInit => ChainsHold
<1> SUFFICES ASSUME ChainsInit PROVE ChainsHold
  OBVIOUS
<1> DEFINE x == NewChain(0, "none")
<1>1. x \in ChainT /\ x.parent = 0 /\ x.live /\ ~x.superseded /\ ~x.awaited /\ x.coro = "none"
  BY DEF ChainT, NewChain
<1>2. chains = <<x>> /\ heard = <<{}>>
  BY DEF ChainsInit
<1> HIDE DEF x
<1>3. chains \in Seq(ChainT) /\ heard \in Seq(SUBSET Heard) /\ Len(heard) = Len(chains) /\ Chain = {1}
      /\ chains[1] = x /\ heard[1] = {}
  BY <1>1, <1>2 DEF Chain
<1>4. Branches(1) = {}
  BY <1>1, <1>3 DEF Branches
<1> QED
  BY <1>1, <1>3, <1>4 DEF ChainsHold, Told, Abandoned

\* A step on one chain that makes no other.
LEMMA BecomesHolds ==
  ASSUME ChainsHold, NEW c \in Chain, NEW x \in ChainT, Becomes(c, x), NEW h \in SUBSET Heard,
         heard' = [heard EXCEPT ![c] = h], x.parent = chains[c].parent,
         ASSUME NEW branched \in BOOLEAN, Told(chains[c], heard[c], branched), Abandoned(chains[c], heard[c], branched)
         PROVE  Told(x, h, branched) /\ Abandoned(x, h, branched)
  PROVE  ChainsHold'
<1> USE DEF ChainsHold
<1>1. /\ chains' \in Seq(ChainT) /\ heard' \in Seq(SUBSET Heard) /\ Len(heard') = Len(chains') /\ Len(chains') = Len(chains)
      /\ chains'[c] = x /\ heard'[c] = h /\ Chain' = Chain
      /\ \A d \in Chain \ {c} : chains'[d] = chains[d] /\ heard'[d] = heard[d]
  BY DEF Becomes, Chain
<1>2. \A d \in Chain : chains'[d].parent = chains[d].parent
  BY <1>1
<1>3. \A d : Branches(d)' = Branches(d)
  BY <1>1, <1>2 DEF Branches
<1>4. Told(x, h, Branches(c) # {}) /\ Abandoned(x, h, Branches(c) # {})
  <2> DEFINE branched == Branches(c) # {}
  <2>1. branched \in BOOLEAN /\ Told(chains[c], heard[c], branched) /\ Abandoned(chains[c], heard[c], branched)
    OBVIOUS
  <2> HIDE DEF branched
  <2>2. Told(x, h, branched) /\ Abandoned(x, h, branched)
    BY <2>1
  <2> QED
    BY <2>2 DEF branched
<1> QED
  BY <1>1, <1>2, <1>3, <1>4

LEMMA OneChain ==
  ASSUME ChainsHold, NEW c \in Chain
  PROVE  /\ chains[c] \in ChainT /\ heard[c] \in SUBSET Heard
         /\ UNCHANGED heard => heard' = [heard EXCEPT ![c] = heard[c]]
         /\ \A what : Hears(c, what) => heard' = [heard EXCEPT ![c] = heard[c] \cup {what}]
BY DEF ChainsHold, Chain, Hears

\* A step that the test hears nothing of.
LEMMA Unheard ==
  ASSUME ChainsHold, NEW c \in Chain,
         LooksAt(c) \/ Await(c) \/ DropIterator(c) \/ Finish(c) \/ Forget(c)
  PROVE  ChainsHold'
<1> DEFINE y == chains[c]
           h == heard[c]
<1>1. y \in ChainT /\ h \in SUBSET Heard /\ heard' = [heard EXCEPT ![c] = h]
  BY OneChain DEF LooksAt, Await, DropIterator, Finish, Forget
<1>2. PICK x : /\ Becomes(c, x)
               /\ \/ LooksAt(c) /\ x = [y EXCEPT !.coro = Made(@)]
                  \/ Await(c) /\ x = [y EXCEPT !.coro = Made(@), !.awaited = TRUE, !.iterator = TRUE]
                  \/ DropIterator(c) /\ x = [y EXCEPT !.iterator = FALSE]
                  \/ Finish(c) /\ x = [y EXCEPT !.coro = "closed"]
                  \/ Forget(c) /\ x = [y EXCEPT !.held = FALSE]
  BY DEF LooksAt, Await, DropIterator, Finish, Forget
<1>3. x \in ChainT /\ x.parent = y.parent /\ x.steps = y.steps /\ x.superseded = y.superseded /\ x.live = y.live
  BY <1>1, <1>2 DEF ChainT, Made
<1>4. \/ x.coro = Made(y.coro) /\ x.awaited = y.awaited /\ x.held = y.held /\ x.iterator = y.iterator /\ y.held
      \/ x.coro = Made(y.coro) /\ x.awaited /\ x.held = y.held /\ x.iterator /\ y.held
      \/ x.coro = y.coro /\ x.awaited = y.awaited /\ x.held = y.held /\ ~x.iterator /\ y.iterator
      \/ x.coro = "closed" /\ x.awaited = y.awaited /\ x.held = y.held /\ x.iterator = y.iterator
           /\ y.live /\ y.coro = "running"
      \/ x.coro = y.coro /\ x.awaited = y.awaited /\ ~x.held /\ x.iterator = y.iterator /\ y.held
  <2>1. CASE LooksAt(c) /\ x = [y EXCEPT !.coro = Made(@)]
    BY <1>1, <2>1 DEF ChainT, LooksAt, InHand
  <2>2. CASE Await(c) /\ x = [y EXCEPT !.coro = Made(@), !.awaited = TRUE, !.iterator = TRUE]
    BY <1>1, <2>2 DEF ChainT, Await, MayStart, InHand
  <2>3. CASE DropIterator(c) /\ x = [y EXCEPT !.iterator = FALSE]
    BY <1>1, <2>3 DEF ChainT, DropIterator
  <2>4. CASE Finish(c) /\ x = [y EXCEPT !.coro = "closed"]
    BY <1>1, <2>4 DEF ChainT, Finish
  <2>5. CASE Forget(c) /\ x = [y EXCEPT !.held = FALSE]
    BY <1>1, <2>5 DEF ChainT, Forget, InHand
  <2> QED
    BY <1>2, <2>1, <2>2, <2>3, <2>4, <2>5
<1> HIDE DEF y, h
<1>5. ASSUME NEW branched \in BOOLEAN, Told(y, h, branched), Abandoned(y, h, branched)
      PROVE  Told(x, h, branched) /\ Abandoned(x, h, branched)
  BY <1>1, <1>3, <1>4, <1>5 DEF Told, Abandoned, Made, ChainT
<1>6. Becomes(c, x) /\ x.parent = chains[c].parent
  BY <1>2, <1>3 DEF y
<1>7. ASSUME NEW branched \in BOOLEAN, Told(chains[c], heard[c], branched), Abandoned(chains[c], heard[c], branched)
      PROVE  Told(x, h, branched) /\ Abandoned(x, h, branched)
  BY <1>5, <1>7 DEF y, h
<1> QED
  BY <1>1, <1>3, <1>6, <1>7, BecomesHolds

\* A step that it hears of, when the chain refuses, runs, or is closed.
LEMMA HeardOf ==
  ASSUME ChainsHold, NEW c \in Chain,
         Refuse(c) \/ RunIterator(c) \/ Send(c) \/ Throw(c) \/ Close(c)
  PROVE  ChainsHold'
<1> DEFINE y == chains[c]
<1>1. y \in ChainT /\ heard[c] \in SUBSET Heard /\ \A what : Hears(c, what) => heard' = [heard EXCEPT ![c] = heard[c] \cup {what}]
  BY OneChain
<1>2. PICK x, what : /\ Becomes(c, x) /\ Hears(c, what)
                     /\ \/ Refuse(c) /\ what = "refused" /\ x = [y EXCEPT !.awaited = TRUE]
                        \/ RunIterator(c) /\ what = "ran" /\ x = [y EXCEPT !.coro = "running", !.awaited = TRUE]
                        \/ Send(c) /\ what = "ran" /\ x = [y EXCEPT !.coro = "running", !.awaited = TRUE]
                        \/ Throw(c) /\ what = "thrown" /\ x = [y EXCEPT !.coro = "closed", !.awaited = TRUE]
                        \/ /\ Close(c) /\ what = "discarded"
                           /\ x = [y EXCEPT !.coro = IF y.steps = "none" THEN @ ELSE "closed", !.awaited = TRUE]
  BY DEF Refuse, RunIterator, Send, Throw, Close, Begun
<1> DEFINE h == heard[c] \cup {what}
<1>3. x \in ChainT /\ x.parent = y.parent /\ x.steps = y.steps /\ x.superseded = y.superseded /\ x.live = y.live
      /\ x.held = y.held /\ x.iterator = y.iterator /\ x.awaited
  BY <1>1, <1>2 DEF ChainT
<1>4. \/ what = "refused" /\ x.coro = y.coro /\ y.held /\ y.steps # "asserts"
      \/ what = "ran" /\ x.coro = "running" /\ (y.held \/ y.iterator)
      \/ what = "thrown" /\ x.coro = "closed" /\ y.held
      \/ what = "discarded" /\ y.held /\ x.coro = IF y.steps = "none" THEN y.coro ELSE "closed"
  BY <1>1, <1>2 DEF ChainT, Refuse, RunIterator, Send, Throw, Close, MayStart, InHand
<1>5. h \in SUBSET Heard /\ heard' = [heard EXCEPT ![c] = h] /\ what \in h
  BY <1>1, <1>2, <1>4 DEF Heard
<1>6. \A v \in h : v \in heard[c] \/ v = what
  OBVIOUS
<1> HIDE DEF y, h
<1>7. ASSUME NEW branched \in BOOLEAN, Told(y, heard[c], branched), Abandoned(y, heard[c], branched)
      PROVE  Told(x, h, branched) /\ Abandoned(x, h, branched)
  BY <1>1, <1>3, <1>4, <1>5, <1>6, <1>7 DEF Told, Abandoned, ChainT
<1>8. Becomes(c, x) /\ x.parent = chains[c].parent
  BY <1>2, <1>3 DEF y
<1>9. ASSUME NEW branched \in BOOLEAN, Told(chains[c], heard[c], branched), Abandoned(chains[c], heard[c], branched)
      PROVE  Told(x, h, branched) /\ Abandoned(x, h, branched)
  BY <1>7, <1>9 DEF y
<1>10. x \in ChainT /\ h \in SUBSET Heard /\ heard' = [heard EXCEPT ![c] = h]
  BY <1>3, <1>5
<1> QED
  BY <1>8, <1>9, <1>10, BecomesHolds

\* It warns where nothing else was heard but a refusal.
LEMMA CollectHolds == ASSUME ChainsHold, NEW c \in Chain, Collect(c) PROVE ChainsHold'
<1> DEFINE y == chains[c]
           x == [y EXCEPT !.live = FALSE, !.coro = IF @ = "created" THEN "closed" ELSE @]
           h == IF Warns(y) THEN heard[c] \cup {"warned"} ELSE heard[c]
<1>1. y \in ChainT /\ heard[c] \in SUBSET Heard /\ h \in SUBSET Heard /\ heard' = [heard EXCEPT ![c] = h]
  BY OneChain DEF Collect, Heard
<1>2. x \in ChainT /\ x.parent = y.parent /\ x.steps = y.steps /\ x.superseded = y.superseded /\ ~x.live
      /\ x.held = y.held /\ x.iterator = y.iterator /\ x.awaited = y.awaited
      /\ x.coro = (IF y.coro = "created" THEN "closed" ELSE y.coro)
  BY <1>1 DEF ChainT
<1>3. Becomes(c, x) /\ y.live /\ ~y.held /\ ~y.iterator
  BY DEF Collect
<1>4. h = IF Warns(y) THEN heard[c] \cup {"warned"} ELSE heard[c]
  OBVIOUS
<1> HIDE DEF x, y, h
<1>5. ASSUME NEW branched \in BOOLEAN, Told(y, heard[c], branched), Abandoned(y, heard[c], branched)
      PROVE  Told(x, h, branched) /\ Abandoned(x, h, branched)
  <2>1. Told(x, h, branched)
    BY <1>1, <1>2, <1>3, <1>4, <1>5 DEF Told, ChainT
  <2>2. y.steps # "none" => h # {} \/ branched
    BY <1>1, <1>3, <1>4, <1>5 DEF Told, ChainT, Warns
  <2>3. "warned" \in h => h \subseteq {"warned", "refused"} /\ ~branched
    <3>1. "warned" \notin heard[c]
      BY <1>3, <1>5 DEF Told
    <3>2. Warns(y) => "ran" \notin heard[c] /\ "thrown" \notin heard[c] /\ "discarded" \notin heard[c] /\ ~branched
      BY <1>5 DEF Told, Warns
    <3> QED
      BY <1>1, <1>4, <3>1, <3>2 DEF Heard
  <2>4. {"warned", "refused"} \subseteq h => x.steps = "describes" /\ x.coro # "none"
    <3> SUFFICES ASSUME "warned" \in h, "refused" \in h PROVE x.steps = "describes" /\ x.coro # "none"
      OBVIOUS
    <3>1. "warned" \notin heard[c]
      BY <1>3, <1>5 DEF Told
    <3>2. Warns(y) /\ "refused" \in heard[c]
      BY <1>4, <3>1
    <3>3. y.awaited /\ y.steps # "asserts"
      BY <1>5, <3>2 DEF Told
    <3>4. y.steps = "describes" /\ y.coro = "created"
      BY <1>1, <3>2, <3>3 DEF Warns, ChainT
    <3> QED
      BY <1>2, <3>4
  <2> QED
    BY <1>2, <2>1, <2>2, <2>3, <2>4 DEF Abandoned
<1> QED
  BY <1>1, <1>2, <1>3, <1>5, BecomesHolds DEF y

\* A chain more, and the one it was made from has a branch.
LEMMA LinkHolds == ASSUME ChainsHold, NEW c \in Chain, NEW asserts \in BOOLEAN, Link(c, asserts) PROVE ChainsHold'
<1>0. Len(chains) + 1 \in Nat
  BY DEF ChainsHold
<1> PICK n \in Nat : n = Len(chains) + 1
  BY <1>0
<1> DEFINE y == chains[c]
           x == [y EXCEPT !.superseded = TRUE]
           steps == IF asserts THEN "asserts" ELSE IF y.steps = "none" THEN "describes" ELSE y.steps
           new == NewChain(c, steps)
           old == [chains EXCEPT ![c] = x]
<1>1. y \in ChainT /\ heard[c] \in SUBSET Heard /\ c \in Nat /\ c <= Len(chains) /\ n \in Nat
      /\ Chain = 1 .. Len(chains) /\ Len(chains) \in Nat /\ chains \in Seq(ChainT) /\ heard \in Seq(SUBSET Heard)
  BY OneChain DEF Chain, ChainsHold
<1>2. x \in ChainT /\ x = [y EXCEPT !.superseded = TRUE] /\ x.parent = y.parent /\ x.steps = y.steps /\ x.superseded
      /\ x.live = y.live /\ x.held = y.held /\ x.iterator = y.iterator /\ x.awaited = y.awaited /\ x.coro = y.coro /\ y.held
  BY <1>1 DEF ChainT, Link, InHand
<1>3. /\ new \in ChainT /\ new.parent = c /\ new.live /\ new.held /\ ~new.iterator /\ ~new.awaited /\ ~new.superseded
      /\ new.coro = "none"
  BY <1>1 DEF ChainT, NewChain
<1>4. chains' = Append(old, new) /\ heard' = Append(heard, {})
  BY DEF Link
<1> HIDE DEF x, new, steps
<1>5. old \in Seq(ChainT) /\ Len(old) = Len(chains) /\ old[c] = x /\ \A d \in Chain \ {c} : old[d] = chains[d]
  BY <1>1, <1>2 DEF Chain
<1> HIDE DEF old, y
<1>6. /\ chains' \in Seq(ChainT) /\ heard' \in Seq(SUBSET Heard) /\ Len(chains') = n /\ Len(heard') = n
      /\ Chain' = Chain \cup {n} /\ n \notin Chain /\ chains'[n] = new /\ heard'[n] = {}
      /\ chains'[c] = x /\ \A d \in Chain : heard'[d] = heard[d] /\ (d # c => chains'[d] = chains[d])
  <2>1. chains' \in Seq(ChainT) /\ Len(chains') = n /\ chains'[n] = new /\ \A d \in Chain : chains'[d] = old[d]
    BY <1>1, <1>3, <1>4, <1>5 DEF Chain
  <2>2. heard' \in Seq(SUBSET Heard) /\ Len(heard') = n /\ heard'[n] = {} /\ \A d \in Chain : heard'[d] = heard[d]
    BY <1>1, <1>4 DEF ChainsHold
  <2>3. Chain' = 1 .. n /\ n \notin Chain /\ 1 .. n = Chain \cup {n}
    BY <1>1, <2>1 DEF Chain
  <2> QED
    BY <1>5, <2>1, <2>2, <2>3
<1>7. /\ \A d \in Chain : chains'[d].parent = chains[d].parent /\ chains[d].parent < n /\ chains[d].parent \in Nat
      /\ chains'[n].parent = c
  <2>1. ASSUME NEW d \in Chain PROVE chains[d] \in ChainT /\ chains[d].parent \in Nat /\ chains[d].parent < n
    <3>1. chains[d] \in ChainT /\ chains[d].parent <= Len(chains)
      BY <1>1, OneChain DEF ChainsHold
    <3>2. chains[d].parent \in Nat
      BY <3>1 DEF ChainT
    <3> QED
      BY <1>1, <3>1, <3>2
  <2>2. ASSUME NEW d \in Chain PROVE chains'[d].parent = chains[d].parent
    BY <1>2, <1>6 DEF y
  <2> QED
    BY <1>3, <1>6, <2>1, <2>2
<1>8. Branches(c)' # {} /\ Branches(n)' = {} /\ \A d \in Chain \ {c} : Branches(d)' = Branches(d)
  <2>1. n \in Branches(c)'
    BY <1>6, <1>7 DEF Branches
  <2>2. Branches(n)' = {}
    BY <1>1, <1>6, <1>7 DEF Branches
  <2>3. \A d \in Chain \ {c} : Branches(d)' = Branches(d)
    BY <1>6, <1>7 DEF Branches
  <2> QED
    BY <2>1, <2>2, <2>3
<1>9. Told(new, {}, FALSE) /\ Abandoned(new, {}, FALSE)
  BY <1>3 DEF Told, Abandoned
<1>10. Told(x, heard[c], TRUE) /\ Abandoned(x, heard[c], TRUE)
  BY <1>2 DEF ChainsHold, Told, Abandoned, y
<1>11. ASSUME NEW d \in Chain'
       PROVE  Told(chains'[d], heard'[d], Branches(d)' # {}) /\ Abandoned(chains'[d], heard'[d], Branches(d)' # {})
  <2>1. CASE d = n
    BY <1>6, <1>8, <1>9, <2>1
  <2>2. CASE d = c
    BY <1>6, <1>8, <1>10, <2>2
  <2>3. CASE d \in Chain \ {c}
    BY <1>6, <1>8, <2>3 DEF ChainsHold
  <2> QED
    BY <1>6, <2>1, <2>2, <2>3
<1>12. \A d \in Chain' : chains'[d].parent <= Len(chains')
  <2>1. Len(chains') = n /\ c <= n /\ chains'[n].parent = c
    BY <1>1, <1>6, <1>7
  <2>2. \A d \in Chain : chains'[d].parent <= n
    BY <1>7
  <2> QED
    BY <1>6, <2>1, <2>2
<1> QED
  BY <1>6, <1>11, <1>12 DEF ChainsHold

LEMMA ChainStepHolds == ChainsHold /\ [ChainStep]_chainVars => ChainsHold'
<1> SUFFICES ASSUME ChainsHold, [ChainStep]_chainVars PROVE ChainsHold'
  OBVIOUS
<1>1. CASE UNCHANGED chainVars
  BY <1>1 DEF chainVars, ChainsHold, Chain, Branches
<1>2. ASSUME NEW c, NEW asserts \in BOOLEAN,
             \/ Link(c, asserts) \/ LooksAt(c) \/ Refuse(c) \/ Await(c) \/ DropIterator(c) \/ RunIterator(c)
             \/ Send(c) \/ Finish(c) \/ Throw(c) \/ Close(c) \/ Forget(c) \/ Collect(c)
      PROVE  ChainsHold'
  <2>1. c \in Chain
    BY <1>2 DEF Link, LooksAt, Refuse, Await, DropIterator, RunIterator, Send, Finish, Throw, Close, Forget, Collect,
                MayStart, InHand
  <2> QED
    BY <1>2, <2>1, LinkHolds, Unheard, HeardOf, CollectHolds
<1> QED
  BY <1>1, <1>2 DEF ChainStep

\* A chain that is dropped with steps on it was run, refused, discarded or handed on, or warns; and warns then only
\* (__del__, _Unawaited): in whatever order chains are branched, looked at, awaited, run and collected.
THEOREM DroppedIsHeard == ChainsSpec => []AbandonedIsHeard
<1>1. ChainsHold => AbandonedIsHeard
  BY DEF ChainsHold, AbandonedIsHeard, Abandoned
<1> QED
  BY <1>1, InitChains, ChainStepHolds, PTL DEF ChainsSpec

=============================================================================
