------------------------- MODULE PytestSession_proofs -------------------------
(***************************************************************************)
(* For any workers, tests and files, however the processes' ends reach the *)
(* controller: it names every key that tests of its own or of the workers  *)
(* it heard of share, with the number of them, and every late poll; it     *)
(* counts the distinct failing tests of those it could read; and it leaves *)
(* each source file as the user has it or with literals that every case    *)
(* which reached their calls takes, and says so where it wrote none; and   *)
(* what it says of the clusters of failures is so of the failures it read. *)
(*                                                                         *)
(* What a process noted is related to what it ran, what the controller     *)
(* merged to what those noted that it heard of, and what it says to both.  *)
(* The rewriting of a file, from its last offset to the first, is shown to *)
(* be the splice that says token by token what is put where.               *)
(*                                                                         *)
(* A list of failures is known by what it shows: which test made which     *)
(* observation. Naming a test by its worker, giving its noted rows up to   *)
(* the wire and merging them keep it, and it decides every cluster.        *)
(***************************************************************************)
EXTENDS PytestSession, FiniteSetTheorems, SequenceTheorems, WellFoundedInduction, TLAPS

-----------------------------------------------------------------------------
(* Counting one value in a sequence *)

Places(seq, x) == {i \in DOMAIN seq : seq[i] = x}

\* x is in the sequence as often as S has elements.
Tally(seq, x, S) == IsFiniteSet(S) /\ IsFiniteSet(Places(seq, x)) /\ Cardinality(Places(seq, x)) = Cardinality(S)

LEMMA Lengths ==
  ASSUME NEW T, NEW s \in Seq(T)
  PROVE  Len(s) \in Nat /\ DOMAIN s = 1 .. Len(s) /\ \A i \in DOMAIN s : s[i] \in T
OBVIOUS

LEMMA TallyNone ==
  ASSUME NEW x
  PROVE  Tally(<<>>, x, {})
<1>1. Places(<<>>, x) = {}
  BY DEF Places
<1> QED
  BY <1>1, FS_EmptySet DEF Tally

\* Two sequences, counted by sets that have nothing in common.
LEMMA TallyTogether ==
  ASSUME NEW T, NEW s \in Seq(T), NEW r \in Seq(T), NEW x, NEW S, NEW R, Tally(s, x, S), Tally(r, x, R), S \cap R = {}
  PROVE  Tally(s \o r, x, S \cup R) /\ s \o r \in Seq(T)
<1> DEFINE both == s \o r
           n == Len(s)
           moved == {n + i : i \in Places(r, x)}
           f == [i \in Places(r, x) |-> n + i]
<1>1. /\ both \in Seq(T) /\ Len(both) = n + Len(r) /\ n \in Nat /\ Len(r) \in Nat
      /\ DOMAIN s = 1 .. n /\ DOMAIN r = 1 .. Len(r) /\ DOMAIN both = 1 .. n + Len(r)
      /\ \A i \in 1 .. n : both[i] = s[i]
      /\ \A i \in 1 .. Len(r) : both[n + i] = r[i]
  OBVIOUS
<1> HIDE DEF both, n
<1>2. Places(r, x) \subseteq 1 .. Len(r) /\ Places(s, x) \subseteq 1 .. n
  BY <1>1 DEF Places
<1>3. Places(both, x) = Places(s, x) \cup moved
  <2>1. ASSUME NEW i \in Places(both, x) PROVE i \in Places(s, x) \cup moved
    <3>1. CASE i <= n
      BY <1>1, <2>1, <3>1 DEF Places
    <3>2. CASE ~(i <= n)
      <4>1. i - n \in 1 .. Len(r) /\ i = n + (i - n)
        BY <1>1, <3>2 DEF Places
      <4>2. PICK j \in 1 .. Len(r) : i = n + j
        BY <4>1
      <4>3. j \in Places(r, x)
        BY <1>1, <4>2 DEF Places
      <4> QED
        BY <4>2, <4>3
    <3> QED
      BY <3>1, <3>2
  <2>2. ASSUME NEW i \in Places(s, x) PROVE i \in Places(both, x)
    BY <1>1, <1>2 DEF Places
  <2>3. ASSUME NEW i \in Places(r, x) PROVE n + i \in Places(both, x)
    <3>1. n + i \in DOMAIN both /\ i \in 1 .. Len(r)
      BY <1>1, <1>2
    <3> QED
      BY <3>1, <1>1 DEF Places
  <2> QED
    BY <2>1, <2>2, <2>3
<1>4. f \in Bijection(Places(r, x), moved)
  <2>1. \A i, j \in Places(r, x) : n + i = n + j => i = j
    BY <1>1, <1>2
  <2> QED
    BY <2>1 DEF Bijection, Injection, IsInjective, Surjection
<1>5. IsFiniteSet(moved) /\ Cardinality(moved) = Cardinality(R) /\ IsFiniteSet(Places(s, x)) /\ IsFiniteSet(S) /\ IsFiniteSet(R)
      /\ Cardinality(Places(s, x)) = Cardinality(S)
  <2> HIDE DEF moved, f
  <2>1. ExistsBijection(Places(r, x), moved)
    BY <1>4 DEF ExistsBijection
  <2> QED
    BY <2>1, FS_Bijection DEF Tally
<1>6. Places(s, x) \cap moved = {}
  BY <1>1, <1>2
<1> HIDE DEF moved
<1>7. /\ IsFiniteSet(Places(both, x)) /\ IsFiniteSet(S \cup R)
      /\ Cardinality(Places(both, x)) = Cardinality(S) + Cardinality(R) - Cardinality({})
      /\ Cardinality(S \cup R) = Cardinality(S) + Cardinality(R) - Cardinality({})
  <2>1. IsFiniteSet(S \cup R) /\ Cardinality(S \cup R) = Cardinality(S) + Cardinality(R) - Cardinality({})
    BY <1>5, FS_Union
  <2>2. IsFiniteSet(Places(s, x) \cup moved)
        /\ Cardinality(Places(s, x) \cup moved) = Cardinality(Places(s, x)) + Cardinality(moved) - Cardinality({})
    BY <1>5, <1>6, FS_Union
  <2> QED
    BY <2>1, <2>2, <1>3, <1>5
<1> QED
  BY <1>1, <1>7 DEF Tally, both

\* The same value n times over.
Copies(n, y)   == [i \in 1 .. n |-> y]
Marks(a, b, n) == {<<a, b, m>> : m \in 1 .. n}

LEMMA TallyCopies ==
  ASSUME NEW n \in Nat, NEW y, NEW x, NEW a, NEW b
  PROVE  Tally(Copies(n, y), x, IF x = y THEN Marks(a, b, n) ELSE {})
<1> USE DEF Copies, Marks
<1> DEFINE s == Copies(n, y)
           S == Marks(a, b, n)
           f == [m \in 1 .. n |-> <<a, b, m>>]
<1>1. CASE x = y
  <2>1. Places(s, x) = 1 .. n
    BY <1>1 DEF Places
  <2>2. f \in Bijection(1 .. n, S)
    BY DEF Bijection, Injection, IsInjective, Surjection
  <2>3. ExistsBijection(1 .. n, S)
    BY <2>2 DEF ExistsBijection
  <2>4. IsFiniteSet(1 .. n)
    BY FS_Interval
  <2>5. IsFiniteSet(S) /\ Cardinality(S) = Cardinality(1 .. n)
    <3> HIDE DEF S, f
    <3> QED
      BY <2>3, <2>4, FS_Bijection
  <2> QED
    BY <1>1, <2>1, <2>4, <2>5 DEF Tally
<1>2. CASE x # y
  <2>1. Places(s, x) = {}
    BY <1>2 DEF Places
  <2> QED
    BY <1>2, <2>1, FS_EmptySet DEF Tally
<1> QED
  BY <1>1, <1>2

-----------------------------------------------------------------------------
(* The invariant *)

Test  == {k.test : k \in Case}
Done  == [case : Case, red : BOOLEAN, recorded : BOOLEAN]
Shown == [node : Test, found : {ObservationsOf(k.diff) : k \in Case}]

\* What a process ran, of what is said at the end: the tests that reached a key, and those that failed.
Reached(p, key) == {done[p][i].case.test : i \in {j \in DOMAIN done[p] : done[p][j].case.key = key}}
Red(p)          == {done[p][i].case.test : i \in {j \in DOMAIN done[p] : done[p][j].red}}

Fields == {"failures", "count", "lost", "unreadable", "collectErrors", "inline", "accesses", "retried"}

Types ==
  /\ parallel \in BOOLEAN /\ suite \in Suite
  /\ phase \in [Process -> {"idle", "running", "dead", "shipped", "down", "finished", "over"}]
  /\ done \in [Process -> Seq(Done)]
  /\ failed \in [Process -> SUBSET Test] /\ failures \in [Process -> Seq(Shown)]
  /\ retried \in [Process -> Seq(Test)] /\ DOMAIN accesses = Process
  /\ DOMAIN wire = Worker
  /\ DOMAIN collected = Fields /\ collected.retried \in Seq(Test)
  /\ collected.count \in Nat /\ collected.lost \in Nat /\ collected.unreadable \in Nat

Finished == phase[Controller] \in {"finished", "over"}

\* Who runs tests, and who has shipped what it noted.
Roles ==
  /\ \A w \in Worker : phase[w] \in IF parallel THEN {"running", "dead", "shipped", "down"} ELSE {"idle"}
  /\ ~Finished => phase[Controller] = IF parallel THEN "idle" ELSE "running"
  /\ Finished /\ parallel => \A w \in Worker : phase[w] = "down"
  /\ \A w \in Worker : /\ wire[w].present \in BOOLEAN
                       /\ wire[w].present => phase[w] \in {"shipped", "down"}
                       /\ phase[w] = "shipped" => wire[w].present

\* What is noted in a process is what its tests did.
NotedBy(p) ==
  /\ \A test \in Test : Tally(retried[p], test, Late(p, test))
  /\ ~(p = Controller /\ Finished) => \A key : key # NoKey => At(accesses[p], key, {}) = Reached(p, key)
  /\ failed[p] = Red(p) /\ IsFiniteSet(failed[p])
  /\ ~Runs(p) => done[p] = <<>> /\ failed[p] = {} /\ retried[p] = <<>>

\* A worker ships what is noted in it; what the controller can read of its failures has the right number of them.
Ships(w) ==
  wire[w].present =>
    /\ wire[w].retried = retried[w] /\ wire[w].accesses = accesses[w]
    /\ Readable(wire[w].failed) => wire[w].failed.count = Cardinality(failed[w])

\* The workers the controller heard the end of, and what those it could read failed at.
Down  == {w \in Worker : phase[w] = "down"}
Got   == {w \in Down : wire[w].present}
Clear == {w \in Got : Readable(wire[w].failed)}
RedOf(w) == {<<w, test>> : test \in failed[w]}

Merged ==
  /\ \A test \in Test : Tally(collected.retried, test, UNION {Late(w, test) : w \in Got})
  /\ ~Finished => \A key : key # NoKey => At(collected.accesses, key, {}) = UNION {Reached(w, key) : w \in Got}
  /\ IsFiniteSet(Down)
  /\ collected.lost = Cardinality(Down \ Got)
  /\ collected.unreadable = Cardinality(Got \ Clear)
  /\ IsFiniteSet(UNION {RedOf(w) : w \in Clear})
  /\ collected.count = Cardinality(UNION {RedOf(w) : w \in Clear})

\* What the controller says.
Told ==
  /\ Finished =>
       /\ \A test \in Test : Tally(polls, test, UNION {Late(p, test) : p \in Heard})
       /\ \A key : key # NoKey =>
            \A n : <<key, n>> \in swept <=>
                     n = Cardinality(UNION {Reached(p, key) : p \in Heard}) /\ n >= 2
  /\ CountsAreHonest

SessionInv ==
  /\ Types /\ Roles /\ Told /\ Merged
  /\ \A p \in Process : NotedBy(p)
  /\ \A w \in Worker : Ships(w)

LEMMA InitInv == Init => SessionInv
<1> SUFFICES ASSUME Init PROVE SessionInv
  OBVIOUS
<1> USE SessionAssumption
<1>1. Types
  BY DEF Init, Types, Process, NothingCollected, Fields, Runs, Nothing, NoWire
<1>2. Roles /\ ~Finished
  BY DEF Init, Roles, Finished, Runs, Process, NoWire
<1>3. Told
  BY <1>2 DEF Told, Finished, CountsAreHonest, Over
<1>4. \A p, test : Late(p, test) = {} \/ p \notin Process
  BY DEF Init, Late
<1>5. \A p \in Process : NotedBy(p)
  <2> SUFFICES ASSUME NEW p \in Process PROVE NotedBy(p)
    OBVIOUS
  <2>1. ASSUME NEW test \in Test PROVE Tally(retried[p], test, Late(p, test))
    BY <1>4, TallyNone DEF Init
  <2>2. \A key : At(accesses[p], key, {}) = Reached(p, key)
    BY DEF Init, At, Reached, Nothing
  <2>3. failed[p] = Red(p) /\ IsFiniteSet(failed[p])
    BY FS_EmptySet DEF Init, Red
  <2> QED
    BY <2>1, <2>2, <2>3 DEF NotedBy, Init
<1>6. \A w \in Worker : Ships(w)
  BY DEF Init, Ships, NoWire
<1>7. Merged
  <2>1. Down = {} /\ Got = {} /\ Clear = {}
    <3>1. Down = {}
      BY DEF Init, Down, Runs, Process
    <3> QED
      BY <3>1 DEF Got, Clear
  <2>2. /\ collected.retried = <<>> /\ collected.accesses = <<>> /\ collected.lost = 0 /\ collected.unreadable = 0
        /\ collected.count = 0
    BY DEF Init, NothingCollected, Nothing
  <2>3. IsFiniteSet({}) /\ Cardinality({}) = 0
    BY FS_EmptySet
  <2>4. UNION {RedOf(w) : w \in Clear} = {} /\ \A test : UNION {Late(w, test) : w \in Got} = {}
    BY <2>1
  <2>5. \A key : At(collected.accesses, key, {}) = {} /\ UNION {Reached(w, key) : w \in Got} = {}
    BY <2>1, <2>2 DEF At
  <2>6. Down \ Got = {} /\ Got \ Clear = {}
    BY <2>1
  <2>7. \A test \in Test : Tally(collected.retried, test, UNION {Late(w, test) : w \in Got})
    <3> SUFFICES ASSUME NEW test \in Test PROVE Tally(collected.retried, test, UNION {Late(w, test) : w \in Got})
      OBVIOUS
    <3>1. Tally(<<>>, test, {})
      BY TallyNone
    <3>2. UNION {Late(w, test) : w \in Got} = {}
      BY <2>4
    <3> QED
      BY <2>2, <3>1, <3>2
  <2> QED
    BY <2>1, <2>2, <2>3, <2>4, <2>5, <2>6, <2>7 DEF Merged
<1> QED
  BY <1>1, <1>2, <1>3, <1>5, <1>6, <1>7 DEF SessionInv

-----------------------------------------------------------------------------
(* What no step of another touches *)

LEMMA NotedStays ==
  ASSUME NEW p \in Process, NotedBy(p), parallel' = parallel, done'[p] = done[p], retried'[p] = retried[p],
         failed'[p] = failed[p], accesses'[p] = accesses[p] \/ (p = Controller /\ Finished'), Finished => Finished'
  PROVE  NotedBy(p)'
<1>1. \A test : Late(p, test)' = Late(p, test)
  BY DEF Late
<1>2. \A key : Reached(p, key)' = Reached(p, key)
  BY DEF Reached
<1>3. Red(p)' = Red(p)
  BY DEF Red
<1>4. Runs(p)' = Runs(p)
  BY DEF Runs
<1>5. (\A test \in Test : Tally(retried[p], test, Late(p, test)))'
  BY <1>1 DEF NotedBy, Tally
<1>6. (~(p = Controller /\ Finished) => \A key : key # NoKey => At(accesses[p], key, {}) = Reached(p, key))'
  BY <1>2 DEF NotedBy, At
<1> QED
  BY <1>3, <1>4, <1>5, <1>6 DEF NotedBy

LEMMA ShipsStays ==
  ASSUME NEW w \in Worker, Ships(w), wire'[w] = wire[w], retried'[w] = retried[w], failed'[w] = failed[w],
         accesses'[w] = accesses[w]
  PROVE  Ships(w)'
BY DEF Ships, Readable

\* The end of the session is not here yet.
LEMMA NothingTold ==
  ASSUME ~Finished'
  PROVE  Told'
BY DEF Told, Finished, CountsAreHonest, Over

LEMMA ToldStays ==
  ASSUME Told, UNCHANGED <<parallel, phase[Controller], done, wire, polls, swept, summary>>
  PROVE  Told'
<1>1. Heard' = Heard /\ Read' = Read
  BY DEF Heard, Read, Readable
<1>2. RedTests' = RedTests
  BY <1>1 DEF RedTests, Ran
<1>3. CountsAreHonest'
  BY <1>1, <1>2 DEF Told, CountsAreHonest, Over
<1>4. \A p, test : Late(p, test)' = Late(p, test)
  BY DEF Late
<1>5. \A p, key : Reached(p, key)' = Reached(p, key)
  BY DEF Reached
<1>6. Finished' => Finished
  BY DEF Finished
<1>7. ASSUME Finished', NEW test \in Test PROVE Tally(polls, test, UNION {Late(p, test) : p \in Heard})'
  BY <1>1, <1>4, <1>6, <1>7 DEF Told, Tally
<1>8. ASSUME Finished', NEW key, key # NoKey, NEW n
      PROVE  (<<key, n>> \in swept <=> n = Cardinality(UNION {Reached(p, key) : p \in Heard}) /\ n >= 2)'
  BY <1>1, <1>5, <1>6, <1>8 DEF Told
<1> QED
  BY <1>3, <1>7, <1>8 DEF Told

LEMMA MergedStays ==
  ASSUME Merged, Types, Down' = Down, Finished => Finished',
         collected'.retried = collected.retried, collected'.lost = collected.lost, collected'.count = collected.count,
         collected'.unreadable = collected.unreadable, collected'.accesses = collected.accesses \/ Finished',
         \A w \in Down : wire'[w] = wire[w] /\ done'[w] = done[w] /\ failed'[w] = failed[w]
  PROVE  Merged'
<1>1. Got' = Got /\ Clear' = Clear
  <2>1. Got' = Got
    BY DEF Got
  <2>2. \A w \in Got : Readable(wire[w].failed)' <=> Readable(wire[w].failed)
    <3> SUFFICES ASSUME NEW w \in Got PROVE Readable(wire[w].failed)' <=> Readable(wire[w].failed)
      OBVIOUS
    <3>1. wire'[w] = wire[w]
      BY DEF Got
    <3> QED
      BY <3>1 DEF Readable
  <2> QED
    BY <2>1, <2>2 DEF Clear
<1>2. \A w \in Got : \A test : Late(w, test)' = Late(w, test)
  BY DEF Late, Got
<1>3. \A w \in Got : \A key : Reached(w, key)' = Reached(w, key)
  BY DEF Reached, Got
<1>4. \A w \in Clear : RedOf(w)' = RedOf(w)
  BY DEF RedOf, Clear, Got
<1>5. (UNION {RedOf(w) : w \in Clear})' = UNION {RedOf(w) : w \in Clear}
  BY <1>1, <1>4
<1>6. \A test : (UNION {Late(w, test) : w \in Got})' = UNION {Late(w, test) : w \in Got}
  BY <1>1, <1>2
<1>7. \A key : (UNION {Reached(w, key) : w \in Got})' = UNION {Reached(w, key) : w \in Got}
  BY <1>1, <1>3
<1>8. (\A test \in Test : Tally(collected.retried, test, UNION {Late(w, test) : w \in Got}))'
  BY <1>6 DEF Merged, Tally
<1>9. (~Finished => \A key : key # NoKey => At(collected.accesses, key, {}) = UNION {Reached(w, key) : w \in Got})'
  <2> SUFFICES ASSUME ~Finished', NEW key, key # NoKey
               PROVE  (At(collected.accesses, key, {}) = UNION {Reached(w, key) : w \in Got})'
    OBVIOUS
  <2>1. At(collected.accesses, key, {})' = At(collected.accesses, key, {})
    BY DEF At
  <2>2. At(collected.accesses, key, {}) = UNION {Reached(w, key) : w \in Got}
    BY DEF Merged
  <2> QED
    BY <1>7, <2>1, <2>2
<1> QED
  BY <1>1, <1>5, <1>8, <1>9 DEF Merged

-----------------------------------------------------------------------------
(* The steps *)

LEMMA Apart ==
  ASSUME Types
  PROVE  /\ Controller \in Process /\ Controller \notin Worker
         /\ \A w \in Worker : w \in Process /\ w # Controller
BY SessionAssumption DEF Process

LEMMA UserEditsInv == ASSUME SessionInv, NEW file, UserEdits(file) PROVE SessionInv'
<1> USE DEF UserEdits, held, result
<1>1. Types' /\ Roles' /\ Finished' = Finished
  BY DEF SessionInv, Types, Roles, Finished
<1>2. Told'
  BY ToldStays DEF SessionInv
<1>3. Merged'
  <2>1. Down' = Down
    BY DEF Down
  <2> QED
    BY <1>1, <2>1, MergedStays DEF SessionInv
<1>4. \A p \in Process : NotedBy(p)'
  BY <1>1, NotedStays DEF SessionInv
<1>5. \A w \in Worker : Ships(w)'
  BY ShipsStays DEF SessionInv
<1> QED
  BY <1>1, <1>2, <1>3, <1>4, <1>5 DEF SessionInv

LEMMA CollectFailsInv == ASSUME SessionInv, CollectFails PROVE SessionInv'
<1> USE DEF CollectFails, held, result, history
<1>0. /\ DOMAIN collected' = DOMAIN collected
      /\ \A field \in Fields : field # "collectErrors" => collected'[field] = collected[field]
  BY DEF SessionInv, Types, Fields
<1>1. Types' /\ Roles' /\ Finished' = Finished
  <2>1. Types'
    BY <1>0 DEF SessionInv, Types, Fields
  <2> QED
    BY <2>1 DEF SessionInv, Roles, Finished
<1>2. Told'
  BY ToldStays DEF SessionInv
<1>3. Merged'
  <2>1. Down' = Down
    BY DEF Down
  <2>2. /\ collected'.retried = collected.retried /\ collected'.lost = collected.lost
        /\ collected'.count = collected.count /\ collected'.unreadable = collected.unreadable
        /\ collected'.accesses = collected.accesses
    BY <1>0 DEF Fields
  <2> QED
    BY <1>1, <2>1, <2>2, MergedStays DEF SessionInv
<1>4. \A p \in Process : NotedBy(p)'
  BY <1>1, NotedStays DEF SessionInv
<1>5. \A w \in Worker : Ships(w)'
  BY ShipsStays DEF SessionInv
<1> QED
  BY <1>1, <1>2, <1>3, <1>4, <1>5 DEF SessionInv

LEMMA DiesInv == ASSUME SessionInv, NEW w \in Worker, Dies(w) PROVE SessionInv'
<1> USE DEF Dies, held, result, history
<1>0. parallel /\ ~Finished /\ w # Controller /\ w \in Process
  BY Apart DEF SessionInv, Types, Roles
<1>1. Types' /\ ~Finished'
  BY <1>0, Apart DEF SessionInv, Types, Finished
<1>2. Roles'
  BY <1>0, <1>1, Apart DEF SessionInv, Types, Roles, Finished
<1>3. Told'
  BY <1>1, NothingTold
<1>4. Merged'
  <2>1. Down' = Down
    BY <1>0, Apart DEF Down, SessionInv, Types
  <2> QED
    BY <1>0, <2>1, MergedStays DEF SessionInv
<1>5. \A p \in Process : NotedBy(p)'
  BY <1>0, NotedStays DEF SessionInv
<1>6. \A v \in Worker : Ships(v)'
  BY ShipsStays DEF SessionInv
<1> QED
  BY <1>1, <1>2, <1>3, <1>4, <1>5, <1>6 DEF SessionInv

\* A worker ships its count as it is, or one that is refused.
LEMMA GarbledCounts ==
  ASSUME NEW w \in Worker, Types, NEW g, IsFiniteSet(failed[w]),
         LET true == [present |-> TRUE, failures |-> failures[w], count |-> Cardinality(failed[w]), isCount |-> TRUE]
         IN  g \in {true} \cup Garbled(true),
         Readable(g)
  PROVE  g.count = Cardinality(failed[w])
<1> DEFINE true == [present |-> TRUE, failures |-> failures[w], count |-> Cardinality(failed[w]), isCount |-> TRUE]
           nodes == {failures[w][i].node : i \in DOMAIN failures[w]}
<1>1. IsFiniteSet(nodes) /\ Cardinality(nodes) \in Nat
  <2>1. w \in Process /\ failures[w] \in Seq(Shown)
    BY Apart DEF Types
  <2>2. PICK n \in Nat : DOMAIN failures[w] = 1 .. n
    BY <2>1, Lengths
  <2>3. IsFiniteSet(DOMAIN failures[w])
    BY <2>2, FS_Interval
  <2>4. IsFiniteSet(nodes)
    <3> DEFINE f == [i \in DOMAIN failures[w] |-> failures[w][i].node]
    <3>1. f \in Surjection(DOMAIN failures[w], nodes)
      BY DEF Surjection
    <3> HIDE DEF f, nodes
    <3> QED
      BY <2>3, <3>1, FS_Surjection
  <2> QED
    BY <2>4, FS_CardinalityType
<1>2. CASE g = true
  BY <1>2
<1>3. CASE g = [present |-> FALSE]
  BY <1>3 DEF Readable
<1>4. CASE g = [true EXCEPT !.isCount = FALSE]
  <2>1. ~g.isCount
    BY <1>4
  <2> QED
    BY <2>1 DEF Readable
<1>5. CASE \E n \in 0 .. Cardinality(nodes) - 1 : g = [true EXCEPT !.count = n]
  <2>1. PICK n \in 0 .. Cardinality(nodes) - 1 : g = [true EXCEPT !.count = n]
    BY <1>5
  <2>2. g.count = n /\ g.failures = failures[w]
    BY <2>1
  <2>3. n >= Cardinality(nodes)
    BY <2>2 DEF Readable
  <2>4. FALSE
    <3> HIDE DEF nodes
    <3> QED
      BY <1>1, <2>1, <2>3
  <2> QED
    BY <2>4
<1>6. CASE \E i \in DOMAIN failures[w] : g = [true EXCEPT !.failures[i].found[1].signature.where = <<"nowhere">>]
  BY <1>6
<1>7. true.failures = failures[w]
  OBVIOUS
<1>8. {true.failures[i].node : i \in DOMAIN true.failures} = nodes
  OBVIOUS
<1>9. g = true \/ g \in Garbled(true)
  OBVIOUS
<1> HIDE DEF true
<1>10. CASE g \in Garbled(true)
  <2>1. g \in {[true EXCEPT !.count = n] : n \in 0 .. Cardinality(nodes) - 1} => g.count = Cardinality(failed[w])
    BY <1>5
  <2>2. g \in {[true EXCEPT !.failures[i].found[1].signature.where = <<"nowhere">>] :
                 i \in {j \in DOMAIN failures[w] : failures[w][j].found[1].signature.located}} =>
          g.count = Cardinality(failed[w])
    BY <1>6
  <2>3. g \in {[present |-> FALSE], [true EXCEPT !.isCount = FALSE]} => g.count = Cardinality(failed[w])
    BY <1>3, <1>4
  <2> HIDE DEF nodes
  <2> QED
    BY <1>7, <1>8, <1>10, <2>1, <2>2, <2>3 DEF Garbled
<1> QED
  BY <1>2, <1>9, <1>10

LEMMA FinishesInv == ASSUME SessionInv, NEW w \in Worker, Finishes(w) PROVE SessionInv'
<1> USE DEF Finishes, held, result, history
<1>0. parallel /\ ~Finished /\ w # Controller /\ w \in Process
  BY Apart DEF SessionInv, Types, Roles
<1>a. PICK shipped :
        /\ LET true == [present |-> TRUE, failures |-> failures[w], count |-> Cardinality(failed[w]), isCount |-> TRUE]
           IN  shipped \in {true} \cup Garbled(true)
        /\ wire' = [wire EXCEPT ![w] = [present |-> TRUE, failed |-> shipped, inline |-> Shipped(seen[w]),
                                        retried |-> retried[w], accesses |-> accesses[w]]]
  OBVIOUS
<1>b. /\ wire'[w].present /\ wire'[w].failed = shipped /\ wire'[w].retried = retried[w] /\ wire'[w].accesses = accesses[w]
      /\ \A v \in Worker : v # w => wire'[v] = wire[v]
      /\ wire'[w].present \in BOOLEAN /\ DOMAIN wire' = Worker
  BY <1>a DEF SessionInv, Types
<1>1. Types' /\ ~Finished'
  BY <1>0, <1>b, Apart DEF SessionInv, Types, Finished
<1>2. Roles'
  BY <1>0, <1>b, <1>1, Apart DEF SessionInv, Types, Roles, Finished
<1>3. Told'
  BY <1>1, NothingTold
<1>4. Merged'
  <2>1. Down' = Down /\ w \notin Down
    BY <1>0, Apart DEF Down, SessionInv, Types
  <2>2. \A v \in Down : wire'[v] = wire[v]
    BY <2>1, <1>b DEF Down
  <2> QED
    BY <1>0, <2>1, <2>2, MergedStays DEF SessionInv
<1>5. \A p \in Process : NotedBy(p)'
  BY <1>0, NotedStays DEF SessionInv
<1>6. Ships(w)'
  <2>1. IsFiniteSet(failed[w])
    BY <1>0 DEF SessionInv, NotedBy
  <2>2. Readable(shipped) => shipped.count = Cardinality(failed[w])
    BY <1>a, <2>1, GarbledCounts DEF SessionInv
  <2> QED
    BY <1>b, <2>2 DEF Ships
<1>7. \A v \in Worker : Ships(v)'
  BY <1>6, <1>b, ShipsStays DEF SessionInv
<1> QED
  BY <1>1, <1>2, <1>3, <1>4, <1>5, <1>7 DEF SessionInv

\* What one more phase adds to what a process ran.
LEMMA RanOn ==
  ASSUME NEW p \in Process, Types, NEW r \in Done, done'[p] = Append(done[p], r)
  PROVE  /\ done'[p] \in Seq(Done)
         /\ \A test \in Test :
              /\ Late(p, test)' = Late(p, test) \cup
                   (IF test = r.case.test THEN Marks(p, Len(done[p]) + 1, r.case.late) ELSE {})
              /\ Late(p, test) \cap Marks(p, Len(done[p]) + 1, r.case.late) = {}
         /\ \A key : Reached(p, key)' = Reached(p, key) \cup (IF r.case.key = key THEN {r.case.test} ELSE {})
         /\ Red(p)' = Red(p) \cup (IF r.red THEN {r.case.test} ELSE {})
<1> DEFINE old == done[p]
           new == done'[p]
           n == Len(done[p])
<1>1. /\ old \in Seq(Done) /\ new \in Seq(Done) /\ n \in Nat
      /\ DOMAIN old = 1 .. n /\ DOMAIN new = 1 .. n + 1
      /\ (\A i \in 1 .. n : new[i] = old[i]) /\ new[n + 1] = r
  BY DEF Types
<1>2. DOMAIN new = DOMAIN old \cup {n + 1} /\ n + 1 \notin DOMAIN old /\ \A i \in DOMAIN old : new[i] = old[i]
  BY <1>1
<1> HIDE DEF old, new, n
<1>3. \A test \in Test :
        {i \in DOMAIN new : new[i].case.test = test} =
          {i \in DOMAIN old : old[i].case.test = test} \cup (IF test = r.case.test THEN {n + 1} ELSE {})
  BY <1>1, <1>2
<1>4. \A test \in Test : Late(p, test)' = UNION {Marks(p, i, new[i].case.late) :
                                                  i \in {j \in DOMAIN new : new[j].case.test = test}}
  BY DEF Late, Marks, new
<1>5. \A test \in Test : Late(p, test) = UNION {Marks(p, i, old[i].case.late) :
                                                 i \in {j \in DOMAIN old : old[j].case.test = test}}
  BY DEF Late, Marks, old
<1>6. ASSUME NEW test \in Test
      PROVE  /\ Late(p, test)' = Late(p, test) \cup
                  (IF test = r.case.test THEN Marks(p, n + 1, r.case.late) ELSE {})
             /\ Late(p, test) \cap Marks(p, n + 1, r.case.late) = {}
  <2>1. \A x : x \in Late(p, test)' <=> \E i \in {j \in DOMAIN new : new[j].case.test = test} :
                                           x \in Marks(p, i, new[i].case.late)
    BY <1>4
  <2>2. \A x : x \in Late(p, test) <=> \E i \in {j \in DOMAIN old : old[j].case.test = test} :
                                           x \in Marks(p, i, old[i].case.late)
    BY <1>5
  <2>3. \A i \in DOMAIN old : Marks(p, i, new[i].case.late) = Marks(p, i, old[i].case.late)
    BY <1>2
  <2>4. Marks(p, n + 1, new[n + 1].case.late) = Marks(p, n + 1, r.case.late)
    BY <1>1
  <2>5. \A x : x \in Late(p, test)' <=>
                 x \in Late(p, test) \/ (test = r.case.test /\ x \in Marks(p, n + 1, r.case.late))
    <3> SUFFICES ASSUME NEW x
                 PROVE  x \in Late(p, test)' <=>
                          x \in Late(p, test) \/ (test = r.case.test /\ x \in Marks(p, n + 1, r.case.late))
      OBVIOUS
    <3>1. ASSUME NEW i \in {j \in DOMAIN new : new[j].case.test = test}, x \in Marks(p, i, new[i].case.late)
          PROVE  x \in Late(p, test) \/ (test = r.case.test /\ x \in Marks(p, n + 1, r.case.late))
      <4>1. CASE i = n + 1
        BY <3>1, <4>1, <2>4, <1>1
      <4>2. CASE i \in DOMAIN old
        BY <3>1, <4>2, <2>2, <2>3, <1>2
      <4> QED
        BY <4>1, <4>2, <1>2
    <3>2. ASSUME NEW i \in {j \in DOMAIN old : old[j].case.test = test}, x \in Marks(p, i, old[i].case.late)
          PROVE  x \in Late(p, test)'
      <4>1. i \in {j \in DOMAIN new : new[j].case.test = test} /\ x \in Marks(p, i, new[i].case.late)
        BY <3>2, <2>3, <1>2
      <4> QED
        BY <4>1, <2>1
    <3>3. ASSUME test = r.case.test, x \in Marks(p, n + 1, r.case.late)
          PROVE  x \in Late(p, test)'
      <4>1. n + 1 \in {j \in DOMAIN new : new[j].case.test = test}
        BY <3>3, <1>1, <1>2
      <4>2. x \in Marks(p, n + 1, new[n + 1].case.late)
        BY <3>3, <2>4
      <4> QED
        BY <4>1, <4>2, <2>1
    <3> QED
      BY <3>1, <3>2, <3>3, <2>1, <2>2
  <2>6. ASSUME NEW x \in Late(p, test), x \in Marks(p, n + 1, r.case.late) PROVE FALSE
    BY <2>2, <2>6, <1>2 DEF Marks
  <2> QED
    BY <2>5, <2>6
<1>7. \A key : Reached(p, key)' = {new[i].case.test : i \in {j \in DOMAIN new : new[j].case.key = key}}
  BY DEF Reached, new
<1>8. \A key : Reached(p, key) = {old[i].case.test : i \in {j \in DOMAIN old : old[j].case.key = key}}
  BY DEF Reached, old
<1>9. ASSUME NEW key PROVE Reached(p, key)' = Reached(p, key) \cup (IF r.case.key = key THEN {r.case.test} ELSE {})
  BY <1>1, <1>2, <1>7, <1>8
<1>10. Red(p)' = {new[i].case.test : i \in {j \in DOMAIN new : new[j].red}}
  BY DEF Red, new
<1>11. Red(p) = {old[i].case.test : i \in {j \in DOMAIN old : old[j].red}}
  BY DEF Red, old
<1>12. Red(p)' = Red(p) \cup (IF r.red THEN {r.case.test} ELSE {})
  BY <1>1, <1>2, <1>10, <1>11
<1> QED
  BY <1>1, <1>6, <1>9, <1>12 DEF n, new

LEMMA RunPhaseInv ==
  ASSUME SessionInv, NEW p \in Process, NEW k \in suite.tests, NEW found \in BOOLEAN, RunPhase(p, k, found)
  PROVE  SessionInv'
<1> DEFINE inline == IF k.reach = NoReach THEN "none" ELSE Outcome(k.reach, found)
           nodes  == At(accesses[p], k.key, {})
           red    == k.fails \/ inline = "raises" \/ (IsWarned(nodes, k) /\ Escalated)
           r      == [case |-> k, red |-> red, recorded |-> inline = "records"]
           copies == Copies(k.late, k.test)
<1>1. /\ phase[p] = "running" /\ phase' = phase /\ parallel' = parallel /\ suite' = suite /\ wire' = wire
      /\ collected' = collected
      /\ accesses' = IF k.key = NoKey THEN accesses ELSE [accesses EXCEPT ![p] = Put(@, k.key, nodes \cup {k.test})]
      /\ retried' = [retried EXCEPT ![p] = @ \o copies]
      /\ failed' = IF red THEN [failed EXCEPT ![p] = @ \cup {k.test}] ELSE failed
      /\ failures' = IF red THEN [failures EXCEPT ![p] = ForClustering(@, k)] ELSE failures
      /\ done' = [done EXCEPT ![p] = Append(@, r)]
  BY DEF RunPhase, result, Copies
<1>2. k \in Case /\ k.test \in Test /\ k.fails \in BOOLEAN /\ k.late \in Nat
  BY SessionAssumption DEF SessionInv, Types, Test
<1>3. ~Finished /\ Runs(p)
  BY <1>1, Apart DEF SessionInv, Types, Roles, Finished, Runs, Process
<1>4. r \in Done
  <2>1. (inline = "raises") \in BOOLEAN /\ (inline = "records") \in BOOLEAN
    OBVIOUS
  <2> HIDE DEF inline, nodes
  <2>2. red \in BOOLEAN
    BY <1>2, <2>1
  <2> QED
    BY <1>2, <2>1, <2>2 DEF Done
<1> HIDE DEF red, inline, nodes
<1>5. /\ done'[p] = Append(done[p], r) /\ retried'[p] = retried[p] \o copies
      /\ \A q \in Process : q # p => done'[q] = done[q] /\ retried'[q] = retried[q] /\ accesses'[q] = accesses[q]
                                     /\ failed'[q] = failed[q]
      /\ DOMAIN accesses' = Process
      /\ failed'[p] = failed[p] \cup (IF red THEN {k.test} ELSE {})
  BY <1>1 DEF SessionInv, Types
<1>6. r.case = k /\ r.red = red
  OBVIOUS
<1> HIDE DEF r
<1>7. copies \in Seq(Test) /\ retried'[p] \in Seq(Test)
  <2>1. copies \in Seq(Test)
    BY <1>2 DEF Copies
  <2> HIDE DEF copies
  <2> QED
    BY <1>5, <2>1 DEF SessionInv, Types
<1>8. Types' /\ ~Finished'
  <2>1. failures' \in [Process -> Seq(Shown)]
    <3>1. CASE red
      <4>1. ForClustering(failures[p], k) \in Seq(Shown)
        <5> DEFINE shown == IF k.fails THEN ObservationsOf(k.diff) ELSE <<>>
        <5>1. CASE shown = <<>>
          BY <5>1 DEF ForClustering, SessionInv, Types
        <5>2. CASE shown # <<>>
          <6>1. shown = ObservationsOf(k.diff)
            BY <5>2, <1>2
          <6>2. [node |-> k.test, found |-> shown] \in Shown
            BY <6>1, <1>2 DEF Shown
          <6> HIDE DEF shown
          <6>3. Append(failures[p], [node |-> k.test, found |-> shown]) \in Seq(Shown)
            BY <6>2 DEF SessionInv, Types
          <6> QED
            BY <6>3, <5>2 DEF ForClustering, shown
        <5> QED
          BY <5>1, <5>2
      <4> QED
        BY <1>1, <3>1, <4>1 DEF SessionInv, Types
    <3>2. CASE ~red
      BY <1>1, <3>2 DEF SessionInv, Types
    <3> QED
      BY <3>1, <3>2
  <2>2. done' \in [Process -> Seq(Done)]
    BY <1>1, <1>4 DEF SessionInv, Types
  <2>3. failed' \in [Process -> SUBSET Test]
    BY <1>1, <1>2 DEF SessionInv, Types
  <2>4. retried' \in [Process -> Seq(Test)]
    BY <1>1, <1>5, <1>7 DEF SessionInv, Types
  <2> QED
    BY <1>1, <1>3, <1>5, <2>1, <2>2, <2>3, <2>4 DEF SessionInv, Types, Finished
<1>9. Roles'
  BY <1>1, <1>3, <1>8 DEF SessionInv, Roles, Finished
<1>10. Told'
  BY <1>8, NothingTold
<1>11. Merged'
  <2>1. Down' = Down /\ p \notin Down
    BY <1>1 DEF Down
  <2>2. \A w \in Down : wire'[w] = wire[w] /\ done'[w] = done[w] /\ failed'[w] = failed[w]
    BY <2>1, <1>1, <1>5 DEF Down, Process
  <2> QED
    BY <1>1, <1>3, <2>1, <2>2, MergedStays DEF SessionInv
<1>12. NotedBy(p)'
  <2>1. /\ \A test \in Test :
             /\ Late(p, test)' = Late(p, test) \cup
                  (IF test = k.test THEN Marks(p, Len(done[p]) + 1, k.late) ELSE {})
             /\ Late(p, test) \cap Marks(p, Len(done[p]) + 1, k.late) = {}
        /\ \A key : Reached(p, key)' = Reached(p, key) \cup (IF k.key = key THEN {k.test} ELSE {})
        /\ Red(p)' = Red(p) \cup (IF red THEN {k.test} ELSE {})
    BY <1>4, <1>5, <1>6, RanOn DEF SessionInv
  <2>2. NotedBy(p)
    BY DEF SessionInv
  <2>3. ASSUME NEW test \in Test PROVE Tally(retried[p], test, Late(p, test))'
    <3> DEFINE more == IF test = k.test THEN Marks(p, Len(done[p]) + 1, k.late) ELSE {}
    <3>1. Tally(copies, test, more)
      <4>1. Tally(Copies(k.late, k.test), test, IF test = k.test THEN Marks(p, Len(done[p]) + 1, k.late) ELSE {})
        BY <1>2, TallyCopies
      <4> QED
        BY <4>1
    <3>2. Tally(retried[p], test, Late(p, test))
      BY <2>2 DEF NotedBy
    <3>3. Late(p, test) \cap more = {}
      BY <2>1
    <3>4. retried[p] \in Seq(Test)
      BY DEF SessionInv, Types
    <3> HIDE DEF more
    <3>5. Tally(retried[p] \o copies, test, Late(p, test) \cup more)
      BY <1>7, <3>1, <3>2, <3>3, <3>4, TallyTogether
    <3>6. Late(p, test)' = Late(p, test) \cup more
      BY <2>1 DEF more
    <3> QED
      BY <1>5, <3>5, <3>6
  <2>4. ASSUME NEW key, key # NoKey PROVE (At(accesses[p], key, {}) = Reached(p, key))'
    <3>0. At(accesses[p], key, {}) = Reached(p, key)
      BY <1>3, <2>2, <2>4 DEF NotedBy
    <3>1. CASE k.key = NoKey
      <4>1. accesses' = accesses
        BY <1>1, <3>1
      <4>2. Reached(p, key)' = Reached(p, key) \cup (IF k.key = key THEN {k.test} ELSE {})
        BY <2>1
      <4>3. k.key # key
        BY <2>4, <3>1
      <4>4. Reached(p, key)' = Reached(p, key)
        BY <4>2, <4>3
      <4> QED
        BY <3>0, <4>1, <4>4 DEF At
    <3>2. CASE k.key # NoKey
      <4>1. accesses'[p] = Put(accesses[p], k.key, nodes \cup {k.test})
        BY <1>1, <3>2 DEF SessionInv, Types
      <4>2. At(accesses'[p], key, {}) = IF key = k.key THEN nodes \cup {k.test} ELSE At(accesses[p], key, {})
        BY <4>1 DEF At, Put
      <4>3. key = k.key => nodes = Reached(p, key)
        BY <3>0 DEF nodes
      <4>4. At(accesses[p], key, {})' = At(accesses'[p], key, {})
        BY DEF At
      <4>5. Reached(p, key)' = Reached(p, key) \cup (IF k.key = key THEN {k.test} ELSE {})
        BY <2>1
      <4> QED
        BY <3>0, <4>2, <4>3, <4>4, <4>5
    <3> QED
      BY <3>1, <3>2
  <2>5. failed'[p] = Red(p)' /\ IsFiniteSet(failed'[p])
    <3>1. failed[p] = Red(p) /\ IsFiniteSet(failed[p])
      BY <2>2 DEF NotedBy
    <3>2. CASE red
      <4>1. failed'[p] = failed[p] \cup {k.test}
        BY <1>5, <3>2
      <4>2. Red(p)' = Red(p) \cup {k.test}
        BY <2>1, <3>2
      <4>3. IsFiniteSet(failed[p] \cup {k.test})
        BY <3>1, FS_AddElement
      <4> QED
        BY <3>1, <4>1, <4>2, <4>3
    <3>3. CASE ~red
      <4>1. failed'[p] = failed[p] /\ Red(p)' = Red(p)
        BY <1>5, <2>1, <3>3
      <4> QED
        BY <3>1, <4>1
    <3> QED
      BY <3>2, <3>3
  <2>6. Runs(p)'
    BY <1>1, <1>3 DEF Runs
  <2>7. (\A key : key # NoKey => At(accesses[p], key, {}) = Reached(p, key))'
    BY <2>4
  <2>8. (\A test \in Test : Tally(retried[p], test, Late(p, test)))'
    BY <2>3
  <2> QED
    BY <2>5, <2>6, <2>7, <2>8 DEF NotedBy
<1>13. \A q \in Process : NotedBy(q)'
  <2> SUFFICES ASSUME NEW q \in Process, q # p PROVE NotedBy(q)'
    BY <1>12
  <2> QED
    BY <1>1, <1>3, <1>5, NotedStays DEF SessionInv
<1>14. \A w \in Worker : Ships(w)'
  <2> SUFFICES ASSUME NEW w \in Worker PROVE Ships(w)'
    OBVIOUS
  <2>1. CASE w = p
    BY <1>1, <2>1 DEF SessionInv, Roles, Ships
  <2>2. CASE w # p
    BY <1>1, <1>5, <2>2, ShipsStays, Apart DEF SessionInv
  <2> QED
    BY <2>1, <2>2
<1> QED
  BY <1>8, <1>9, <1>10, <1>11, <1>13, <1>14 DEF SessionInv

LEMMA RedCounts ==
  ASSUME NEW w, IsFiniteSet(failed[w])
  PROVE  IsFiniteSet(RedOf(w)) /\ Cardinality(RedOf(w)) = Cardinality(failed[w])
<1> DEFINE f == [test \in failed[w] |-> <<w, test>>]
<1>1. f \in Bijection(failed[w], RedOf(w))
  BY DEF Bijection, Injection, IsInjective, Surjection, RedOf
<1> HIDE DEF f
<1>2. ExistsBijection(failed[w], RedOf(w))
  BY <1>1 DEF ExistsBijection
<1> QED
  BY <1>2, FS_Bijection

\* What the controller keeps of a worker it heard, field by field.
LEMMA MergedFields ==
  ASSUME Types, NEW w \in Worker, NodeDown(w), phase[w] = "shipped"
  PROVE  /\ DOMAIN collected' = Fields
         /\ collected'.retried = collected.retried \o wire[w].retried
         /\ collected'.accesses = Unioned(collected.accesses, wire[w].accesses)
         /\ collected'.lost = collected.lost
         /\ collected'.unreadable = IF Readable(wire[w].failed) THEN collected.unreadable ELSE collected.unreadable + 1
         /\ collected'.count = IF Readable(wire[w].failed) THEN collected.count + wire[w].failed.count
                               ELSE collected.count
<1> DEFINE merged == Taken(collected, w, wire[w].failed)
<1>1. collected' = [merged EXCEPT !.inline = @ \cup wire[w].inline, !.retried = @ \o wire[w].retried,
                                  !.accesses = Unioned(@, wire[w].accesses)]
  BY DEF NodeDown
<1>2. /\ DOMAIN merged = Fields
      /\ merged.retried = collected.retried /\ merged.accesses = collected.accesses /\ merged.lost = collected.lost
      /\ merged.unreadable = IF Readable(wire[w].failed) THEN collected.unreadable ELSE collected.unreadable + 1
      /\ merged.count = IF Readable(wire[w].failed) THEN collected.count + wire[w].failed.count ELSE collected.count
  BY DEF Taken, Types, Fields
<1> HIDE DEF merged
<1> QED
  BY <1>1, <1>2 DEF Fields

LEMMA NodeDownInv == ASSUME SessionInv, NEW w \in Worker, NodeDown(w) PROVE SessionInv'
<1>0. /\ phase[w] \in {"dead", "shipped"} /\ phase' = [phase EXCEPT ![w] = "down"]
      /\ parallel' = parallel /\ suite' = suite /\ wire' = wire /\ done' = done /\ failed' = failed
      /\ failures' = failures /\ retried' = retried /\ accesses' = accesses
  BY DEF NodeDown, held, history
<1>a. phase' \in [Process -> {"idle", "running", "dead", "shipped", "down", "finished", "over"}]
  BY <1>0 DEF SessionInv, Types
<1>1. parallel /\ ~Finished /\ w # Controller /\ w \in Process /\ ~Finished'
  BY <1>0, Apart DEF SessionInv, Types, Roles, Finished
<1>2. /\ Down' = Down \cup {w} /\ w \notin Down
      /\ Got' = Got \cup (IF phase[w] = "shipped" THEN {w} ELSE {})
      /\ Clear' = Clear \cup (IF phase[w] = "shipped" /\ Readable(wire[w].failed) THEN {w} ELSE {})
      /\ Got \subseteq Down /\ Clear \subseteq Got
  <2>1. Down' = Down \cup {w} /\ w \notin Down /\ w \in Worker
    BY <1>0, <1>1, Apart DEF SessionInv, Types, Down
  <2>2. wire[w].present <=> phase[w] = "shipped"
    BY <1>0 DEF SessionInv, Roles
  <2>3. Got' = {v \in Down' : wire[v].present}
    BY <1>0 DEF Got
  <2>4. Clear' = {v \in Got' : Readable(wire[v].failed)}
    BY <1>0 DEF Clear, Readable
  <2>5. Got' = Got \cup (IF phase[w] = "shipped" THEN {w} ELSE {})
    BY <2>1, <2>2, <2>3 DEF Got
  <2> QED
    BY <2>1, <2>4, <2>5 DEF Got, Clear
<1>3. \A v, test : Late(v, test)' = Late(v, test)
  BY <1>0 DEF Late
<1>4. \A v, key : Reached(v, key)' = Reached(v, key)
  BY <1>0 DEF Reached
<1>5. \A v : RedOf(v)' = RedOf(v)
  BY <1>0 DEF RedOf
<1>6. /\ IsFiniteSet(Down) /\ IsFiniteSet(Down') /\ IsFiniteSet(Down \ Got) /\ IsFiniteSet(Got \ Clear)
      /\ w \notin Down \ Got /\ w \notin Got \ Clear
  <2>1. IsFiniteSet(Down) /\ IsFiniteSet(Down \cup {w})
    BY FS_AddElement DEF SessionInv, Merged
  <2>2. IsFiniteSet(Down \ Got) /\ IsFiniteSet(Got \ Clear)
    <3>1. Down \ Got \subseteq Down /\ Got \ Clear \subseteq Down
      BY <1>2
    <3> QED
      BY <2>1, <3>1, FS_Subset
  <2> QED
    BY <1>2, <2>1, <2>2
<1>7. ASSUME phase[w] = "dead" PROVE Types' /\ Merged'
  <2>0. Got' = Got /\ Clear' = Clear
    BY <1>2, <1>7
  <2>1. collected' = [collected EXCEPT !.lost = @ + 1]
    BY <1>7 DEF NodeDown
  <2>2. /\ DOMAIN collected' = Fields /\ collected'.retried = collected.retried /\ collected'.count = collected.count
        /\ collected'.unreadable = collected.unreadable /\ collected'.accesses = collected.accesses
        /\ collected'.lost = collected.lost + 1
    BY <2>1 DEF SessionInv, Types, Fields
  <2>3. Types'
    <3>1. collected'.lost \in Nat /\ collected'.count \in Nat /\ collected'.unreadable \in Nat
      BY <2>2 DEF SessionInv, Types
    <3>2. collected'.retried \in Seq(Test)
      BY <2>2 DEF SessionInv, Types
    <3> QED
      BY <1>0, <1>a, <2>2, <3>1, <3>2 DEF SessionInv, Types
  <2>4. collected'.lost = Cardinality(Down' \ Got')
    <3>1. Down' \ Got' = (Down \ Got) \cup {w}
      BY <1>2, <2>0
    <3>2. Cardinality((Down \ Got) \cup {w}) = Cardinality(Down \ Got) + 1
      BY <1>6, FS_AddElement
    <3> QED
      BY <2>2, <3>1, <3>2 DEF SessionInv, Merged
  <2>5. (\A test \in Test : Tally(collected.retried, test, UNION {Late(v, test) : v \in Got}))'
    <3> SUFFICES ASSUME NEW test \in Test PROVE Tally(collected.retried, test, UNION {Late(v, test) : v \in Got})'
      OBVIOUS
    <3>1. Tally(collected.retried, test, UNION {Late(v, test) : v \in Got})
      BY DEF SessionInv, Merged
    <3>2. (UNION {Late(v, test) : v \in Got})' = UNION {Late(v, test) : v \in Got}
      BY <1>3, <2>0
    <3> QED
      BY <2>2, <3>1, <3>2
  <2>6. (\A key : key # NoKey => At(collected.accesses, key, {}) = UNION {Reached(v, key) : v \in Got})'
    <3> SUFFICES ASSUME NEW key, key # NoKey
                 PROVE  (At(collected.accesses, key, {}) = UNION {Reached(v, key) : v \in Got})'
      OBVIOUS
    <3>1. At(collected.accesses, key, {}) = UNION {Reached(v, key) : v \in Got}
      BY <1>1 DEF SessionInv, Merged
    <3>2. (UNION {Reached(v, key) : v \in Got})' = UNION {Reached(v, key) : v \in Got}
      BY <1>4, <2>0
    <3>3. At(collected.accesses, key, {})' = At(collected.accesses, key, {})
      BY <2>2 DEF At
    <3> QED
      BY <3>1, <3>2, <3>3
  <2>7. (UNION {RedOf(v) : v \in Clear})' = UNION {RedOf(v) : v \in Clear}
    BY <1>5, <2>0
  <2>8. Merged'
    BY <1>1, <1>6, <2>0, <2>2, <2>4, <2>5, <2>6, <2>7 DEF SessionInv, Merged
  <2> QED
    BY <2>3, <2>8
<1>8. ASSUME phase[w] = "shipped" PROVE Types' /\ Merged'
  <2>0. /\ Got' = Got \cup {w} /\ w \notin Got
        /\ Clear' = Clear \cup (IF Readable(wire[w].failed) THEN {w} ELSE {})
    BY <1>2, <1>8
  <2>1. /\ DOMAIN collected' = Fields
        /\ collected'.retried = collected.retried \o retried[w]
        /\ collected'.accesses = Unioned(collected.accesses, accesses[w])
        /\ collected'.lost = collected.lost
        /\ collected'.unreadable = IF Readable(wire[w].failed) THEN collected.unreadable ELSE collected.unreadable + 1
        /\ collected'.count = IF Readable(wire[w].failed) THEN collected.count + Cardinality(failed[w])
                              ELSE collected.count
    BY <1>8, MergedFields DEF SessionInv, Ships, Roles
  <2>2. NotedBy(w)
    BY <1>1 DEF SessionInv
  <2>3. IsFiniteSet(failed[w]) /\ Cardinality(failed[w]) \in Nat
    BY <2>2, FS_CardinalityType DEF NotedBy
  <2>4. ASSUME NEW test \in Test
        PROVE  Tally(collected.retried, test, UNION {Late(v, test) : v \in Got})' /\ collected'.retried \in Seq(Test)
    <3>1. Tally(collected.retried, test, UNION {Late(v, test) : v \in Got}) /\ Tally(retried[w], test, Late(w, test))
      BY <2>2 DEF SessionInv, Merged, NotedBy
    <3>2. collected.retried \in Seq(Test) /\ retried[w] \in Seq(Test)
      BY <1>1 DEF SessionInv, Types
    <3>3. (UNION {Late(v, test) : v \in Got}) \cap Late(w, test) = {}
      BY <2>0 DEF Late
    <3>4. /\ Tally(collected.retried \o retried[w], test, (UNION {Late(v, test) : v \in Got}) \cup Late(w, test))
          /\ collected.retried \o retried[w] \in Seq(Test)
      BY <3>1, <3>2, <3>3, TallyTogether
    <3>5. (UNION {Late(v, test) : v \in Got})' = (UNION {Late(v, test) : v \in Got}) \cup Late(w, test)
      BY <1>3, <2>0
    <3> QED
      BY <2>1, <3>4, <3>5
  <2>5. Types'
    <3>1. collected'.retried \in Seq(Test)
      <4>1. collected.retried \in Seq(Test) /\ retried[w] \in Seq(Test)
        BY <1>1 DEF SessionInv, Types
      <4> QED
        BY <2>1, <4>1
    <3>2. collected'.lost \in Nat /\ collected'.count \in Nat /\ collected'.unreadable \in Nat
      BY <2>1, <2>3 DEF SessionInv, Types
    <3> QED
      BY <1>0, <1>a, <2>1, <3>1, <3>2 DEF SessionInv, Types
  <2>6. (\A key : key # NoKey => At(collected.accesses, key, {}) = UNION {Reached(v, key) : v \in Got})'
    <3> SUFFICES ASSUME NEW key, key # NoKey
                 PROVE  (At(collected.accesses, key, {}) = UNION {Reached(v, key) : v \in Got})'
      OBVIOUS
    <3>1. At(collected.accesses, key, {}) = UNION {Reached(v, key) : v \in Got} /\ At(accesses[w], key, {}) = Reached(w, key)
      BY <1>1, <2>2 DEF SessionInv, Merged, NotedBy
    <3>2. (UNION {Reached(v, key) : v \in Got})' = (UNION {Reached(v, key) : v \in Got}) \cup Reached(w, key)
      BY <1>4, <2>0
    <3>3. At(collected.accesses, key, {})' = At(collected.accesses, key, {}) \cup At(accesses[w], key, {})
      BY <2>1 DEF At, Unioned
    <3> QED
      BY <3>1, <3>2, <3>3
  <2>7. collected'.lost = Cardinality(Down' \ Got')
    <3>1. Down' \ Got' = Down \ Got
      BY <1>2, <2>0
    <3> QED
      BY <2>1, <3>1 DEF SessionInv, Merged
  <2>8. collected'.unreadable = Cardinality(Got' \ Clear')
    <3>1. CASE Readable(wire[w].failed)
      <4>1. Got' \ Clear' = Got \ Clear
        BY <1>2, <2>0, <3>1
      <4> QED
        BY <2>1, <3>1, <4>1 DEF SessionInv, Merged
    <3>2. CASE ~Readable(wire[w].failed)
      <4>1. Got' \ Clear' = (Got \ Clear) \cup {w}
        BY <1>2, <2>0, <3>2
      <4>2. Cardinality((Got \ Clear) \cup {w}) = Cardinality(Got \ Clear) + 1
        BY <1>6, FS_AddElement
      <4> QED
        BY <2>1, <3>2, <4>1, <4>2 DEF SessionInv, Merged
    <3> QED
      BY <3>1, <3>2
  <2>9. /\ IsFiniteSet((UNION {RedOf(v) : v \in Clear})')
        /\ collected'.count = Cardinality((UNION {RedOf(v) : v \in Clear})')
    <3>0. IsFiniteSet(UNION {RedOf(v) : v \in Clear}) /\ collected.count = Cardinality(UNION {RedOf(v) : v \in Clear})
      BY DEF SessionInv, Merged
    <3>1. CASE ~Readable(wire[w].failed)
      <4>1. (UNION {RedOf(v) : v \in Clear})' = UNION {RedOf(v) : v \in Clear}
        BY <1>5, <2>0, <3>1
      <4> QED
        BY <2>1, <3>0, <3>1, <4>1
    <3>2. CASE Readable(wire[w].failed)
      <4> DEFINE before == UNION {RedOf(v) : v \in Clear}
      <4>1. (UNION {RedOf(v) : v \in Clear})' = before \cup RedOf(w)
        BY <1>5, <2>0, <3>2
      <4>2. before \cap RedOf(w) = {}
        BY <1>2, <2>0 DEF RedOf
      <4>3. IsFiniteSet(RedOf(w)) /\ Cardinality(RedOf(w)) = Cardinality(failed[w])
        BY <2>3, RedCounts
      <4>4. IsFiniteSet(before) /\ collected.count = Cardinality(before)
        BY <3>0
      <4> HIDE DEF before
      <4>5. /\ IsFiniteSet(before \cup RedOf(w))
            /\ Cardinality(before \cup RedOf(w)) = Cardinality(before) + Cardinality(RedOf(w)) - Cardinality({})
        BY <4>2, <4>3, <4>4, FS_Union
      <4>6. Cardinality(before \cup RedOf(w)) = collected.count + Cardinality(failed[w])
        <5>1. Cardinality({}) = 0 /\ collected.count \in Nat
          BY FS_EmptySet DEF SessionInv, Types
        <5> QED
          BY <2>3, <4>3, <4>4, <4>5, <5>1
      <4> QED
        BY <2>1, <3>2, <4>1, <4>5, <4>6
    <3> QED
      BY <3>1, <3>2
  <2>10. (\A test \in Test : Tally(collected.retried, test, UNION {Late(v, test) : v \in Got}))'
    BY <2>4
  <2>11. Merged'
    BY <1>1, <1>6, <2>6, <2>7, <2>8, <2>9, <2>10 DEF Merged
  <2> QED
    BY <2>5, <2>11
<1>9. Roles'
  BY <1>0, <1>1, Apart DEF SessionInv, Types, Roles, Finished
<1>10. Told'
  BY <1>1, NothingTold
<1>11. \A p \in Process : NotedBy(p)'
  BY <1>0, <1>1, NotedStays DEF SessionInv
<1>12. \A v \in Worker : Ships(v)'
  BY <1>0, ShipsStays DEF SessionInv
<1> QED
  BY <1>0, <1>7, <1>8, <1>9, <1>10, <1>11, <1>12 DEF SessionInv

\* Whom the controller heard, by the time the session ends.
LEMMA AllHeard ==
  ASSUME Types, Roles, parallel => \A w \in Worker : phase[w] = "down"
  PROVE  /\ parallel => Down = Worker /\ Heard = Got /\ Read = Clear
         /\ ~parallel => Down = {} /\ Got = {} /\ Clear = {} /\ Heard = {Controller} /\ Read = {Controller}
<1>1. CASE parallel
  <2>1. Down = Worker
    BY <1>1 DEF Down
  <2>2. Heard = Got
    BY <1>1, <2>1, Apart DEF Heard, Got, Process
  <2>3. Read = Clear
    BY <2>2, Apart DEF Read, Clear, Got, Down
  <2> QED
    BY <1>1, <2>1, <2>2, <2>3
<1>2. CASE ~parallel
  <2>1. Down = {} /\ Got = {} /\ Clear = {}
    <3>1. Down = {}
      BY <1>2 DEF Down, Roles
    <3> QED
      BY <3>1 DEF Got, Clear
  <2>2. Heard = {Controller}
    BY <1>2, Apart DEF Heard
  <2>3. Read = {Controller}
    BY <2>2 DEF Read
  <2> QED
    BY <1>2, <2>1, <2>2, <2>3
<1> QED
  BY <1>1, <1>2 DEF Types

LEMMA SessionFinishInv == ASSUME SessionInv, NEW fault, NEW cut, SessionFinish(fault, cut) PROVE SessionInv'
<1>0. /\ phase[Controller] = IF parallel THEN "idle" ELSE "running"
      /\ parallel => \A w \in Worker : phase[w] = "down"
      /\ phase' = [phase EXCEPT ![Controller] = "finished"]
      /\ polls' = retried[Controller] \o collected.retried
      /\ swept' = SharedKeys(Unioned(accesses[Controller], collected.accesses))
      /\ accesses' = [accesses EXCEPT ![Controller] = Nothing]
      /\ collected' = [collected EXCEPT !.inline = {}, !.accesses = Nothing]
      /\ parallel' = parallel /\ suite' = suite /\ failed' = failed /\ failures' = failures /\ retried' = retried
      /\ wire' = wire /\ done' = done
  BY DEF SessionFinish
<1>1. /\ DOMAIN collected' = Fields /\ collected'.retried = collected.retried /\ collected'.lost = collected.lost
      /\ collected'.unreadable = collected.unreadable /\ collected'.count = collected.count
  BY <1>0 DEF SessionInv, Types, Fields
<1>2. /\ phase'[Controller] = "finished" /\ \A w \in Worker : phase'[w] = phase[w] /\ accesses'[w] = accesses[w]
      /\ DOMAIN accesses' = Process
      /\ ~Finished /\ Finished' /\ ~Over'
  BY <1>0, Apart DEF SessionInv, Types, Finished, Over
<1>3. Types'
  <2>1. phase' \in [Process -> {"idle", "running", "dead", "shipped", "down", "finished", "over"}]
    BY <1>0 DEF SessionInv, Types
  <2> QED
    BY <1>0, <1>1, <1>2, <2>1 DEF SessionInv, Types
<1>4. Roles'
  BY <1>0, <1>2 DEF SessionInv, Roles
<1>5. Merged'
  <2>1. Down' = Down
    BY <1>2 DEF Down
  <2> QED
    BY <1>0, <1>1, <1>2, <2>1, MergedStays DEF SessionInv
<1>6. \A p \in Process : NotedBy(p)'
  <2> SUFFICES ASSUME NEW p \in Process PROVE NotedBy(p)'
    OBVIOUS
  <2>1. accesses'[p] = accesses[p] \/ p = Controller
    BY <1>2 DEF Process
  <2> QED
    BY <1>0, <1>2, <2>1, NotedStays DEF SessionInv
<1>7. \A w \in Worker : Ships(w)'
  BY <1>0, <1>2, ShipsStays DEF SessionInv
<1>8. Told'
  <2>1. /\ parallel => Heard = Got
        /\ ~parallel => Got = {} /\ Heard = {Controller}
        /\ parallel \in BOOLEAN
    BY <1>0, AllHeard DEF SessionInv, Types
  <2>2. Heard' = Heard
    BY <1>0 DEF Heard
  <2>3. NotedBy(Controller) /\ (parallel => done[Controller] = <<>> /\ Controller \notin Got)
    BY Apart DEF SessionInv, Types, NotedBy, Runs, Got, Down
  <2>4. ASSUME NEW test \in Test PROVE Tally(polls, test, UNION {Late(p, test) : p \in Heard})'
    <3>1. Tally(retried[Controller], test, Late(Controller, test)) /\
          Tally(collected.retried, test, UNION {Late(w, test) : w \in Got})
      BY <2>3 DEF SessionInv, NotedBy, Merged
    <3>2. retried[Controller] \in Seq(Test) /\ collected.retried \in Seq(Test)
      BY Apart DEF SessionInv, Types
    <3>3. Late(Controller, test) \cap (UNION {Late(w, test) : w \in Got}) = {}
      BY Apart DEF SessionInv, Late, Got, Down
    <3>4. Tally(polls', test, Late(Controller, test) \cup (UNION {Late(w, test) : w \in Got}))
      BY <1>0, <3>1, <3>2, <3>3, TallyTogether
    <3>5. UNION {Late(p, test) : p \in Heard} = Late(Controller, test) \cup (UNION {Late(w, test) : w \in Got})
      <4>1. CASE parallel
        <5>1. Late(Controller, test) = {}
          BY <2>3, <4>1 DEF Late
        <5> QED
          BY <2>1, <4>1, <5>1
      <4>2. CASE ~parallel
        BY <2>1, <4>2
      <4> QED
        BY <2>1, <4>1, <4>2
    <3>6. (UNION {Late(p, test) : p \in Heard})' = UNION {Late(p, test) : p \in Heard}
      BY <1>0, <2>2 DEF Late
    <3> QED
      BY <3>4, <3>5, <3>6
  <2>5. ASSUME NEW key, key # NoKey, NEW n
        PROVE  (<<key, n>> \in swept <=> n = Cardinality(UNION {Reached(p, key) : p \in Heard}) /\ n >= 2)'
    <3> DEFINE totals == Unioned(accesses[Controller], collected.accesses)
    <3>1. /\ At(accesses[Controller], key, {}) = Reached(Controller, key)
          /\ At(collected.accesses, key, {}) = UNION {Reached(w, key) : w \in Got}
      BY <1>2, <2>3, <2>5 DEF SessionInv, NotedBy, Merged
    <3>2. UNION {Reached(p, key) : p \in Heard} = Reached(Controller, key) \cup (UNION {Reached(w, key) : w \in Got})
      <4>1. CASE parallel
        <5>1. Reached(Controller, key) = {}
          BY <2>3, <4>1 DEF Reached
        <5> QED
          BY <2>1, <4>1, <5>1
      <4>2. CASE ~parallel
        BY <2>1, <4>2
      <4> QED
        BY <2>1, <4>1, <4>2
    <3>3. (UNION {Reached(p, key) : p \in Heard})' = UNION {Reached(p, key) : p \in Heard}
      BY <1>0, <2>2 DEF Reached
    <3>4. At(totals, key, {}) = UNION {Reached(p, key) : p \in Heard}
      BY <3>1, <3>2 DEF At, Unioned
    <3>5. <<key, n>> \in SharedKeys(totals) <=>
             key \in DOMAIN totals /\ n = Cardinality(totals[key]) /\ Cardinality(totals[key]) >= 2
      <4> HIDE DEF totals
      <4> QED
        BY DEF SharedKeys
    <3>6. key \notin DOMAIN totals => Cardinality(UNION {Reached(p, key) : p \in Heard}) = 0
      BY <3>4, FS_EmptySet DEF At
    <3>7. key \in DOMAIN totals => totals[key] = UNION {Reached(p, key) : p \in Heard}
      BY <3>4 DEF At
    <3>8. swept' = SharedKeys(totals)
      BY <1>0
    <3> HIDE DEF totals
    <3>9. <<key, n>> \in swept' <=> n = Cardinality(UNION {Reached(p, key) : p \in Heard}) /\ n >= 2
      BY <3>5, <3>6, <3>7, <3>8
    <3> QED
      BY <3>3, <3>9
  <2>6. CountsAreHonest'
    BY <1>2 DEF CountsAreHonest
  <2> QED
    BY <2>4, <2>5, <2>6 DEF Told
<1> QED
  BY <1>3, <1>4, <1>5, <1>6, <1>7, <1>8 DEF SessionInv

LEMMA RedTestsAre ==
  ASSUME \A p \in Read : NotedBy(p)
  PROVE  RedTests = UNION {RedOf(p) : p \in Read}
<1>1. ASSUME NEW p \in Read PROVE {<<p, one.case.test>> : one \in {r \in Ran(p) : r.red}} = RedOf(p)
  BY DEF NotedBy, Red, RedOf, Ran
<1> QED
  BY <1>1 DEF RedTests

LEMMA TerminalSummaryInv == ASSUME SessionInv, TerminalSummary PROVE SessionInv'
<1>0. /\ phase[Controller] = "finished" /\ phase' = [phase EXCEPT ![Controller] = "over"]
      /\ UNCHANGED <<parallel, suite, failed, failures, retried, accesses, wire, collected, polls, swept, done>>
  BY DEF TerminalSummary, held, history
<1>1. Finished /\ Finished' /\ \A w \in Worker : phase'[w] = phase[w]
  BY <1>0, Apart DEF SessionInv, Types, Finished
<1>2. Types'
  <2>1. phase' \in [Process -> {"idle", "running", "dead", "shipped", "down", "finished", "over"}]
    BY <1>0 DEF SessionInv, Types
  <2> QED
    BY <1>0, <2>1 DEF SessionInv, Types
<1>3. Roles'
  BY <1>0, <1>1 DEF SessionInv, Roles
<1>4. Merged'
  <2>1. Down' = Down
    BY <1>1 DEF Down
  <2> QED
    BY <1>0, <1>1, <2>1, MergedStays DEF SessionInv
<1>5. \A p \in Process : NotedBy(p)'
  BY <1>0, <1>1, NotedStays DEF SessionInv
<1>6. \A w \in Worker : Ships(w)'
  BY <1>0, ShipsStays DEF SessionInv
<1>7. Heard' = Heard /\ Read' = Read /\ RedTests' = RedTests
  <2>1. Heard' = Heard /\ Read' = Read
    BY <1>0 DEF Heard, Read, Readable
  <2> QED
    BY <1>0, <2>1 DEF RedTests, Ran
<1>8. /\ parallel => Down = Worker /\ Heard = Got /\ Read = Clear
      /\ ~parallel => Down = {} /\ Got = {} /\ Clear = {} /\ Heard = {Controller} /\ Read = {Controller}
      /\ parallel \in BOOLEAN
  BY <1>1, AllHeard DEF SessionInv, Roles, Types
<1>9. CountsAreHonest'
  <2> DEFINE total == Cardinality(failed[Controller]) + collected.count
  <2>1. total = Cardinality(RedTests)
    <3>1. RedTests = UNION {RedOf(p) : p \in Read}
      <4>1. \A p \in Read : NotedBy(p)
        BY DEF SessionInv, Read, Heard
      <4> QED
        BY <4>1, RedTestsAre
    <3>2. NotedBy(Controller) /\ IsFiniteSet(failed[Controller]) /\ collected.count \in Nat
          /\ collected.count = Cardinality(UNION {RedOf(w) : w \in Clear}) /\ Cardinality({}) = 0
          /\ Cardinality(failed[Controller]) \in Nat
      <4>1. NotedBy(Controller)
        BY Apart DEF SessionInv
      <4> QED
        BY <4>1, FS_EmptySet, FS_CardinalityType DEF SessionInv, NotedBy, Merged, Types
    <3>3. CASE parallel
      <4>1. failed[Controller] = {}
        BY <3>2, <3>3, Apart DEF NotedBy, Runs, SessionInv
      <4> QED
        BY <1>8, <3>1, <3>2, <3>3, <4>1
    <3>4. CASE ~parallel
      <4>1. RedTests = RedOf(Controller)
        BY <1>8, <3>1, <3>4
      <4>2. UNION {RedOf(w) : w \in Clear} = {}
        BY <1>8, <3>4
      <4>3. Cardinality(RedOf(Controller)) = Cardinality(failed[Controller])
        BY <3>2, RedCounts
      <4>4. collected.count = 0
        BY <3>2, <4>2
      <4>5. Cardinality(failed[Controller]) + collected.count = Cardinality(failed[Controller])
        BY <3>2, <4>4
      <4> QED
        BY <4>1, <4>3, <4>5
    <3> QED
      BY <1>8, <3>3, <3>4
  <2>2. collected.lost = Cardinality({w \in Worker : parallel /\ ~wire[w].present})
    <3>1. {w \in Worker : parallel /\ ~wire[w].present} = Down \ Got
      <4>1. CASE parallel
        BY <1>8, <4>1 DEF Got
      <4>2. CASE ~parallel
        BY <1>8, <4>2
      <4> QED
        BY <1>8, <4>1, <4>2
    <3> QED
      BY <3>1 DEF SessionInv, Merged
  <2>3. collected.unreadable = Cardinality(Heard \ Read)
    <3>1. Heard \ Read = Got \ Clear
      BY <1>8
    <3> QED
      BY <3>1 DEF SessionInv, Merged
  <2>4. PICK found : summary' = IF total < Minimum THEN Silence
                                ELSE Rendered(found, total, collected.lost, collected.unreadable, collected.collectErrors)
    BY DEF TerminalSummary
  <2> HIDE DEF total
  <2>5. ~summary'.silent => /\ summary'.total = total /\ summary'.lost = collected.lost
                            /\ summary'.unreadable = collected.unreadable
    <3>1. Silence.silent
      BY DEF Silence
    <3>2. ASSUME ~Rendered(found, total, collected.lost, collected.unreadable, collected.collectErrors).silent
          PROVE  LET said == Rendered(found, total, collected.lost, collected.unreadable, collected.collectErrors)
                 IN  said.total = total /\ said.lost = collected.lost /\ said.unreadable = collected.unreadable
      BY <3>1, <3>2 DEF Rendered
    <3> QED
      BY <2>4, <3>1, <3>2
  <2>6. {w \in Worker : parallel /\ ~wire[w].present}' = {w \in Worker : parallel /\ ~wire[w].present}
    BY <1>0
  <2> QED
    BY <1>7, <2>1, <2>2, <2>3, <2>5, <2>6 DEF CountsAreHonest
<1>10. Told'
  <2>1. ASSUME NEW test \in Test PROVE Tally(polls, test, UNION {Late(p, test) : p \in Heard})'
    <3>1. (UNION {Late(p, test) : p \in Heard})' = UNION {Late(p, test) : p \in Heard}
      BY <1>0, <1>7 DEF Late
    <3>2. Tally(polls, test, UNION {Late(p, test) : p \in Heard})
      BY <1>1 DEF SessionInv, Told
    <3> QED
      BY <1>0, <3>1, <3>2
  <2>2. ASSUME NEW key, key # NoKey, NEW n
        PROVE  (<<key, n>> \in swept <=> n = Cardinality(UNION {Reached(p, key) : p \in Heard}) /\ n >= 2)'
    <3>1. (UNION {Reached(p, key) : p \in Heard})' = UNION {Reached(p, key) : p \in Heard}
      BY <1>0, <1>7 DEF Reached
    <3>2. <<key, n>> \in swept <=> n = Cardinality(UNION {Reached(p, key) : p \in Heard}) /\ n >= 2
      BY <1>1, <2>2 DEF SessionInv, Told
    <3> QED
      BY <1>0, <3>1, <3>2
  <2> QED
    BY <1>9, <2>1, <2>2 DEF Told
<1> QED
  BY <1>2, <1>3, <1>4, <1>5, <1>6, <1>10 DEF SessionInv


-----------------------------------------------------------------------------
(* Going through a sequence from its end *)

Before == {p \in Nat \X Nat : p[1] < p[2]}

LEMMA FirstOf ==
  ASSUME NEW some \in SUBSET Nat, some # {}
  PROVE  \E i \in some : \A j \in some : i <= j
<1>1. IsWellFoundedOn(Before, Nat)
  BY NatLessThanWellFounded DEF Before, OpToRel
<1>2. PICK i \in some : \A j \in some : <<j, i>> \notin Before
  BY <1>1, WFMin
<1>3. ASSUME NEW j \in some PROVE i <= j
  <2>1. ~(j < i) /\ i \in Nat /\ j \in Nat
    BY <1>2 DEF Before
  <2> QED
    BY <2>1
<1> QED
  BY <1>3

\* What holds past the end, and of a place if of the one after it, holds of all.
LEMMA Downward ==
  ASSUME NEW n \in Nat, NEW G, n + 1 \in G, \A m \in 1 .. n : m + 1 \in G => m \in G
  PROVE  1 .. n + 1 \subseteq G
<1> DEFINE bad  == (1 .. n + 1) \ G
           back == {n + 1 - m : m \in bad}
<1> SUFFICES ASSUME bad # {} PROVE FALSE
  OBVIOUS
<1>1. back \in SUBSET Nat /\ back # {}
  OBVIOUS
<1>2. PICK k \in back : \A j \in back : k <= j
  <2> HIDE DEF back
  <2> QED
    BY <1>1, FirstOf
<1>3. PICK m \in bad : k = n + 1 - m
  OBVIOUS
<1>4. m \in 1 .. n /\ m + 1 \notin G
  OBVIOUS
<1>5. n + 1 - (m + 1) \in back
  BY <1>4
<1>6. k <= n + 1 - (m + 1)
  <2> HIDE DEF back, bad
  <2> QED
    BY <1>2, <1>5
<1>7. m \in Nat
  BY <1>4
<1> HIDE DEF back, bad
<1> QED
  BY <1>3, <1>6, <1>7

\* A function told from the last place to the first, down to m.
IsToldFrom(f, m, n, T, base, step) ==
  /\ f \in [m .. n + 1 -> T] /\ f[n + 1] = base
  /\ \A i \in m .. n : f[i] = step[<<i, f[i + 1]>>]

LEMMA DownwardRecursion ==
  ASSUME NEW n \in Nat, NEW T, NEW base \in T, NEW step \in [(1 .. n) \X T -> T]
  PROVE  \E f : IsToldFrom(f, 1, n, T, base, step)
<1> DEFINE G == {m \in 1 .. n + 1 : \E f : IsToldFrom(f, m, n, T, base, step)}
<1>1. n + 1 \in G
  <2> DEFINE f == [i \in n + 1 .. n + 1 |-> base]
  <2>1. f \in [n + 1 .. n + 1 -> T] /\ f[n + 1] = base /\ (n + 1) .. n = {}
    OBVIOUS
  <2> HIDE DEF f
  <2>2. IsToldFrom(f, n + 1, n, T, base, step)
    BY <2>1 DEF IsToldFrom
  <2> QED
    BY <2>2
<1>2. ASSUME NEW m \in 1 .. n, m + 1 \in G PROVE m \in G
  <2>1. PICK f : IsToldFrom(f, m + 1, n, T, base, step)
    BY <1>2
  <2> DEFINE g == [i \in m .. n + 1 |-> IF i = m THEN step[<<m, f[m + 1]>>] ELSE f[i]]
  <2>2. m + 1 \in m + 1 .. n + 1 /\ \A i \in m .. n + 1 : i = m \/ i \in m + 1 .. n + 1
    OBVIOUS
  <2>3. f[m + 1] \in T /\ step[<<m, f[m + 1]>>] \in T /\ f \in [m + 1 .. n + 1 -> T]
    BY <2>1, <2>2 DEF IsToldFrom
  <2>4. g \in [m .. n + 1 -> T]
    BY <2>2, <2>3
  <2>5. g[n + 1] = base
    BY <2>1 DEF IsToldFrom
  <2>6. \A i \in m + 1 .. n + 1 : g[i] = f[i]
    OBVIOUS
  <2>7. g[m] = step[<<m, f[m + 1]>>]
    OBVIOUS
  <2> HIDE DEF g
  <2>8. ASSUME NEW i \in m .. n PROVE g[i] = step[<<i, g[i + 1]>>]
    <3>1. i + 1 \in m + 1 .. n + 1
      OBVIOUS
    <3>2. g[i + 1] = f[i + 1]
      BY <2>6, <3>1
    <3>3. ASSUME i = m PROVE g[i] = step[<<i, g[i + 1]>>]
      <4>1. g[m + 1] = f[m + 1]
        BY <3>2, <3>3
      <4> QED
        BY <2>7, <3>3, <4>1
    <3>4. ASSUME i # m PROVE g[i] = step[<<i, g[i + 1]>>]
      <4>1. i \in m + 1 .. n /\ i \in m + 1 .. n + 1
        BY <3>4
      <4> QED
        BY <2>1, <2>6, <3>2, <4>1 DEF IsToldFrom
    <3> QED
      BY <3>3, <3>4
  <2>9. IsToldFrom(g, m, n, T, base, step)
    BY <2>4, <2>5, <2>8 DEF IsToldFrom
  <2> QED
    BY <2>9
<1>3. 1 \in G
  <2> HIDE DEF G
  <2> QED
    BY <1>1, <1>2, Downward
<1> QED
  BY <1>3

\* What holds at first, and of a number if of the one before it, holds of all.
LEMMA Upward ==
  ASSUME NEW n \in Nat, NEW G, 0 \in G, \A m \in 1 .. n : m - 1 \in G => m \in G
  PROVE  0 .. n \subseteq G
<1> DEFINE bad == (0 .. n) \ G
<1> SUFFICES ASSUME bad # {} PROVE FALSE
  OBVIOUS
<1>1. bad \in SUBSET Nat
  OBVIOUS
<1>2. PICK k \in bad : \A j \in bad : k <= j
  <2> HIDE DEF bad
  <2> QED BY <1>1, FirstOf
<1>3. k \in 1 .. n /\ k - 1 \in 0 .. n /\ k \notin G
  OBVIOUS
<1>4. k - 1 \in G
  <2> SUFFICES ASSUME k - 1 \notin G PROVE FALSE
    OBVIOUS
  <2>1. k - 1 \in bad
    BY <1>3
  <2>2. k <= k - 1
    <3> HIDE DEF bad
    <3> QED BY <1>2, <2>1
  <2>3. k \in Int
    BY <1>3
  <2> HIDE DEF bad
  <2> QED BY <2>2, <2>3
<1> QED BY <1>3, <1>4

\* A function told from nothing to n.
IsToldUpTo(f, n, T, base, step) ==
  /\ f \in [0 .. n -> T] /\ f[0] = base
  /\ \A i \in 1 .. n : f[i] = step[<<i, f[i - 1]>>]

LEMMA UpwardRecursion ==
  ASSUME NEW n \in Nat, NEW T, NEW base \in T, NEW step \in [(1 .. n) \X T -> T]
  PROVE  \E f : IsToldUpTo(f, n, T, base, step)
<1> DEFINE G == {m \in 0 .. n : \E f : IsToldUpTo(f, m, T, base, step)}
<1>1. 0 \in G
  <2> DEFINE f == [i \in 0 .. 0 |-> base]
  <2>1. f \in [0 .. 0 -> T] /\ f[0] = base /\ 1 .. 0 = {}
    OBVIOUS
  <2> HIDE DEF f
  <2>2. IsToldUpTo(f, 0, T, base, step)
    BY <2>1 DEF IsToldUpTo
  <2> QED BY <2>2
<1>2. ASSUME NEW m \in 1 .. n, m - 1 \in G PROVE m \in G
  <2>1. PICK f : IsToldUpTo(f, m - 1, T, base, step)
    BY <1>2
  <2> DEFINE g == [i \in 0 .. m |-> IF i = m THEN step[<<m, f[m - 1]>>] ELSE f[i]]
  <2>2. m - 1 \in 0 .. m - 1 /\ \A i \in 0 .. m : i = m \/ i \in 0 .. m - 1
    OBVIOUS
  <2>3. f[m - 1] \in T /\ step[<<m, f[m - 1]>>] \in T /\ f \in [0 .. m - 1 -> T]
    BY <2>1, <2>2 DEF IsToldUpTo
  <2>4. g \in [0 .. m -> T]
    BY <2>2, <2>3
  <2>5. g[0] = base
    BY <2>1 DEF IsToldUpTo
  <2>6. \A i \in 0 .. m - 1 : g[i] = f[i]
    OBVIOUS
  <2>7. g[m] = step[<<m, f[m - 1]>>]
    OBVIOUS
  <2> HIDE DEF g
  <2>8. ASSUME NEW i \in 1 .. m PROVE g[i] = step[<<i, g[i - 1]>>]
    <3>1. i - 1 \in 0 .. m - 1
      OBVIOUS
    <3>2. g[i - 1] = f[i - 1]
      BY <2>6, <3>1
    <3>3. ASSUME i = m PROVE g[i] = step[<<i, g[i - 1]>>]
      <4>1. g[m - 1] = f[m - 1]
        BY <3>2, <3>3
      <4> QED BY <2>7, <3>3, <4>1
    <3>4. ASSUME i # m PROVE g[i] = step[<<i, g[i - 1]>>]
      <4>1. i \in 1 .. m - 1 /\ i \in 0 .. m - 1
        BY <3>4
      <4> QED BY <2>1, <2>6, <3>2, <4>1 DEF IsToldUpTo
    <3> QED BY <3>3, <3>4
  <2>9. IsToldUpTo(g, m, T, base, step)
    BY <2>4, <2>5, <2>8 DEF IsToldUpTo
  <2> QED BY <2>9
<1>3. n \in G
  <2> HIDE DEF G
  <2>1. 0 .. n \subseteq G
    BY <1>1, <1>2, Upward
  <2> QED BY <2>1
<1> QED BY <1>3

-----------------------------------------------------------------------------
(* The file with the literals in place is the file spliced with them *)

Token == Literal \cup {Comma, Edit} \cup UNION {ToSet(Source[file]) : file \in File}

\* A text in which each call is once, and one with a literal is not followed by a call.
IsText(text) ==
  /\ text \in Seq(Token)
  /\ \A i, j \in DOMAIN text : text[i] \in Call /\ text[i] = text[j] => i = j
  /\ \A i \in DOMAIN text : text[i] \in Call \ Empty => i < Len(text) /\ text[i + 1] \notin Call

CallsOf(text)  == ToSet(text) \cap Call
Literals(text) == [CallsOf(text) -> Literal]

\* Spliced, token by token.
Given(text, literal, n)   == n > 0 /\ text[n] \in Call /\ literal[text[n]] # NoText
TokenAt(text, literal, n) ==
  IF Given(text, literal, n - 1) /\ text[n - 1] \notin Empty THEN literal[text[n - 1]] ELSE text[n]
AddedAt(text, literal, n) ==
  IF Given(text, literal, n) /\ text[n] \in Empty THEN Inserted(text[n], literal[text[n]]) ELSE <<>>

IsSplice(text, literal, from) ==
  /\ from \in [1 .. Len(text) + 1 -> Seq(Token)] /\ from[Len(text) + 1] = <<>>
  /\ \A n \in 1 .. Len(text) : from[n] = <<TokenAt(text, literal, n)>> \o (AddedAt(text, literal, n) \o from[n + 1])

LEMMA TokenTypes ==
  ASSUME NEW text \in Seq(Token), NEW literal \in Literals(text), NEW n \in 1 .. Len(text)
  PROVE  TokenAt(text, literal, n) \in Token /\ AddedAt(text, literal, n) \in Seq(Token)
<1>1. \A i \in 1 .. Len(text) : text[i] \in Token /\ (text[i] \in Call => literal[text[i]] \in Literal)
  BY DEF Literals, CallsOf, ToSet
<1>2. Literal \subseteq Token /\ Comma \in Token
  BY DEF Token
<1>3. TokenAt(text, literal, n) \in Token
  <2>1. n - 1 > 0 => n - 1 \in 1 .. Len(text)
    OBVIOUS
  <2> QED
    BY <1>1, <1>2, <2>1 DEF TokenAt, Given
<1>4. AddedAt(text, literal, n) \in Seq(Token)
  <2>1. CASE Given(text, literal, n) /\ text[n] \in Empty
    <3> DEFINE x == literal[text[n]]
    <3>1. x \in Token /\ Comma \in Token
      BY <1>1, <1>2, <2>1 DEF Given
    <3> HIDE DEF x
    <3>2. <<x, Comma>> \in Seq(Token) /\ <<x>> \in Seq(Token)
      BY <3>1
    <3> QED
      BY <2>1, <3>2 DEF AddedAt, Inserted, x
  <2>2. CASE ~(Given(text, literal, n) /\ text[n] \in Empty)
    BY <2>2 DEF AddedAt
  <2> QED
    BY <2>1, <2>2
<1> QED
  BY <1>3, <1>4

LEMMA SplicedFrom ==
  ASSUME NEW text \in Seq(Token), NEW literal \in Literals(text)
  PROVE  \E from : IsSplice(text, literal, from) /\ Spliced(text, literal) = from[1]
<1> DEFINE L == Len(text)
           step == [q \in (1 .. L) \X Seq(Token) |->
                      <<TokenAt(text, literal, q[1])>> \o (AddedAt(text, literal, q[1]) \o q[2])]
           P(u) == u = [n \in 1 .. L + 1 |->
                          IF n > L THEN <<>> ELSE <<TokenAt(text, literal, n)>> \o (AddedAt(text, literal, n) \o u[n + 1])]
           from == CHOOSE u : P(u)
<1>1. L \in Nat
  OBVIOUS
<1>2. step \in [(1 .. L) \X Seq(Token) -> Seq(Token)]
  <2> SUFFICES ASSUME NEW n \in 1 .. L, NEW r \in Seq(Token)
               PROVE  <<TokenAt(text, literal, n)>> \o (AddedAt(text, literal, n) \o r) \in Seq(Token)
    OBVIOUS
  <2>1. TokenAt(text, literal, n) \in Token /\ AddedAt(text, literal, n) \in Seq(Token)
    BY TokenTypes
  <2> QED
    BY <2>1
<1>3. PICK f : IsToldFrom(f, 1, L, Seq(Token), <<>>, step)
  <2> HIDE DEF step, L
  <2>1. <<>> \in Seq(Token)
    OBVIOUS
  <2> QED
    BY <1>1, <1>2, <2>1, DownwardRecursion
<1>4. IsSplice(text, literal, f)
  <2>1. f \in [1 .. L + 1 -> Seq(Token)] /\ f[L + 1] = <<>> /\ \A n \in 1 .. L : f[n] = step[<<n, f[n + 1]>>]
    BY <1>3 DEF IsToldFrom
  <2>2. ASSUME NEW n \in 1 .. L
        PROVE  f[n] = <<TokenAt(text, literal, n)>> \o (AddedAt(text, literal, n) \o f[n + 1])
    <3>1. n + 1 \in 1 .. L + 1
      BY <1>1
    <3>2. <<n, f[n + 1]>> \in (1 .. L) \X Seq(Token)
      BY <2>1, <3>1
    <3> QED
      BY <2>1, <3>2
  <2> QED
    BY <2>1, <2>2 DEF IsSplice
<1>5. P(f)
  <2>1. /\ f \in [1 .. L + 1 -> Seq(Token)] /\ f[L + 1] = <<>>
        /\ \A n \in 1 .. L : f[n] = <<TokenAt(text, literal, n)>> \o (AddedAt(text, literal, n) \o f[n + 1])
    BY <1>4 DEF IsSplice
  <2> DEFINE F(n) == IF n > L THEN <<>> ELSE <<TokenAt(text, literal, n)>> \o (AddedAt(text, literal, n) \o f[n + 1])
  <2>2. ASSUME NEW n \in 1 .. L + 1 PROVE f[n] = F(n)
    <3>1. CASE n > L
      <4>1. n = L + 1
        BY <1>1, <3>1
      <4> QED
        BY <2>1, <3>1, <4>1
    <3>2. CASE ~(n > L)
      <4>1. n \in 1 .. L
        BY <1>1, <3>2
      <4> QED
        BY <2>1, <3>2, <4>1
    <3> QED
      BY <3>1, <3>2
  <2>3. f = [n \in 1 .. L + 1 |-> F(n)]
    <3> HIDE DEF F, L
    <3> QED
      BY <2>1, <2>2
  <2> QED
    BY <2>3
<1>6. P(from)
  <2> HIDE DEF P
  <2> QED
    BY <1>5
<1>7. Spliced(text, literal) = from[1]
  BY DEF Spliced, TokenAt, AddedAt, Given
<1>8. from[1] = f[1]
  <2> DEFINE G == {n \in 1 .. L + 1 : from[n] = f[n]}
  <2> HIDE DEF from
  <2>1. /\ f \in [1 .. L + 1 -> Seq(Token)] /\ f[L + 1] = <<>>
        /\ \A n \in 1 .. L : f[n] = <<TokenAt(text, literal, n)>> \o (AddedAt(text, literal, n) \o f[n + 1])
    BY <1>4 DEF IsSplice
  <2>2. L + 1 \in G
    BY <1>1, <1>6, <2>1
  <2>3. ASSUME NEW n \in 1 .. L, n + 1 \in G PROVE n \in G
    <3> DEFINE X(r) == <<TokenAt(text, literal, n)>> \o (AddedAt(text, literal, n) \o r)
    <3>1. n \in 1 .. L + 1 /\ ~(n > L)
      BY <1>1
    <3>2. from[n] = IF n > L THEN <<>> ELSE X(from[n + 1])
      <4> HIDE DEF L
      <4> QED
        BY <1>6, <3>1
    <3>3. f[n] = X(f[n + 1])
      BY <2>1
    <3>4. from[n + 1] = f[n + 1]
      BY <2>3
    <3> HIDE DEF X, L
    <3> QED
      BY <3>1, <3>2, <3>3, <3>4
  <2>4. 1 .. L + 1 \subseteq G
    <3> HIDE DEF G, L
    <3> QED
      BY <1>1, <2>2, <2>3, Downward
  <2> QED
    BY <1>1, <2>4
<1> QED
  BY <1>4, <1>7, <1>8

LEMMA Around ==
  ASSUME NEW T, NEW s \in Seq(T), NEW r \in Seq(T)
  PROVE  SubSeq(s \o r, 1, Len(s)) = s /\ SubSeq(s \o r, Len(s) + 1, Len(s \o r)) = r
<1>1. /\ s \o r \in Seq(T) /\ Len(s \o r) = Len(s) + Len(r)
      /\ \A i \in 1 .. Len(s) + Len(r) : (s \o r)[i] = IF i <= Len(s) THEN s[i] ELSE r[i - Len(s)]
  BY ConcatProperties
<1>2. Len(s) \in Nat /\ Len(r) \in Nat /\ \A i \in 1 .. Len(s \o r) : (s \o r)[i] \in T
  BY <1>1
<1> DEFINE one == SubSeq(s \o r, 1, Len(s))
           two == SubSeq(s \o r, Len(s) + 1, Len(s \o r))
<1>3. one = s
  <2>1. \A i \in 1 .. Len(s) : (s \o r)[i] \in T
    BY <1>1, <1>2
  <2>2. one \in Seq(T) /\ Len(one) = Len(s) /\ \A i \in 1 .. Len(s) : one[i] = (s \o r)[i]
    BY <1>2, <2>1, SubSeqProperties
  <2>3. \A i \in 1 .. Len(s) : one[i] = s[i]
    BY <1>1, <1>2, <2>2
  <2> HIDE DEF one
  <2> QED
    BY <2>2, <2>3, SeqEqual
<1>4. two = r
  <2>1. \A i \in Len(s) + 1 .. Len(s \o r) : (s \o r)[i] \in T
    BY <1>1, <1>2
  <2>2. /\ two \in Seq(T) /\ Len(two) = Len(r)
        /\ \A i \in 1 .. Len(r) : two[i] = (s \o r)[Len(s) + i]
    <3>1. /\ two \in Seq(T)
          /\ Len(two) = IF Len(s) + 1 <= Len(s \o r) THEN Len(s \o r) - (Len(s) + 1) + 1 ELSE 0
          /\ \A i \in 1 .. Len(s \o r) - (Len(s) + 1) + 1 : two[i] = (s \o r)[Len(s) + 1 + i - 1]
      BY <1>1, <1>2, <2>1, SubSeqProperties
    <3>2. Len(s \o r) - (Len(s) + 1) + 1 = Len(r) /\ \A i \in 1 .. Len(r) : Len(s) + 1 + i - 1 = Len(s) + i
      BY <1>1, <1>2
    <3>3. Len(s) + 1 <= Len(s \o r) \/ Len(r) = 0
      BY <1>1, <1>2
    <3> HIDE DEF two
    <3>4. Len(two) = Len(r)
      BY <1>2, <3>1, <3>2, <3>3
    <3>5. \A i \in 1 .. Len(r) : two[i] = (s \o r)[Len(s) + i]
      <4> SUFFICES ASSUME NEW i \in 1 .. Len(r) PROVE two[i] = (s \o r)[Len(s) + i]
        OBVIOUS
      <4>1. two[i] = (s \o r)[Len(s) + 1 + i - 1]
        BY <3>1, <3>2
      <4>2. Len(s) + 1 + i - 1 = Len(s) + i
        BY <3>2
      <4> QED
        BY <4>1, <4>2
    <3> QED
      BY <3>1, <3>4, <3>5
  <2>3. \A i \in 1 .. Len(r) : two[i] = r[i]
    <3> SUFFICES ASSUME NEW i \in 1 .. Len(r) PROVE two[i] = r[i]
      OBVIOUS
    <3>1. Len(s) + i \in 1 .. Len(s) + Len(r) /\ ~(Len(s) + i <= Len(s)) /\ Len(s) + i - Len(s) = i
      BY <1>2
    <3>2. (s \o r)[Len(s) + i] = r[Len(s) + i - Len(s)]
      BY <1>1, <3>1
    <3> HIDE DEF two
    <3> QED
      BY <2>2, <3>1, <3>2
  <2> HIDE DEF two
  <2> QED
    BY <2>2, <2>3, SeqEqual
<1> QED
  BY <1>3, <1>4

PlaceAt(text, n) == <<n, IF text[n] \in Empty THEN n ELSE n + 1>>

\* What is decided is decided for calls of the text.
Placed(text, decided) ==
  \A place \in DOMAIN decided :
    /\ \E n \in DOMAIN text : text[n] \in Call /\ place = PlaceAt(text, n)
    /\ decided[place].text \in Literal

\* The literals the calls get.
GivenBy(text, decided) ==
  [call \in CallsOf(text) |->
     IF Place(text, call) \in Edits(decided) THEN decided[Place(text, call)].text ELSE NoText]

LEMMA PlaceIs ==
  ASSUME NEW text, IsText(text), NEW n \in DOMAIN text, text[n] \in Call
  PROVE  Place(text, text[n]) = PlaceAt(text, n)
<1> DEFINE at == CHOOSE i \in DOMAIN text : text[i] = text[n]
<1>1. at \in DOMAIN text /\ text[at] = text[n]
  OBVIOUS
<1>2. at = n
  <2> HIDE DEF at
  <2> QED
    BY <1>1 DEF IsText
<1>3. Place(text, text[n]) = <<at, IF text[n] \in Empty THEN at ELSE at + 1>>
  BY DEF Place
<1> HIDE DEF at
<1> QED
  BY <1>2, <1>3 DEF PlaceAt

LEMMA GivenByTypes ==
  ASSUME NEW text, NEW decided, IsText(text), Placed(text, decided)
  PROVE  GivenBy(text, decided) \in Literals(text)
<1> SUFFICES ASSUME NEW call \in CallsOf(text)
             PROVE  (IF Place(text, call) \in Edits(decided) THEN decided[Place(text, call)].text ELSE NoText) \in Literal
  BY DEF GivenBy, Literals
<1>1. NoText \in Literal
  BY DEF Literal
<1>2. CASE Place(text, call) \in Edits(decided)
  BY <1>2 DEF Edits, Placed
<1> QED
  BY <1>1, <1>2

\* What is put at an offset.
EditsAt(decided, n) == {place \in Edits(decided) : place[1] = n}

Edited(text, decided, n, r) ==
  IF EditsAt(decided, n) = {} THEN r
  ELSE LET place == CHOOSE place \in EditsAt(decided, n) : TRUE
       IN  SubSeq(r, 1, place[1])
             \o Inserted(CallAt(text, place), decided[place].text)
             \o SubSeq(r, place[2] + 1, Len(r))

GivenAt(text, literal, n, r) ==
  IF ~Given(text, literal, n) THEN r
  ELSE SubSeq(r, 1, n) \o Inserted(text[n], literal[text[n]])
         \o SubSeq(r, (IF text[n] \in Empty THEN n ELSE n + 1) + 1, Len(r))

\* What an edit at an offset is, by the literal of the call there.
LEMMA EditAt ==
  ASSUME NEW text, NEW decided, IsText(text), Placed(text, decided), NEW n \in 1 .. Len(text), NEW r,
         NEW literal, literal = GivenBy(text, decided)
  PROVE  Edited(text, decided, n, r) = GivenAt(text, literal, n, r)
<1> USE DEF GivenAt
<1>0. text \in Seq(Token) /\ DOMAIN text = 1 .. Len(text)
  BY DEF IsText
<1>1. \A place \in EditsAt(decided, n) : place = PlaceAt(text, n) /\ text[n] \in Call
  <2> SUFFICES ASSUME NEW place \in EditsAt(decided, n) PROVE place = PlaceAt(text, n) /\ text[n] \in Call
    OBVIOUS
  <2>1. PICK m \in DOMAIN text : text[m] \in Call /\ place = PlaceAt(text, m)
    BY DEF EditsAt, Edits, Placed
  <2>2. m = n
    BY <2>1 DEF EditsAt, PlaceAt
  <2> QED
    BY <2>1, <2>2
<1>2. ASSUME text[n] \in Call
      PROVE  literal[text[n]] = IF PlaceAt(text, n) \in Edits(decided) THEN decided[PlaceAt(text, n)].text ELSE NoText
  <2>1. Place(text, text[n]) = PlaceAt(text, n)
    BY <1>0, <1>2, PlaceIs
  <2>2. text[n] \in CallsOf(text)
    BY <1>0, <1>2 DEF CallsOf, ToSet
  <2> QED
    BY <2>1, <2>2 DEF GivenBy
<1>3. CASE Given(text, literal, n)
  <2>1. PlaceAt(text, n) \in Edits(decided) /\ decided[PlaceAt(text, n)].text = literal[text[n]]
    <3> QED
      BY <1>2, <1>3 DEF Given
  <2>2. PlaceAt(text, n) \in EditsAt(decided, n)
    BY <2>1 DEF EditsAt, PlaceAt
  <2> DEFINE place == CHOOSE place \in EditsAt(decided, n) : TRUE
  <2>3. place = PlaceAt(text, n)
    <3>1. place \in EditsAt(decided, n)
      BY <2>2
    <3> QED
      BY <1>1, <3>1
  <2>4. Edited(text, decided, n, r) =
          SubSeq(r, 1, place[1]) \o Inserted(CallAt(text, place), decided[place].text)
            \o SubSeq(r, place[2] + 1, Len(r))
    BY <2>2 DEF Edited
  <2> HIDE DEF place
  <2>5. place[1] = n /\ CallAt(text, place) = text[n] /\ place[2] = IF text[n] \in Empty THEN n ELSE n + 1
    BY <2>3 DEF PlaceAt, CallAt
  <2> QED
    BY <1>3, <2>1, <2>3, <2>4, <2>5
<1>4. CASE ~Given(text, literal, n)
  <2>1. EditsAt(decided, n) = {}
    <3> SUFFICES ASSUME NEW place \in EditsAt(decided, n) PROVE FALSE
      OBVIOUS
    <3>1. place = PlaceAt(text, n) /\ text[n] \in Call
      BY <1>1
    <3>2. literal[text[n]] = decided[place].text /\ decided[place].text # NoText
      <4> QED
        BY <1>2, <3>1 DEF EditsAt, Edits
    <3> QED
      BY <1>4, <3>1, <3>2 DEF Given
  <2> QED
    BY <1>4, <2>1 DEF Edited
<1> QED
  BY <1>3, <1>4

\* The text once the literals from an offset on are in place, as a splice from the token after the offset on.
WrittenFrom(text, literal, from, n) ==
  IF n > Len(text) THEN text ELSE SubSeq(text, 1, n) \o (AddedAt(text, literal, n) \o from[n + 1])

LEMMA WrittenFromTypes ==
  ASSUME NEW text \in Seq(Token), NEW literal \in Literals(text), NEW from, IsSplice(text, literal, from),
         NEW n \in 1 .. Len(text) + 1
  PROVE  WrittenFrom(text, literal, from, n) \in Seq(Token)
<1>1. CASE n > Len(text)
  BY <1>1 DEF WrittenFrom
<1>2. CASE ~(n > Len(text))
  <2>1. n \in 1 .. Len(text) /\ n + 1 \in 1 .. Len(text) + 1
    BY <1>2
  <2>2. AddedAt(text, literal, n) \in Seq(Token) /\ from[n + 1] \in Seq(Token)
    BY <2>1, TokenTypes DEF IsSplice
  <2>3. SubSeq(text, 1, n) \in Seq(Token)
    BY <2>1
  <2>4. SubSeq(text, 1, n) \o (AddedAt(text, literal, n) \o from[n + 1]) \in Seq(Token)
    <3> HIDE DEF Token
    <3> DEFINE a == SubSeq(text, 1, n)
               b == AddedAt(text, literal, n)
               c == from[n + 1]
    <3> HIDE DEF a, b, c
    <3>1. a \in Seq(Token) /\ b \in Seq(Token) /\ c \in Seq(Token)
      BY <2>2, <2>3 DEF a, b, c
    <3>2. a \o (b \o c) \in Seq(Token)
      BY <3>1
    <3> QED
      BY <3>2 DEF a, b, c
  <2> QED
    BY <1>2, <2>4 DEF WrittenFrom
<1> QED
  BY <1>1, <1>2

\* One step of the rewriting is one step of the splice.
LEMMA OneEdit ==
  ASSUME NEW text, NEW decided, IsText(text), Placed(text, decided), NEW literal, literal = GivenBy(text, decided),
         NEW from, IsSplice(text, literal, from), NEW n \in 1 .. Len(text)
  PROVE  Edited(text, decided, n, WrittenFrom(text, literal, from, n + 1)) = WrittenFrom(text, literal, from, n)
<1> DEFINE r == WrittenFrom(text, literal, from, n + 1)
<1> SUFFICES Edited(text, decided, n, r) = WrittenFrom(text, literal, from, n)
  OBVIOUS
<1> HIDE DEF r
<1> DEFINE A == SubSeq(text, 1, n)
           G == IF n = Len(text) THEN <<>>
                ELSE <<text[n + 1]>> \o (AddedAt(text, literal, n + 1) \o from[n + 2])
           X == AddedAt(text, literal, n)
           F == from[n + 1]
<1>0. /\ n \in Nat /\ n <= Len(text) /\ 1 <= n
      /\ text \in Seq(Token) /\ literal \in Literals(text) /\ Len(text) \in Nat /\ n + 1 \in 1 .. Len(text) + 1
      /\ DOMAIN text = 1 .. Len(text)
  BY GivenByTypes DEF IsText
<1>a. n \in Nat /\ Len(text) \in Nat /\ n <= Len(text) /\ 1 <= n
  BY <1>0
<1>1. A \in Seq(Token) /\ Len(A) = n
  BY <1>0
<1>2. X \in Seq(Token) /\ F \in Seq(Token)
  BY <1>0, TokenTypes DEF IsSplice
<1>3. G \in Seq(Token) /\ r = A \o G
  <2>1. CASE n = Len(text)
    <3>1. r = text
      <4>1. n + 1 > Len(text)
        BY <1>a, <2>1
      <4> QED
        BY <4>1 DEF WrittenFrom, r
    <3>a. A = text
      BY <1>0, <2>1, SubSeqFull
    <3>2. G = <<>>
      BY <2>1
    <3> HIDE DEF A, G
    <3> QED
      BY <1>0, <3>1, <3>a, <3>2, ConcatEmptySeq, EmptySeq
  <2>2. CASE n # Len(text)
    <3> DEFINE Z == AddedAt(text, literal, n + 1) \o from[n + 2]
               B == <<text[n + 1]>>
    <3>1. n + 1 \in 1 .. Len(text) /\ n + 2 \in 1 .. Len(text) + 1 /\ n \in n .. Len(text)
      BY <1>a, <2>2
    <3>2. Z \in Seq(Token)
      <4>1. AddedAt(text, literal, n + 1) \in Seq(Token) /\ from[n + 2] \in Seq(Token)
        BY <1>0, <3>1, TokenTypes DEF IsSplice
      <4> QED
        BY <4>1
    <3>3. B \in Seq(Token)
      <4>1. text[n + 1] \in Token
        BY <1>0, <3>1
      <4> QED
        BY <4>1
    <3>4. r = SubSeq(text, 1, n + 1) \o Z
      <4>1. ~(n + 1 > Len(text)) /\ n + 1 + 1 = n + 2
        BY <1>0, <3>1
      <4> QED
        BY <4>1 DEF WrittenFrom, r
    <3>5. SubSeq(text, 1, n + 1) = A \o B
      <4>1. 1 \in 1 .. Len(text) /\ n + 1 \in 1 .. Len(text) /\ n + 1 - 1 = n
        BY <1>0, <3>1
      <4>2. SubSeq(text, 1, n + 1) = SubSeq(text, 1, n + 1 - 1) \o <<text[n + 1]>>
        BY <1>0, <4>1, SubSeqRecursiveSecond
      <4> QED
        BY <4>1, <4>2
    <3>6. G = B \o Z
      BY <2>2
    <3> HIDE DEF A, B, Z, G
    <3>7. (A \o B) \o Z = A \o (B \o Z)
      BY <1>1, <3>2, <3>3, ConcatAssociative, SMTT(30)
    <3>8. B \o Z \in Seq(Token)
      BY <3>2, <3>3
    <3> QED
      BY <3>4, <3>5, <3>6, <3>7, <3>8
  <2> QED
    BY <2>1, <2>2
<1>4. WrittenFrom(text, literal, from, n) = A \o (X \o F)
  <2>1. ~(n > Len(text))
    BY <1>0
  <2> QED
    BY <2>1 DEF WrittenFrom
<1>5. Edited(text, decided, n, r) =
        IF ~Given(text, literal, n) THEN r
        ELSE SubSeq(r, 1, n) \o Inserted(text[n], literal[text[n]])
               \o SubSeq(r, (IF text[n] \in Empty THEN n ELSE n + 1) + 1, Len(r))
  <2>1. Edited(text, decided, n, r) = GivenAt(text, literal, n, r)
    BY EditAt
  <2> QED
    BY <2>1 DEF GivenAt
\* The tokens after the call: as they were, unless it holds a literal that is replaced.
<1>6. ~(Given(text, literal, n) /\ text[n] \notin Empty) => F = G
  <2> SUFFICES ASSUME ~(Given(text, literal, n) /\ text[n] \notin Empty) PROVE F = G
    OBVIOUS
  <2>1. CASE n = Len(text)
    BY <2>1 DEF IsSplice
  <2>2. CASE n # Len(text)
    <3>1. n + 1 \in 1 .. Len(text) /\ n + 1 - 1 = n /\ n + 1 + 1 = n + 2
      BY <1>a, <2>2
    <3>2. TokenAt(text, literal, n + 1) = text[n + 1]
      BY <3>1 DEF TokenAt
    <3>3. F = <<TokenAt(text, literal, n + 1)>> \o (AddedAt(text, literal, n + 1) \o from[n + 1 + 1])
      BY <3>1 DEF IsSplice
    <3> QED
      BY <2>2, <3>1, <3>2, <3>3
  <2> QED
    BY <2>1, <2>2
<1>7. SubSeq(r, 1, n) = A /\ SubSeq(r, n + 1, Len(r)) = G
  <2> HIDE DEF A, G
  <2> QED
    BY <1>1, <1>3, Around
<1>8. CASE ~Given(text, literal, n)
  <2>1. X = <<>>
    BY <1>8 DEF AddedAt
  <2> HIDE DEF A, G, X, F
  <2>2. X \o F = F
    BY <1>2, <2>1, ConcatEmptySeq
  <2> QED
    BY <1>3, <1>4, <1>5, <1>6, <1>8, <2>2
<1>9. CASE Given(text, literal, n) /\ text[n] \in Empty
  <2>1. X = Inserted(text[n], literal[text[n]])
    BY <1>9 DEF AddedAt
  <2> HIDE DEF A, G, X, F
  <2>2. Edited(text, decided, n, r) = (A \o X) \o G
    BY <1>5, <1>7, <1>9, <2>1
  <2>3. (A \o X) \o G = A \o (X \o G)
    <3>1. A \in Seq(Token) /\ X \in Seq(Token) /\ G \in Seq(Token)
      BY <1>1, <1>2, <1>3
    <3> QED
      BY ONLY <3>1, ConcatAssociative, SMTT(30)
  <2> QED
    BY <1>4, <1>6, <1>9, <2>2, <2>3
<1>10. CASE Given(text, literal, n) /\ text[n] \notin Empty
  <2> DEFINE Z == AddedAt(text, literal, n + 1) \o from[n + 2]
             x == literal[text[n]]
  <2>1. n + 1 \in 1 .. Len(text) /\ n + 2 \in 1 .. Len(text) + 1
    BY <1>0, <1>10 DEF IsText, Given
  <2>2. Z \in Seq(Token)
    <3>1. AddedAt(text, literal, n + 1) \in Seq(Token) /\ from[n + 2] \in Seq(Token)
      BY <1>0, <2>1, TokenTypes DEF IsSplice
    <3> QED
      BY <3>1
  <2>3. x = TokenAt(text, literal, n + 1) /\ <<x>> \in Seq(Token) /\ <<text[n + 1]>> \in Seq(Token)
    <3>1. n + 1 - 1 = n
      BY <1>0
    <3>2. x = TokenAt(text, literal, n + 1)
      BY <1>10, <3>1 DEF TokenAt
    <3>3. TokenAt(text, literal, n + 1) \in Token /\ text[n + 1] \in Token
      BY <1>0, <2>1, TokenTypes
    <3> HIDE DEF x
    <3> QED
      BY <3>2, <3>3
  <2>4. F = <<x>> \o Z
    <3>1. F = <<TokenAt(text, literal, n + 1)>> \o (AddedAt(text, literal, n + 1) \o from[n + 1 + 1])
      BY <2>1 DEF IsSplice
    <3>2. n + 1 + 1 = n + 2
      BY <1>0
    <3> QED
      BY <2>3, <3>1, <3>2
  <2>5. G = <<text[n + 1]>> \o Z
    <3>1. n # Len(text)
      BY <1>a, <2>1
    <3> QED
      BY <3>1
  <2>6. X = <<>>
    BY <1>10 DEF AddedAt
  <2>7. Inserted(text[n], x) = <<x>>
    BY <1>10, CallsAssumption DEF Inserted
  <2>8. SubSeq(r, n + 2, Len(r)) = Z
    <3> DEFINE B == <<text[n + 1]>>
    <3>0. B \in Seq(Token) /\ Len(B) = 1
      BY <2>3
    <3> HIDE DEF A, B, Z, G
    <3>1. r = (A \o B) \o Z
      <4>1. (A \o B) \o Z = A \o (B \o Z)
        BY <1>1, <2>2, <3>0, ConcatAssociative, SMTT(30)
      <4> QED
        BY <1>3, <2>5, <4>1 DEF B
    <3>2. A \o B \in Seq(Token) /\ Len(A \o B) = n + 1
      BY <1>1, <3>0, ConcatProperties
    <3>3. SubSeq((A \o B) \o Z, Len(A \o B) + 1, Len((A \o B) \o Z)) = Z
      BY <2>2, <3>2, Around
    <3>4. Len(A \o B) + 1 = n + 2
      BY <1>0, <3>2
    <3> QED
      BY <3>1, <3>3, <3>4
  <2> HIDE DEF A, G, X, F, Z
  <2>9. Edited(text, decided, n, r) = (A \o <<x>>) \o Z
    <3>1. (IF text[n] \in Empty THEN n ELSE n + 1) + 1 = n + 2
      BY <1>0, <1>10
    <3> HIDE DEF x
    <3> QED
      BY <1>5, <1>7, <1>10, <2>7, <2>8, <3>1 DEF x
  <2>10. (A \o <<x>>) \o Z = A \o (<<x>> \o Z)
    BY <1>1, <2>2, <2>3, ConcatAssociative
  <2>11. X \o F = F
    BY <1>2, <2>6, ConcatEmptySeq
  <2> QED
    BY <1>4, <2>4, <2>9, <2>10, <2>11
<1> QED
  BY <1>8, <1>9, <1>10

LEMMA RewriteIsSplice ==
  ASSUME NEW text, NEW decided, IsText(text), Placed(text, decided), NEW literal, literal = GivenBy(text, decided)
  PROVE  Rewritten(text, decided) = Spliced(text, literal)
<1> DEFINE L == Len(text)
           P(u) == u = [n \in 1 .. L + 1 |-> IF n > L THEN text ELSE Edited(text, decided, n, u[n + 1])]
           t == CHOOSE u : P(u)
<1>0. text \in Seq(Token) /\ literal \in Literals(text) /\ L \in Nat
  BY GivenByTypes DEF IsText
<1>1. PICK from : IsSplice(text, literal, from) /\ Spliced(text, literal) = from[1]
  BY <1>0, SplicedFrom
<1> DEFINE g == [n \in 1 .. L + 1 |-> WrittenFrom(text, literal, from, n)]
<1>2. P(g)
  <2>1. ASSUME NEW n \in 1 .. L + 1
        PROVE  WrittenFrom(text, literal, from, n) = IF n > L THEN text ELSE Edited(text, decided, n, g[n + 1])
    <3>1. CASE n > L
      BY <3>1 DEF WrittenFrom
    <3>2. CASE ~(n > L)
      <4>1. n \in 1 .. L /\ n + 1 \in 1 .. L + 1
        BY <1>0, <3>2
      <4>2. g[n + 1] = WrittenFrom(text, literal, from, n + 1)
        BY <4>1
      <4>3. Edited(text, decided, n, WrittenFrom(text, literal, from, n + 1)) = WrittenFrom(text, literal, from, n)
        BY <1>1, <4>1, OneEdit
      <4> HIDE DEF g, L
      <4> QED
        BY <3>2, <4>2, <4>3
    <3> QED
      BY <3>1, <3>2
  <2> DEFINE F(n) == IF n > L THEN text ELSE Edited(text, decided, n, g[n + 1])
  <2>2. \A n \in 1 .. L + 1 : WrittenFrom(text, literal, from, n) = F(n)
    BY <2>1
  <2>3. g = [n \in 1 .. L + 1 |-> F(n)]
    <3> HIDE DEF F, L
    <3> QED
      BY <2>2
  <2> QED
    BY <2>3
<1>3. P(t)
  <2> HIDE DEF P, g
  <2> QED
    BY <1>2
<1>4. Rewritten(text, decided) = t[1]
  BY DEF Rewritten, Edited, EditsAt
<1> HIDE DEF t
<1>5. t[1] = g[1]
  <2> DEFINE G == {n \in 1 .. L + 1 : t[n] = g[n]}
  <2>1. \A n \in 1 .. L + 1 : t[n] = IF n > L THEN text ELSE Edited(text, decided, n, t[n + 1])
    <3> HIDE DEF L
    <3> QED
      BY <1>3
  <2>2. \A n \in 1 .. L + 1 : g[n] = IF n > L THEN text ELSE Edited(text, decided, n, g[n + 1])
    <3> HIDE DEF L, g
    <3> QED
      BY <1>2
  <2> HIDE DEF g, L
  <2>3. L + 1 \in G
    BY <1>0, <2>1, <2>2
  <2>4. ASSUME NEW n \in 1 .. L, n + 1 \in G PROVE n \in G
    <3>1. n \in 1 .. L + 1 /\ ~(n > L)
      BY <1>0
    <3>2. t[n + 1] = g[n + 1]
      BY <2>4
    <3>3. t[n] = Edited(text, decided, n, t[n + 1]) /\ g[n] = Edited(text, decided, n, g[n + 1])
      BY <2>1, <2>2, <3>1
    <3> QED
      BY <3>1, <3>2, <3>3
  <2>5. 1 .. L + 1 \subseteq G
    <3> HIDE DEF G
    <3> QED
      BY <1>0, <2>3, <2>4, Downward
  <2> QED
    BY <1>0, <2>5
<1>6. g[1] = from[1]
  <2>1. g[1] = WrittenFrom(text, literal, from, 1)
    BY <1>0
  <2>2. CASE L = 0
    <3>1. text = <<>>
      BY <1>0, <2>2
    <3>2. from[1] = <<>>
      BY <1>1, <2>2 DEF IsSplice
    <3>3. WrittenFrom(text, literal, from, 1) = text
      BY <2>2 DEF WrittenFrom
    <3> HIDE DEF g
    <3> QED
      BY <2>1, <3>1, <3>2, <3>3
  <2>3. CASE L # 0
    <3>1. 1 \in 1 .. L /\ ~(1 > L)
      BY <1>0, <2>3
    <3>2. SubSeq(text, 1, 1) = <<text[1]>>
      <4>1. 1 \in 1 .. Len(text) /\ 1 \in 1 .. Len(text) /\ 1 - 1 = 0 /\ text[1] \in Token
        BY <1>0, <3>1
      <4>2. SubSeq(text, 1, 1) = SubSeq(text, 1, 1 - 1) \o <<text[1]>>
        BY <1>0, <4>1, SubSeqRecursiveSecond
      <4>3. SubSeq(text, 1, 0) = <<>>
        BY SubSeqEmpty
      <4>4. <<text[1]>> \in Seq(Token)
        BY <4>1
      <4>5. <<>> \o <<text[1]>> = <<text[1]>>
        BY <4>4, ConcatEmptySeq
      <4> QED
        BY <4>1, <4>2, <4>3, <4>5
    <3>3. TokenAt(text, literal, 1) = text[1]
      BY DEF TokenAt, Given
    <3>4. from[1] = <<TokenAt(text, literal, 1)>> \o (AddedAt(text, literal, 1) \o from[1 + 1])
      BY <1>1, <3>1 DEF IsSplice
    <3>5. WrittenFrom(text, literal, from, 1) = SubSeq(text, 1, 1) \o (AddedAt(text, literal, 1) \o from[1 + 1])
      BY <3>1 DEF WrittenFrom
    <3> HIDE DEF g
    <3> QED
      BY <2>1, <3>2, <3>3, <3>4, <3>5
  <2> QED
    BY <2>2, <2>3
<1> QED
  BY <1>1, <1>4, <1>5, <1>6

\* A splice without a literal is the text.
LEMMA PlainSplice ==
  ASSUME NEW text \in Seq(Token), NEW literal \in Literals(text), \A call \in CallsOf(text) : literal[call] = NoText
  PROVE  Spliced(text, literal) = text
<1> DEFINE L == Len(text)
<1>1. PICK from : IsSplice(text, literal, from) /\ Spliced(text, literal) = from[1]
  BY SplicedFrom
<1> DEFINE G == {n \in 1 .. L + 1 : from[n] = SubSeq(text, n, L)}
<1>2. L \in Nat /\ DOMAIN text = 1 .. L
  OBVIOUS
<1>3. L + 1 \in G
  <2>1. SubSeq(text, L + 1, L) = <<>>
    BY <1>2, SubSeqEmpty
  <2> QED
    BY <1>1, <1>2, <2>1 DEF IsSplice
<1>4. ASSUME NEW n \in 1 .. L, n + 1 \in G PROVE n \in G
  <2>1. \A m \in 1 .. L : ~Given(text, literal, m)
    BY <1>2 DEF Given, CallsOf, ToSet
  <2>2. TokenAt(text, literal, n) = text[n]
    <3>1. ~Given(text, literal, n - 1)
      <4>1. n - 1 > 0 => n - 1 \in 1 .. L
        BY <1>2
      <4> QED
        BY <2>1, <4>1 DEF Given
    <3> QED
      BY <3>1 DEF TokenAt
  <2>3. AddedAt(text, literal, n) = <<>>
    BY <2>1 DEF AddedAt
  <2>4. n + 1 \in 1 .. L + 1 /\ n \in n .. L /\ L \in n .. L
    BY <1>2
  <2>5. from[n + 1] \in Seq(Token) /\ from[n + 1] = SubSeq(text, n + 1, L)
    BY <1>1, <1>4, <2>4 DEF IsSplice
  <2>6. <<>> \o from[n + 1] = from[n + 1]
    BY <2>5, ConcatEmptySeq
  <2>7. SubSeq(text, n, L) = <<text[n]>> \o SubSeq(text, n + 1, L)
    BY <2>4, SubSeqRecursiveFirst
  <2>8. from[n] = <<text[n]>> \o (<<>> \o from[n + 1])
    BY <1>1, <2>2, <2>3 DEF IsSplice
  <2>9. n \in 1 .. L + 1
    BY <1>2
  <2> QED
    BY <2>5, <2>6, <2>7, <2>8, <2>9
<1>5. 1 .. L + 1 \subseteq G
  <2> HIDE DEF G, L
  <2> QED
    BY <1>2, <1>3, <1>4, Downward
<1>6. from[1] = SubSeq(text, 1, L)
  BY <1>2, <1>5
<1> QED
  BY <1>1, <1>6, SubSeqFull

\* Wherever a call is, the literal follows it.
Follows(s, call, x) == \A i \in 1 .. Len(s) : s[i] = call => i + 1 \in 1 .. Len(s) /\ s[i + 1] = x
Occurs(s, call)     == \E i \in 1 .. Len(s) : s[i] = call

LEMMA FollowsAfter ==
  ASSUME NEW s \in Seq(Token), NEW r \in Seq(Token), NEW call, NEW x, Follows(r, call, x),
         \A i \in 1 .. Len(s) : s[i] = call => i + 1 \in 1 .. Len(s \o r) /\ (s \o r)[i + 1] = x
  PROVE  Follows(s \o r, call, x)
<1>1. /\ Len(s \o r) = Len(s) + Len(r) /\ Len(s) \in Nat /\ Len(r) \in Nat
      /\ \A i \in 1 .. Len(s) + Len(r) : (s \o r)[i] = IF i <= Len(s) THEN s[i] ELSE r[i - Len(s)]
  BY ConcatProperties
<1> DEFINE u == s \o r
<1>2. ASSUME NEW i \in 1 .. Len(u), u[i] = call PROVE i + 1 \in 1 .. Len(u) /\ u[i + 1] = x
  <2>1. CASE i <= Len(s)
    <3>1. i \in 1 .. Len(s) /\ s[i] = call
      BY <1>1, <1>2, <2>1
    <3> QED
      BY <3>1
  <2>2. CASE ~(i <= Len(s))
    <3> DEFINE j == i - Len(s)
    <3>1. j \in 1 .. Len(r) /\ j + 1 = i + 1 - Len(s) /\ r[j] = call
      BY <1>1, <1>2, <2>2
    <3> HIDE DEF j
    <3>2. j + 1 \in 1 .. Len(r) /\ r[j + 1] = x
      BY <3>1 DEF Follows
    <3>3. i + 1 \in 1 .. Len(s) + Len(r) /\ ~(i + 1 <= Len(s))
      BY <1>1, <1>2, <2>2, <3>1, <3>2 DEF j
    <3> QED
      BY <1>1, <3>1, <3>2, <3>3
  <2> QED
    BY <2>1, <2>2
<1> QED
  BY <1>2 DEF Follows

LEMMA OccursIn ==
  ASSUME NEW s \in Seq(Token), NEW r \in Seq(Token), NEW call, Occurs(s, call) \/ Occurs(r, call)
  PROVE  Occurs(s \o r, call)
<1>1. /\ Len(s \o r) = Len(s) + Len(r) /\ Len(s) \in Nat /\ Len(r) \in Nat
      /\ \A i \in 1 .. Len(s) + Len(r) : (s \o r)[i] = IF i <= Len(s) THEN s[i] ELSE r[i - Len(s)]
  BY ConcatProperties
<1>2. CASE Occurs(s, call)
  <2>1. PICK i \in 1 .. Len(s) : s[i] = call
    BY <1>2 DEF Occurs
  <2>2. i \in 1 .. Len(s \o r) /\ (s \o r)[i] = call
    BY <1>1, <2>1
  <2> QED
    BY <2>2 DEF Occurs
<1>3. CASE Occurs(r, call)
  <2>1. PICK i \in 1 .. Len(r) : r[i] = call
    BY <1>3 DEF Occurs
  <2>2. Len(s) + i \in 1 .. Len(s) + Len(r) /\ ~(Len(s) + i <= Len(s)) /\ Len(s) + i - Len(s) = i
    BY <1>1
  <2>3. Len(s) + i \in 1 .. Len(s \o r) /\ (s \o r)[Len(s) + i] = call
    BY <1>1, <2>1, <2>2
  <2> QED
    BY <2>3 DEF Occurs
<1> QED
  BY <1>2, <1>3

LEMMA FirstOfPair ==
  ASSUME NEW y, NEW r \in Seq(Token), <<y>> \in Seq(Token)
  PROVE  /\ Len(<<y>> \o r) = 1 + Len(r) /\ (<<y>> \o r)[1] = y /\ Len(r) \in Nat
         /\ \A i \in 1 .. Len(r) : (<<y>> \o r)[i + 1] = r[i]
<1> DEFINE s == <<y>>
<1>1. s \in Seq(Token) /\ Len(s) = 1 /\ s[1] = y
  OBVIOUS
<1> HIDE DEF s
<1>2. /\ Len(s \o r) = Len(s) + Len(r) /\ Len(r) \in Nat
      /\ \A i \in 1 .. Len(s) + Len(r) : (s \o r)[i] = IF i <= Len(s) THEN s[i] ELSE r[i - Len(s)]
  BY <1>1, ConcatProperties
<1>3. (s \o r)[1] = y
  <2>1. 1 \in 1 .. Len(s) + Len(r) /\ 1 <= Len(s)
    BY <1>1, <1>2
  <2> QED
    BY <1>1, <1>2, <2>1
<1>4. ASSUME NEW i \in 1 .. Len(r) PROVE (s \o r)[i + 1] = r[i]
  <2>1. i + 1 \in 1 .. Len(s) + Len(r) /\ ~(i + 1 <= Len(s)) /\ i + 1 - Len(s) = i
    BY <1>1, <1>2
  <2> QED
    BY <1>2, <2>1
<1> QED
  BY <1>1, <1>2, <1>3, <1>4 DEF s

\* A call that was given a literal holds it.
LEMMA LiteralFollows ==
  ASSUME NEW text, IsText(text), NEW literal \in Literals(text), NEW call \in CallsOf(text), literal[call] # NoText
  PROVE  LiteralOf(Spliced(text, literal), call) = literal[call]
<1> DEFINE L == Len(text)
           x == literal[call]
           Tok(n) == TokenAt(text, literal, n)
           Add(n) == AddedAt(text, literal, n)
<1>0. /\ text \in Seq(Token) /\ L \in Nat /\ DOMAIN text = 1 .. L /\ call \in Call
      /\ x \in Literal /\ x \notin Call /\ Comma \notin Call /\ Literal \cap Call = {}
  BY SourceAssumption DEF IsText, CallsOf, Literals
<1>1. PICK from : IsSplice(text, literal, from) /\ Spliced(text, literal) = from[1]
  BY <1>0, SplicedFrom
<1>2. PICK m \in 1 .. L : text[m] = call
  BY <1>0 DEF CallsOf, ToSet
<1>3. ASSUME NEW n \in 1 .. L
      PROVE  /\ from[n] = <<Tok(n)>> \o (Add(n) \o from[n + 1])
             /\ from[n + 1] \in Seq(Token) /\ Add(n) \in Seq(Token) /\ <<Tok(n)>> \in Seq(Token)
             /\ Add(n) \o from[n + 1] \in Seq(Token)
  <2>1. from[n] = <<Tok(n)>> \o (Add(n) \o from[n + 1])
    BY <1>1 DEF IsSplice
  <2>2. from[n + 1] \in Seq(Token)
    <3>1. n + 1 \in 1 .. L + 1
      BY <1>0
    <3> QED
      BY <1>1, <3>1 DEF IsSplice
  <2>3. Tok(n) \in Token /\ Add(n) \in Seq(Token)
    BY <1>0, TokenTypes
  <2> HIDE DEF Tok, Add
  <2>4. <<Tok(n)>> \in Seq(Token) /\ Add(n) \o from[n + 1] \in Seq(Token)
    BY <2>2, <2>3
  <2> QED
    BY <2>1, <2>2, <2>3, <2>4
\* A token is the call just where the text has it.
<1>4. ASSUME NEW n \in 1 .. L PROVE Tok(n) = call <=> text[n] = call
  <2>1. CASE Given(text, literal, n - 1) /\ text[n - 1] \notin Empty
    <3>1. n - 1 \in 1 .. L /\ text[n - 1] \in Call \ Empty /\ n - 1 + 1 = n
      BY <1>0, <2>1 DEF Given
    <3>2. text[n] \notin Call
      BY <1>0, <3>1 DEF IsText
    <3>3. literal[text[n - 1]] \in Literal
      <4>1. text[n - 1] \in CallsOf(text)
        BY <1>0, <3>1 DEF CallsOf, ToSet
      <4> QED
        BY <4>1 DEF Literals
    <3>4. Tok(n) = literal[text[n - 1]]
      BY <2>1 DEF TokenAt
    <3> HIDE DEF Tok
    <3> QED
      BY <1>0, <3>2, <3>3, <3>4
  <2>2. CASE ~(Given(text, literal, n - 1) /\ text[n - 1] \notin Empty)
    BY <2>2 DEF TokenAt
  <2> QED
    BY <2>1, <2>2
\* What is added is no call.
<1>5. ASSUME NEW n \in 1 .. L PROVE \A i \in 1 .. Len(Add(n)) : Add(n)[i] # call
  <2>1. CASE Given(text, literal, n) /\ text[n] \in Empty
    <3> DEFINE y == literal[text[n]]
    <3>1. y \in Literal
      <4>1. text[n] \in CallsOf(text)
        BY <1>0, <2>1 DEF CallsOf, ToSet, Given
      <4> QED
        BY <4>1 DEF Literals
    <3>2. y # call /\ Comma # call
      <4> HIDE DEF y
      <4> QED
        BY <1>0, <3>1
    <3>3. Add(n) = IF text[n] \in WithArgs THEN <<y, Comma>> ELSE <<y>>
      BY <2>1 DEF AddedAt, Inserted
    <3> HIDE DEF y, Add
    <3>4. CASE text[n] \in WithArgs
      BY <3>2, <3>3, <3>4
    <3>5. CASE text[n] \notin WithArgs
      BY <3>2, <3>3, <3>5
    <3> QED
      BY <3>4, <3>5
  <2>2. CASE ~(Given(text, literal, n) /\ text[n] \in Empty)
    <3>1. Add(n) = <<>>
      BY <2>2 DEF AddedAt
    <3> HIDE DEF Add
    <3> QED
      BY <3>1
  <2> QED
    BY <2>1, <2>2
\* The token after the call.
<1>6. ASSUME NEW n \in 1 .. L, text[n] = call
      PROVE  1 \in 1 .. Len(Add(n) \o from[n + 1]) /\ (Add(n) \o from[n + 1])[1] = x
  <2>0. /\ Given(text, literal, n)
        /\ Len(Add(n) \o from[n + 1]) = Len(Add(n)) + Len(from[n + 1])
        /\ Len(Add(n)) \in Nat /\ Len(from[n + 1]) \in Nat
        /\ \A i \in 1 .. Len(Add(n)) + Len(from[n + 1]) :
             (Add(n) \o from[n + 1])[i] = IF i <= Len(Add(n)) THEN Add(n)[i] ELSE from[n + 1][i - Len(Add(n))]
    <3>1. Given(text, literal, n)
      BY <1>0, <1>6 DEF Given
    <3> HIDE DEF Add
    <3> QED
      BY <1>3, <3>1, ConcatProperties
  <2>1. CASE call \in Empty
    <3>1. Add(n) = IF call \in WithArgs THEN <<x, Comma>> ELSE <<x>>
      BY <1>6, <2>0, <2>1 DEF AddedAt, Inserted
    <3> HIDE DEF Add, x
    <3>2. Len(Add(n)) >= 1 /\ Add(n)[1] = x
      BY <3>1
    <3> QED
      BY <2>0, <3>2
  <2>2. CASE call \notin Empty
    <3>1. n + 1 \in 1 .. L /\ n + 1 - 1 = n
      BY <1>0, <1>6, <2>2 DEF IsText
    <3>2. Add(n) = <<>>
      BY <1>6, <2>2 DEF AddedAt
    <3>3. Tok(n + 1) = x
      BY <1>6, <2>0, <2>2, <3>1 DEF TokenAt
    <3> HIDE DEF Add, Tok, x
    <3>4. /\ from[n + 1] = <<Tok(n + 1)>> \o (Add(n + 1) \o from[n + 1 + 1])
          /\ <<Tok(n + 1)>> \in Seq(Token) /\ Add(n + 1) \o from[n + 1 + 1] \in Seq(Token)
      BY <1>3, <3>1
    <3>5. Len(from[n + 1]) >= 1 /\ from[n + 1][1] = x
      <4> DEFINE rest == Add(n + 1) \o from[n + 1 + 1]
      <4>1. from[n + 1] = <<x>> \o rest /\ <<x>> \in Seq(Token) /\ rest \in Seq(Token)
        BY <3>3, <3>4
      <4> HIDE DEF rest
      <4>2. Len(<<x>> \o rest) = 1 + Len(rest) /\ (<<x>> \o rest)[1] = x /\ Len(rest) \in Nat
        BY <4>1, FirstOfPair
      <4> QED
        BY <4>1, <4>2
    <3>6. Add(n) \o from[n + 1] = from[n + 1]
      BY <1>3, <3>2, ConcatEmptySeq
    <3> QED
      BY <2>0, <3>5, <3>6
  <2> QED
    BY <2>1, <2>2
<1> HIDE DEF Tok, Add
<1> DEFINE G == {n \in 1 .. L + 1 : Follows(from[n], call, x) /\ (n <= m => Occurs(from[n], call))}
<1>7. L + 1 \in G
  <2>1. from[L + 1] = <<>> /\ ~(L + 1 <= m) /\ L + 1 \in 1 .. L + 1
    BY <1>0, <1>1, <1>2 DEF IsSplice
  <2>2. Follows(<<>>, call, x)
    BY DEF Follows
  <2> QED
    BY <2>1, <2>2
<1>8. ASSUME NEW n \in 1 .. L, n + 1 \in G PROVE n \in G
  <2> DEFINE r == Add(n) \o from[n + 1]
             s == <<Tok(n)>>
  <2>1. from[n] = s \o r /\ r \in Seq(Token) /\ s \in Seq(Token) /\ Add(n) \in Seq(Token) /\ from[n + 1] \in Seq(Token)
    BY <1>3
  <2>2. Follows(r, call, x)
    <3>1. Follows(from[n + 1], call, x)
      BY <1>8
    <3>2. \A i \in 1 .. Len(Add(n)) : Add(n)[i] # call
      BY <1>5
    <3> QED
      BY <2>1, <3>1, <3>2, FollowsAfter
  <2>3. Follows(from[n], call, x)
    <3>0. Len(s) = 1 /\ s[1] = Tok(n)
      OBVIOUS
    <3>1. ASSUME Tok(n) = call PROVE 1 + 1 \in 1 .. Len(s \o r) /\ (s \o r)[1 + 1] = x
      <4>1. 1 \in 1 .. Len(r) /\ r[1] = x
        BY <1>4, <1>6, <3>1
      <4>2. /\ Len(s \o r) = 1 + Len(r) /\ Len(r) \in Nat
            /\ \A i \in 1 .. Len(r) : (s \o r)[i + 1] = r[i]
        <5> HIDE DEF r
        <5> QED
          BY <2>1, FirstOfPair
      <4> HIDE DEF s, r
      <4> QED
        BY <4>1, <4>2
    <3> HIDE DEF s, r
    <3>2. \A i \in 1 .. Len(s) : s[i] = call => i + 1 \in 1 .. Len(s \o r) /\ (s \o r)[i + 1] = x
      BY <3>0, <3>1
    <3>3. Follows(s \o r, call, x)
      BY <2>1, <2>2, <3>2, FollowsAfter
    <3> QED
      BY <2>1, <3>3
  <2>4. n <= m => Occurs(from[n], call)
    <3>1. CASE n = m
      <4>1. Tok(n) = call
        BY <1>2, <1>4, <3>1
      <4>2. Occurs(s, call)
        BY <4>1 DEF Occurs
      <4> HIDE DEF s, r
      <4> QED
        BY <2>1, <4>2, OccursIn
    <3>2. CASE n < m
      <4>1. Occurs(from[n + 1], call)
        BY <1>0, <1>8, <3>2
      <4>2. Occurs(r, call)
        BY <2>1, <4>1, OccursIn
      <4> HIDE DEF s, r
      <4> QED
        BY <2>1, <4>2, OccursIn
    <3> QED
      BY <3>1, <3>2
  <2>5. n \in 1 .. L + 1
    BY <1>0
  <2> QED
    BY <2>3, <2>4, <2>5
<1>9. 1 .. L + 1 \subseteq G
  <2> HIDE DEF G, L
  <2> QED
    BY <1>0, <1>7, <1>8, Downward
<1>10. Follows(from[1], call, x) /\ Occurs(from[1], call) /\ from[1] \in Seq(Token)
  <2>1. 1 \in 1 .. L + 1 /\ 1 <= m
    BY <1>0
  <2>2. from[1] \in Seq(Token)
    BY <1>1, <2>1 DEF IsSplice
  <2> QED
    BY <1>9, <2>1, <2>2
<1> DEFINE S == Spliced(text, literal)
           at == CHOOSE i \in DOMAIN S : S[i] = call
<1>11. S = from[1] /\ DOMAIN S = 1 .. Len(S)
  BY <1>1, <1>10
<1> HIDE DEF S
<1>12. at \in 1 .. Len(S) /\ S[at] = call
  BY <1>10, <1>11 DEF Occurs
<1>13. LiteralOf(S, call) = S[at + 1]
  BY DEF LiteralOf
<1> HIDE DEF at
<1>14. S[at + 1] = x
  BY <1>10, <1>11, <1>12 DEF Follows
<1> QED
  BY <1>13, <1>14 DEF S

-----------------------------------------------------------------------------
(* What a process notes of its inline calls, and what its rows say of them *)

Reaches == {k.reach : k \in Case} \ {NoReach}

Run == [text : Literal, stale : BOOLEAN, source : Seq(Token), takes : {reach.takes : reach \in Reaches},
        drifts : {reach.drifts : reach \in Reaches}, later : BOOLEAN, judged : SUBSET Literal]

\* A run of a case, noted at the place its call had in the file as it was.
IsRunOf(site, run, reach) ==
  /\ site = <<FileOf(reach.call), Place(run.source, reach.call)>>
  /\ run.text = reach.text /\ run.stale = Stale(reach) /\ run.takes = reach.takes
  /\ run.later => run.drifts = run.takes

\* Runs by file and place, each place with a run of a case, and one of each of some cases.
SeenHolds(s, cases) ==
  /\ \A site \in DOMAIN s :
       /\ s[site] \in Seq(Run)
       /\ \E i \in DOMAIN s[site] : \E reach \in Reaches : IsRunOf(site, s[site][i], reach)
  /\ \A reach \in cases : \E site \in DOMAIN s : \E i \in DOMAIN s[site] : IsRunOf(site, s[site][i], reach)

\* What a row says of a case that reached its call.
RowTells(row, reach) ==
  /\ row.file = FileOf(reach.call)
  /\ \E source \in row.sources : row.place = Place(source, reach.call)
  /\ row.settled /\ Stale(reach) /\ reach.text # NoText => row.written # NoText
  /\ row.held # NoText => row.held \in reach.takes
  /\ row.written # NoText => row.held = row.written
  /\ row.written \in Literal

RowsTell(rows, cases) ==
  /\ \A row \in rows : \E reach \in Reaches : RowTells(row, reach)
  /\ \A reach \in cases : \E row \in rows : RowTells(row, reach)

\* Two records of one run, the same but for what it was judged by.
Alike(run, other) ==
  /\ other.text = run.text /\ other.stale = run.stale /\ other.source = run.source
  /\ other.takes = run.takes /\ other.drifts = run.drifts /\ other.later = run.later

LEMMA NotedRuns ==
  ASSUME NEW runs \in Seq(Run), NEW run \in Run
  PROVE  /\ Noted(runs, run) \in Seq(Run) /\ Len(Noted(runs, run)) = Len(runs) + 1
         /\ \A i \in 1 .. Len(runs) : Noted(runs, run)[i] = runs[i]
         /\ Alike(run, Noted(runs, run)[Len(runs) + 1])
<1> DEFINE all   == Append(runs, run)
           asked == {all[i].text : i \in {j \in DOMAIN all : j = Len(all) \/ all[j].stale}} \ {NoText}
           n     == Len(runs) + 1
           last  == [all[n] EXCEPT !.judged = asked]
<1>1. /\ all \in Seq(Run) /\ Len(all) = n /\ n \in 1 .. Len(all) /\ all[n] = run /\ Len(runs) \in Nat
      /\ \A i \in 1 .. Len(runs) : all[i] = runs[i]
      /\ DOMAIN all = 1 .. n
  OBVIOUS
<1>2. asked \subseteq Literal
  <2>1. \A i \in DOMAIN all : all[i].text \in Literal
    <3>1. \A r \in Run : r.text \in Literal
      BY DEF Run
    <3> HIDE DEF all, n
    <3> QED
      BY <1>1, <3>1
  <2> QED
    BY <2>1
<1> HIDE DEF all, asked, n
<1>3. CASE run.later
  <2>1. Noted(runs, run) = all
    BY <1>3 DEF Noted, all
  <2> QED
    BY <1>1, <2>1 DEF n, Alike
<1>4. CASE ~run.later
  <2>1. last \in Run /\ last.text = run.text /\ last.stale = run.stale /\ last.takes = run.takes
        /\ last.source = run.source /\ last.later = run.later /\ last.drifts = run.drifts
    BY <1>1, <1>2 DEF Run
  <2>2. Noted(runs, run) = [all EXCEPT ![n] = last]
    <3>1. Noted(runs, run) = [all EXCEPT ![Len(all)].judged = asked]
      BY <1>4 DEF Noted, all, asked
    <3> QED
      BY <1>1, <3>1
  <2> HIDE DEF last
  <2>3. /\ Noted(runs, run) \in Seq(Run) /\ Len(Noted(runs, run)) = n
        /\ \A j \in 1 .. n : Noted(runs, run)[j] = IF j = n THEN last ELSE all[j]
    BY <1>1, <2>1, <2>2, ExceptSeq
  <2>4. Noted(runs, run)[n] = last /\ \A j \in 1 .. Len(runs) : Noted(runs, run)[j] = runs[j]
    BY <1>1, <2>3 DEF n
  <2> QED
    BY <2>1, <2>3, <2>4 DEF n, Alike
<1> QED
  BY <1>3, <1>4

LEMMA SeenAfter ==
  ASSUME NEW s, NEW cases, SeenHolds(s, cases), NEW site, NEW run \in Run, NEW reach \in Reaches, IsRunOf(site, run, reach)
  PROVE  SeenHolds(Put(s, site, Noted(At(s, site, <<>>), run)), cases \cup {reach})
<1> DEFINE old == At(s, site, <<>>)
           new == Noted(old, run)
           t   == Put(s, site, new)
<1>1. old \in Seq(Run)
  BY DEF At, SeenHolds
<1>2. /\ new \in Seq(Run) /\ Len(new) = Len(old) + 1 /\ Len(old) \in Nat
      /\ \A i \in 1 .. Len(old) : new[i] = old[i]
      /\ IsRunOf(site, new[Len(old) + 1], reach)
  <2> HIDE DEF old
  <2>1. /\ new \in Seq(Run) /\ Len(new) = Len(old) + 1 /\ \A i \in 1 .. Len(old) : new[i] = old[i]
        /\ Alike(run, new[Len(old) + 1])
    BY <1>1, NotedRuns
  <2>2. IsRunOf(site, new[Len(old) + 1], reach)
    BY <2>1 DEF Alike, IsRunOf
  <2> QED
    BY <1>1, <2>1, <2>2
<1>3. DOMAIN t = DOMAIN s \cup {site} /\ t[site] = new /\ \A x \in DOMAIN s : x # site => t[x] = s[x]
  BY DEF Put
<1>4. site \in DOMAIN s => old = s[site]
  BY DEF At
<1> HIDE DEF old, new, t
<1>5. Len(old) + 1 \in DOMAIN new /\ DOMAIN new = 1 .. Len(new) /\ DOMAIN old = 1 .. Len(old)
  BY <1>1, <1>2
<1>6. ASSUME NEW x \in DOMAIN t
      PROVE  t[x] \in Seq(Run) /\ \E i \in DOMAIN t[x] : \E one \in Reaches : IsRunOf(x, t[x][i], one)
  <2>1. CASE x = site
    BY <1>2, <1>3, <1>5, <2>1
  <2>2. CASE x # site
    BY <1>3, <2>2 DEF SeenHolds
  <2> QED
    BY <2>1, <2>2
<1>7. ASSUME NEW one \in cases PROVE \E x \in DOMAIN t : \E i \in DOMAIN t[x] : IsRunOf(x, t[x][i], one)
  <2>1. PICK x \in DOMAIN s : \E i \in DOMAIN s[x] : IsRunOf(x, s[x][i], one)
    BY DEF SeenHolds
  <2>2. PICK i \in DOMAIN s[x] : IsRunOf(x, s[x][i], one)
    BY <2>1
  <2>3. CASE x = site
    <3>1. i \in 1 .. Len(old) /\ i \in DOMAIN new /\ new[i] = s[x][i]
      BY <1>2, <1>4, <1>5, <2>2, <2>3
    <3> QED
      BY <1>3, <2>2, <2>3, <3>1
  <2>4. CASE x # site
    BY <1>3, <2>2, <2>4
  <2> QED
    BY <2>3, <2>4
<1>8. \E x \in DOMAIN t : \E i \in DOMAIN t[x] : IsRunOf(x, t[x][i], reach)
  BY <1>2, <1>3, <1>5
<1>9. SeenHolds(t, cases \cup {reach})
  BY <1>6, <1>7, <1>8 DEF SeenHolds
<1> QED
  BY <1>9 DEF t, new, old

LEMMA TakesText ==
  ASSUME NEW runs, NEW i \in DOMAIN runs, NEW site, NEW reach, IsRunOf(site, runs[i], reach), NEW text,
         TakenByAll(runs, text)
  PROVE  text \in reach.takes
BY DEF TakenByAll, TakenBy, IsRunOf

LEMMA RowOfRuns ==
  ASSUME NEW runs \in Seq(Run), NEW i \in DOMAIN runs, NEW site, NEW reach, IsRunOf(site, runs[i], reach)
  PROVE  RowTells(Row(site[1], site[2], runs), reach)
<1> DEFINE row == Row(site[1], site[2], runs)
           one == Settled(runs)
           first == Min(Fitting(runs))
<1>1. Fitting(runs) # {} => first \in Fitting(runs)
  <2> SUFFICES ASSUME Fitting(runs) # {} PROVE first \in Fitting(runs)
    OBVIOUS
  <2>1. Fitting(runs) \in SUBSET Nat
    BY DEF Fitting, Asking
  <2>2. \E x \in Fitting(runs) : \A y \in Fitting(runs) : x <= y
    BY <2>1, FirstOf
  <2> QED
    BY <2>2 DEF Min
<1>2. /\ row.file = site[1] /\ row.place = site[2] /\ row.written = one.written /\ row.settled = one.settled
      /\ row.sources = {runs[j].source : j \in DOMAIN runs}
      /\ row.held = IF one.written # NoText THEN one.written ELSE Held(runs)
  BY DEF Row
<1>3. /\ one.written = IF Fitting(runs) = {} THEN NoText ELSE runs[first].text
      /\ one.settled = (Asking(runs) = {} \/ Fitting(runs) # {})
  BY DEF Settled
<1> HIDE DEF row, one, first
<1>4. Fitting(runs) # {} => one.written # NoText /\ TakenByAll(runs, one.written)
  BY <1>1, <1>3 DEF Fitting, Asking
<1>5. one.written # NoText => one.written \in reach.takes
  <2> SUFFICES ASSUME one.written # NoText PROVE one.written \in reach.takes
    OBVIOUS
  <2>1. TakenByAll(runs, one.written)
    BY <1>3, <1>4
  <2> QED
    BY <2>1, TakesText
<1>6. Held(runs) # NoText => Held(runs) \in reach.takes
  <2> DEFINE texts == {runs[j].text : j \in DOMAIN runs}
  <2> SUFFICES ASSUME Held(runs) # NoText PROVE Held(runs) \in reach.takes
    OBVIOUS
  <2>1. /\ \E text \in Text : texts = {text} /\ TakenByAll(runs, text)
        /\ Held(runs) = CHOOSE text \in Text : text \in texts
    BY DEF Held
  <2>2. PICK text \in Text : texts = {text} /\ TakenByAll(runs, text)
    BY <2>1
  <2>3. Held(runs) = text
    <3> HIDE DEF texts
    <3> QED
      BY <2>1, <2>2
  <2> QED
    BY <2>2, <2>3, TakesText
<1>7. row.settled /\ Stale(reach) /\ reach.text # NoText => row.written # NoText
  <2> SUFFICES ASSUME row.settled, Stale(reach), reach.text # NoText PROVE row.written # NoText
    OBVIOUS
  <2>1. i \in Asking(runs)
    BY DEF Asking, IsRunOf
  <2> QED
    BY <1>2, <1>3, <1>4, <2>1
<1>8. row.file = FileOf(reach.call) /\ \E source \in row.sources : row.place = Place(source, reach.call)
  <2>1. site[1] = FileOf(reach.call) /\ site[2] = Place(runs[i].source, reach.call)
    BY DEF IsRunOf
  <2>2. runs[i].source \in row.sources
    BY <1>2
  <2> QED
    BY <1>2, <2>1, <2>2
<1>9. one.written \in Literal
  <2>1. Fitting(runs) # {} => first \in DOMAIN runs
    BY <1>1 DEF Fitting, Asking
  <2>2. \A j \in DOMAIN runs : runs[j].text \in Literal
    <3>1. \A j \in DOMAIN runs : runs[j] \in Run
      OBVIOUS
    <3> QED
      BY <3>1 DEF Run
  <2> QED
    BY <1>3, <2>1, <2>2 DEF Literal
<1> QED
  BY <1>2, <1>5, <1>6, <1>7, <1>8, <1>9 DEF RowTells, row

LEMMA ShippedTells ==
  ASSUME NEW s, NEW cases, SeenHolds(s, cases)
  PROVE  RowsTell(Shipped(s), cases)
<1>1. ASSUME NEW row \in Shipped(s) PROVE \E reach \in Reaches : RowTells(row, reach)
  <2>1. PICK site \in DOMAIN s : row = Row(site[1], site[2], s[site])
    BY DEF Shipped
  <2>2. s[site] \in Seq(Run) /\ \E i \in DOMAIN s[site] : \E reach \in Reaches : IsRunOf(site, s[site][i], reach)
    BY DEF SeenHolds
  <2> QED
    BY <2>1, <2>2, RowOfRuns
<1>2. ASSUME NEW reach \in cases PROVE \E row \in Shipped(s) : RowTells(row, reach)
  <2>1. PICK site \in DOMAIN s : \E i \in DOMAIN s[site] : IsRunOf(site, s[site][i], reach)
    BY DEF SeenHolds
  <2>2. s[site] \in Seq(Run)
    BY DEF SeenHolds
  <2>3. RowTells(Row(site[1], site[2], s[site]), reach)
    BY <2>1, <2>2, RowOfRuns
  <2> QED
    BY <2>3 DEF Shipped
<1> QED
  BY <1>1, <1>2 DEF RowsTell

LEMMA RowsTogether ==
  ASSUME NEW rows, NEW more, NEW cases, NEW others, RowsTell(rows, cases), RowsTell(more, others)
  PROVE  RowsTell(rows \cup more, cases \cup others)
BY DEF RowsTell

-----------------------------------------------------------------------------
(* What the end of the session makes of a file *)

\* A file as it is, or as the user edited it: its calls are those it had when the session started.
Sound(text, file) == IsText(text) /\ CallsOf(text) = CallsOf(Source[file])

LEMMA SourceIsSound ==
  ASSUME NEW file \in File
  PROVE  Sound(Source[file], file)
<1> DEFINE text == Source[file]
           All == UNION {ToSet(Source[one]) : one \in File}
<1>1. text \in Seq(All) /\ All \subseteq Token
  BY SourceAssumption DEF Token
<1>2. text \in Seq(Token) /\ DOMAIN text = 1 .. Len(text)
  <2> HIDE DEF text, All
  <2> QED
    BY <1>1, SeqMonotonic
<1>3. \A i, j \in DOMAIN text : text[i] \in Call /\ text[i] = text[j] => i = j
  BY SourceAssumption
<1>4. \A i \in DOMAIN text : text[i] \in Call \ Empty => i < Len(text) /\ text[i + 1] \notin Call
  BY SourceAssumption
<1> QED
  BY <1>2, <1>3, <1>4 DEF Sound, IsText

LEMMA EditIsSound ==
  ASSUME NEW file \in File, NEW text, Sound(text, file)
  PROVE  Sound(<<Edit>> \o text, file)
<1> DEFINE new == <<Edit>> \o text
<1>1. text \in Seq(Token) /\ <<Edit>> \in Seq(Token) /\ Edit \notin Call /\ DOMAIN text = 1 .. Len(text)
  <2>1. Edit \in Token /\ Edit \notin Call
    BY SourceAssumption DEF Token
  <2> HIDE DEF Token
  <2> QED
    BY <2>1 DEF Sound, IsText
<1>2. /\ Len(new) = 1 + Len(text) /\ new[1] = Edit /\ Len(text) \in Nat
      /\ \A i \in 1 .. Len(text) : new[i + 1] = text[i]
  BY <1>1, FirstOfPair
<1>3. new \in Seq(Token)
  BY <1>1
<1>4. DOMAIN new = 1 .. Len(text) + 1
  <2> HIDE DEF new
  <2> QED
    BY <1>2, <1>3
<1> HIDE DEF new
<1>5. \A i \in DOMAIN new : i = 1 \/ (i - 1 \in DOMAIN text /\ new[i] = text[i - 1] /\ i - 1 + 1 = i /\ i \in Nat)
  <2> SUFFICES ASSUME NEW i \in DOMAIN new, i # 1
               PROVE  i - 1 \in DOMAIN text /\ new[i] = text[i - 1] /\ i - 1 + 1 = i /\ i \in Nat
    OBVIOUS
  <2>1. i - 1 \in 1 .. Len(text) /\ i - 1 + 1 = i /\ i \in Nat
    BY <1>2, <1>4
  <2>2. new[i - 1 + 1] = text[i - 1]
    BY <1>2, <2>1
  <2> QED
    BY <1>1, <2>1, <2>2
<1>6. ASSUME NEW i \in DOMAIN new, NEW j \in DOMAIN new, new[i] \in Call, new[i] = new[j] PROVE i = j
  <2>1. i # 1 /\ j # 1
    BY <1>1, <1>2, <1>6
  <2>2. i - 1 \in DOMAIN text /\ j - 1 \in DOMAIN text /\ text[i - 1] = text[j - 1] /\ text[i - 1] \in Call
        /\ i - 1 + 1 = i /\ j - 1 + 1 = j
    BY <1>5, <1>6, <2>1
  <2>3. i - 1 = j - 1
    BY <2>2 DEF Sound, IsText
  <2> QED
    BY <2>2, <2>3
<1>7. ASSUME NEW i \in DOMAIN new, new[i] \in Call \ Empty PROVE i < Len(new) /\ new[i + 1] \notin Call
  <2>1. i # 1
    BY <1>1, <1>2, <1>7
  <2>2. i - 1 \in 1 .. Len(text) /\ text[i - 1] \in Call \ Empty /\ i - 1 + 1 = i /\ i \in Nat
    BY <1>1, <1>5, <1>7, <2>1
  <2>3. i - 1 < Len(text) /\ text[i] \notin Call
    BY <1>1, <2>2 DEF Sound, IsText
  <2>4. i \in 1 .. Len(text)
    BY <1>2, <2>2, <2>3
  <2> QED
    BY <1>2, <2>2, <2>3, <2>4
<1>8. CallsOf(new) = CallsOf(text)
  <2>1. ASSUME NEW x \in CallsOf(new) PROVE x \in CallsOf(text)
    <3>1. PICK i \in DOMAIN new : x = new[i] /\ new[i] \in Call
      BY DEF CallsOf, ToSet
    <3>2. i # 1
      BY <1>1, <1>2, <3>1
    <3> QED
      BY <1>5, <3>1, <3>2 DEF CallsOf, ToSet
  <2>2. ASSUME NEW x \in CallsOf(text) PROVE x \in CallsOf(new)
    <3>1. PICK i \in DOMAIN text : x = text[i] /\ text[i] \in Call
      BY DEF CallsOf, ToSet
    <3>2. i + 1 \in DOMAIN new /\ new[i + 1] = x
      BY <1>1, <1>2, <1>4, <3>1
    <3> QED
      BY <3>1, <3>2 DEF CallsOf, ToSet
  <2> QED
    BY <2>1, <2>2
<1> QED
  BY <1>3, <1>6, <1>7, <1>8 DEF Sound, IsText, new

\* A call is in one file.
LEMMA FileOfCall ==
  ASSUME NEW file \in File, NEW call \in CallsOf(Source[file])
  PROVE  FileOf(call) = file
<1> DEFINE Has(one) == \E i \in DOMAIN Source[one] : Source[one][i] = call
           other == CHOOSE one \in File : Has(one)
<1>1. Has(file) /\ call \in Call
  BY DEF CallsOf, ToSet
<1>2. other \in File /\ Has(other)
  <2> HIDE DEF Has
  <2> QED
    BY <1>1
<1>3. FileOf(call) = other
  BY DEF FileOf
<1> HIDE DEF other
<1>4. PICK i \in DOMAIN Source[file] : Source[file][i] = call
  BY <1>1
<1>5. PICK j \in DOMAIN Source[other] : Source[other][j] = call
  BY <1>2
<1>6. other = file
  BY <1>1, <1>2, <1>4, <1>5, SourceAssumption
<1> QED
  BY <1>3, <1>6

LEMMA FileOfReach ==
  ASSUME NEW reach \in Reaches
  PROVE  FileOf(reach.call) \in File /\ reach.call \in CallsOf(Source[FileOf(reach.call)])
<1>1. PICK file \in File : reach.call \in CallsOf(Source[file])
  BY ReachAssumption DEF Reaches, CallsOf
<1>2. FileOf(reach.call) = file
  BY <1>1, FileOfCall
<1> QED
  BY <1>1, <1>2

\* What is decided of a call.
LEMMA DecidedIs ==
  ASSUME NEW rows, \A row \in rows : row.written \in Literal, NEW one, one = Decided(rows)
  PROVE  /\ one.text \in Literal
         /\ one.text # NoText => \A row \in rows : row.held = one.text
         /\ (\E row \in rows : row.written # NoText \/ ~row.settled) => one.text # NoText \/ one.why # Fine
<1>0. NoText \in Literal
  BY DEF Literal
<1>1. CASE \E row \in rows : ~row.settled
  <2>1. one.text = NoText /\ one.why # Fine
    BY <1>1 DEF Decided, Fine
  <2> QED
    BY <1>0, <2>1
<1>2. CASE ~(\E row \in rows : ~row.settled) /\ WrittenOf(rows) = {}
  <2>1. one.text = NoText
    BY <1>2 DEF Decided
  <2>2. ~(\E row \in rows : row.written # NoText)
    BY <1>2 DEF WrittenOf
  <2> QED
    BY <1>0, <1>2, <2>1, <2>2
<1>3. ASSUME ~(\E row \in rows : ~row.settled), WrittenOf(rows) # {},
             NEW text \in WrittenOf(rows), WrittenOf(rows) = {text}, \A row \in rows : row.held = text
      PROVE  /\ one.text \in Literal
             /\ one.text # NoText => \A row \in rows : row.held = one.text
             /\ (\E row \in rows : row.written # NoText \/ ~row.settled) => one.text # NoText \/ one.why # Fine
  <2>1. one = [text |-> CHOOSE t \in WrittenOf(rows) : TRUE, why |-> Fine]
    BY <1>3 DEF Decided
  <2>2. (CHOOSE t \in WrittenOf(rows) : TRUE) = text
    BY <1>3
  <2>3. one.text = text
    BY <2>1, <2>2
  <2>4. text \in Literal /\ text # NoText
    BY <1>3 DEF WrittenOf
  <2> QED
    BY <1>3, <2>3, <2>4
<1>4. CASE /\ ~(\E row \in rows : ~row.settled) /\ WrittenOf(rows) # {}
           /\ ~(\E text \in WrittenOf(rows) : WrittenOf(rows) = {text} /\ \A row \in rows : row.held = text)
  <2>1. one.text = NoText /\ one.why # Fine
    BY <1>4 DEF Decided, Fine
  <2> QED
    BY <1>0, <2>1
<1> QED
  BY <1>1, <1>2, <1>3, <1>4

\* The text of a file is as the user had it, or with literals that each of some cases that reached their calls takes.
GoodText(file, text, new, cases) ==
  \E literal \in [ToSet(Source[file]) \cap Call -> Literal] :
    /\ new = Spliced(text, literal)
    /\ \A call \in DOMAIN literal : literal[call] # NoText =>
         \A reach \in cases : reach.call = call => literal[call] \in reach.takes

LEMMA AsItWas ==
  ASSUME NEW file \in File, NEW text, Sound(text, file), NEW cases
  PROVE  GoodText(file, text, text, cases)
<1> DEFINE literal == [call \in ToSet(Source[file]) \cap Call |-> NoText]
<1>1. literal \in [ToSet(Source[file]) \cap Call -> Literal] /\ DOMAIN literal = ToSet(Source[file]) \cap Call
      /\ \A call \in DOMAIN literal : literal[call] = NoText
  BY DEF Literal
<1>2. literal \in Literals(text) /\ DOMAIN literal = CallsOf(text) /\ text \in Seq(Token)
  BY <1>1 DEF Literals, Sound, CallsOf, IsText
<1> HIDE DEF literal
<1>3. text = Spliced(text, literal)
  BY <1>1, <1>2, PlainSplice
<1> QED
  BY <1>1, <1>3 DEF GoodText

\* Where every row was counted in the text as it is, a row is at the place its call has in it.
LEMMA RowsPlace ==
  ASSUME NEW file \in File, NEW text, Sound(text, file), NEW rows, SourcesOf(rows, file) = {text},
         NEW row \in rows, row.file = file, NEW reach, RowTells(row, reach)
  PROVE  row.place = Place(text, reach.call)
<1>1. row.sources \subseteq SourcesOf(rows, file)
  BY DEF SourcesOf
<1> QED
  BY <1>1 DEF RowTells

LEMMA DecisionOf ==
  ASSUME NEW rows, NEW cases, RowsTell(rows, cases), NEW file, NEW row \in rows, row.file = file,
         NEW one, one = Decisions(rows, file)[row.place]
  PROVE  /\ row.place \in DOMAIN Decisions(rows, file)
         /\ one.text \in Literal
         /\ one.text # NoText => row.held = one.text
         /\ row.written # NoText \/ ~row.settled => one.text # NoText \/ one.why # Fine
<1> DEFINE here  == {r \in rows : r.file = file}
           these == {r \in here : r.place = row.place}
<1>1. row \in here /\ row \in these
  OBVIOUS
<1>2. row.place \in DOMAIN Decisions(rows, file) /\ one = Decided(these)
  BY <1>1 DEF Decisions
<1>3. \A r \in these : r.written \in Literal
  BY DEF RowsTell, RowTells
<1> HIDE DEF these, here
<1>4. /\ one.text \in Literal
      /\ one.text # NoText => \A r \in these : r.held = one.text
      /\ (\E r \in these : r.written # NoText \/ ~r.settled) => one.text # NoText \/ one.why # Fine
  BY <1>2, <1>3, DecidedIs
<1> QED
  BY <1>1, <1>2, <1>4

LEMMA DecisionsPlaced ==
  ASSUME NEW file \in File, NEW text, Sound(text, file), NEW rows, SourcesOf(rows, file) = {text},
         NEW cases, RowsTell(rows, cases)
  PROVE  Placed(text, Decisions(rows, file))
<1> DEFINE D == Decisions(rows, file)
<1> SUFFICES ASSUME NEW place \in DOMAIN D
             PROVE  /\ \E n \in DOMAIN text : text[n] \in Call /\ place = PlaceAt(text, n)
                    /\ D[place].text \in Literal
  BY DEF Placed
<1>1. PICK row \in rows : row.file = file /\ row.place = place
  BY DEF Decisions
<1>2. PICK reach \in Reaches : RowTells(row, reach)
  BY DEF RowsTell
<1>3. row.place = Place(text, reach.call)
  BY <1>1, <1>2, RowsPlace
<1>4. FileOf(reach.call) = file
  BY <1>1, <1>2 DEF RowTells
<1>5. reach.call \in CallsOf(text)
  BY <1>4, FileOfReach DEF Sound
<1>6. PICK n \in DOMAIN text : text[n] = reach.call /\ text[n] \in Call
  BY <1>5 DEF CallsOf, ToSet
<1>7. Place(text, text[n]) = PlaceAt(text, n)
  BY <1>6, PlaceIs DEF Sound
<1>8. D[place].text \in Literal
  BY <1>1, DecisionOf
<1> QED
  BY <1>1, <1>3, <1>6, <1>7, <1>8

\* The literals that are written are taken by every case that reached their calls.
LEMMA GivenIsTaken ==
  ASSUME NEW file \in File, NEW text, Sound(text, file), NEW rows, SourcesOf(rows, file) = {text},
         NEW cases, RowsTell(rows, cases), NEW literal, literal = GivenBy(text, Decisions(rows, file)),
         NEW reach \in cases, reach.call \in CallsOf(text), literal[reach.call] # NoText
  PROVE  literal[reach.call] \in reach.takes
<1> DEFINE D == Decisions(rows, file)
           place == Place(text, reach.call)
<1>1. FileOf(reach.call) = file
  BY FileOfCall DEF Sound
<1>2. PICK row \in rows : RowTells(row, reach)
  BY DEF RowsTell
<1>3. row.file = file /\ row.place = place
  <2>1. row.file = file
    BY <1>1, <1>2 DEF RowTells
  <2> QED
    BY <1>2, <2>1, RowsPlace
<1>4. literal[reach.call] = D[place].text
  BY DEF GivenBy
<1>5. D[place].text # NoText => row.held = D[place].text
  <2> HIDE DEF place
  <2> QED
    BY <1>3, DecisionOf
<1> HIDE DEF D, place
<1>6. row.held = literal[reach.call]
  BY <1>4, <1>5
<1> QED
  BY <1>2, <1>6 DEF RowTells

\* What _written() leaves of a file.
LEMMA WrittenIsGood ==
  ASSUME NEW file \in File, NEW text, Sound(text, file), NEW rows, NEW cases, RowsTell(rows, cases),
         NEW within, NEW fault, NEW cut,
         NEW w, w = Written(file, text, Decisions(rows, file), SourcesOf(rows, file), within, fault, cut),
         <<file, "unwritten">> \notin w.problems
  PROVE  GoodText(file, text, w.content, cases)
<1> DEFINE D == Decisions(rows, file)
<1>1. w.content = text \/ (SourcesOf(rows, file) = {text} /\ w.content = Rewritten(text, D))
  BY DEF Written, WriteFault, NoFault
<1>2. CASE w.content = text
  BY <1>2, AsItWas
<1>3. CASE SourcesOf(rows, file) = {text} /\ w.content = Rewritten(text, D)
  <2> DEFINE literal == GivenBy(text, D)
  <2>1. Placed(text, D)
    BY <1>3, DecisionsPlaced
  <2>2. literal \in Literals(text) /\ Rewritten(text, D) = Spliced(text, literal)
    <3> HIDE DEF D
    <3> QED
      BY <2>1, GivenByTypes, RewriteIsSplice DEF Sound
  <2>3. CallsOf(text) = ToSet(Source[file]) \cap Call
    BY DEF Sound, CallsOf
  <2>4. literal \in [ToSet(Source[file]) \cap Call -> Literal] /\ DOMAIN literal = CallsOf(text)
    <3> HIDE DEF literal
    <3> QED
      BY <2>2, <2>3 DEF Literals
  <2>5. ASSUME NEW call \in DOMAIN literal, literal[call] # NoText, NEW reach \in cases, reach.call = call
        PROVE  literal[call] \in reach.takes
    <3>1. literal = GivenBy(text, Decisions(rows, file))
      OBVIOUS
    <3> HIDE DEF literal
    <3> QED
      BY <1>3, <2>4, <2>5, <3>1, GivenIsTaken
  <2> HIDE DEF literal, D
  <2> QED
    BY <1>3, <2>2, <2>4, <2>5 DEF GoodText
<1> QED
  BY <1>1, <1>2, <1>3

\* And what a case that asked for a literal gets.
LEMMA WrittenIsTold ==
  ASSUME NEW file \in File, NEW text, Sound(text, file), NEW rows, NEW cases, RowsTell(rows, cases),
         NEW within, NEW fault, NEW cut,
         NEW w, w = Written(file, text, Decisions(rows, file), SourcesOf(rows, file), within, fault, cut),
         NEW reach \in cases, reach \in Reaches, FileOf(reach.call) = file, Stale(reach), reach.text # NoText,
         ~(\E problem \in w.problems : problem[1] = file)
  PROVE  LiteralOf(w.content, reach.call) \in reach.takes
<1> DEFINE D == Decisions(rows, file)
<1>1. PICK row \in rows : RowTells(row, reach)
  BY DEF RowsTell
<1>2. row.file = file
  BY <1>1 DEF RowTells
<1> DEFINE place == row.place
<1>3. /\ place \in DOMAIN D /\ D[place].text \in Literal
      /\ D[place].text # NoText => row.held = D[place].text
      /\ D[place].text # NoText \/ D[place].why # Fine
  <2>1. row.written # NoText \/ ~row.settled
    BY <1>1 DEF RowTells
  <2> QED
    BY <1>2, <2>1, DecisionOf
<1>4. Concerned(D)
  BY <1>3 DEF Concerned
<1> DEFINE why == {<<file, D[p].why>> : p \in DOMAIN D} \ {<<file, Fine>>}
<1>5. SourcesOf(rows, file) = {text} /\ w.content = Rewritten(text, D) /\ w.problems = why
  <2> DEFINE S == SourcesOf(rows, file)
             whole == Rewritten(text, D)
  <2> HIDE DEF D, S
  <2>1. w \in {[content |-> text, problems |-> {<<file, "outside">>}], [content |-> text, problems |-> {<<file, fault>>}],
               [content |-> text, problems |-> {<<file, "changed">>}],
               [content |-> IF fault = "unwritten" THEN SubSeq(whole, 1, cut) ELSE text, problems |-> why \cup {<<file, fault>>}]}
        \/ (S = {text} /\ w = [content |-> whole, problems |-> why])
    BY <1>4 DEF Written, D, S
  <2>2. \A x : <<file, x>> \notin w.problems
    <3>1. \A x : <<file, x>>[1] = file
      OBVIOUS
    <3> HIDE DEF D, S
    <3> QED
      BY <3>1
  <2> HIDE DEF whole, why
  <2>3. w = [content |-> whole, problems |-> why] /\ S = {text}
    <3>1. ASSUME NEW c, NEW x, w = [content |-> c, problems |-> {<<file, x>>}] PROVE FALSE
      BY <2>2, <3>1
    <3>2. ASSUME NEW c, NEW x, w = [content |-> c, problems |-> why \cup {<<file, x>>}] PROVE FALSE
      <4>1. w.problems = why \cup {<<file, x>>}
        BY <3>2
      <4>2. <<file, x>> \in w.problems
        BY <4>1
      <4> QED
        BY <2>2, <4>2
    <3> QED
      BY <2>1, <3>1, <3>2
  <2> QED
    BY <2>3 DEF S, D, whole
<1>6. D[place].why = Fine
  <2>1. D[place].why # Fine => <<file, D[place].why>> \in why
    <3> HIDE DEF D
    <3> QED
      BY <1>3
  <2>2. <<file, D[place].why>>[1] = file
    OBVIOUS
  <2> HIDE DEF why, D, place
  <2> QED
    BY <1>5, <2>1, <2>2
<1>7. place = Place(text, reach.call) /\ reach.call \in CallsOf(text)
  <2>1. place = Place(text, reach.call)
    BY <1>1, <1>2, <1>5, RowsPlace
  <2> QED
    BY <2>1, FileOfReach DEF Sound
<1> DEFINE literal == GivenBy(text, D)
<1>8. literal \in Literals(text) /\ Rewritten(text, D) = Spliced(text, literal)
  <2>1. Placed(text, D)
    BY <1>5, DecisionsPlaced
  <2> HIDE DEF D
  <2> QED
    BY <2>1, GivenByTypes, RewriteIsSplice DEF Sound
<1> HIDE DEF D
<1>9. place \in Edits(D)
  <2> HIDE DEF place
  <2> QED
    BY <1>3, <1>6 DEF Edits
<1>10. literal[reach.call] = D[place].text
  <2> HIDE DEF place
  <2> QED
    BY <1>7, <1>9 DEF GivenBy
<1>11. literal[reach.call] # NoText /\ literal[reach.call] = row.held
  <2> HIDE DEF place, literal
  <2> QED
    BY <1>3, <1>6, <1>10
<1> HIDE DEF literal, place
<1>12. LiteralOf(Spliced(text, literal), reach.call) = literal[reach.call]
  BY <1>7, <1>8, <1>11, LiteralFollows DEF Sound
<1>13. row.held \in reach.takes
  BY <1>1, <1>11 DEF RowTells
<1> QED
  BY <1>5, <1>8, <1>11, <1>12, <1>13

-----------------------------------------------------------------------------
(* The invariant of the inline calls *)

RecordedBy(p) == {done[p][i].case.reach : i \in {j \in DOMAIN done[p] : done[p][j].recorded}}

\* What a process noted, and what it ships, is what its cases recorded.
InlineNoted(p) ==
  /\ \A reach \in RecordedBy(p) : reach \in Reaches /\ (Stale(reach) => reach.text # NoText)
  /\ phase[p] \in {"idle", "running"} => SeenHolds(seen[p], RecordedBy(p))
  /\ p \in Worker /\ wire[p].present => RowsTell(wire[p].inline, RecordedBy(p))

\* Until the session ends the rows are of the workers heard of, and the files as the user has them.
InlineMerged ==
  ~Finished =>
    /\ RowsTell(collected.inline, UNION {RecordedBy(w) : w \in Got})
    /\ content = edited /\ DOMAIN content = File
    /\ \A file \in File : Sound(content[file], file)

InlineInv ==
  /\ DOMAIN seen = Process
  /\ \A p \in Process : InlineNoted(p)
  /\ InlineMerged
  /\ LiteralsHold /\ NothingDropped

LEMMA InitInline == Init => InlineInv
<1> SUFFICES ASSUME Init PROVE InlineInv
  OBVIOUS
<1>1. \A p \in Process : RecordedBy(p) = {} /\ seen[p] = <<>>
  BY DEF Init, RecordedBy, Nothing
<1>2. \A p \in Process : InlineNoted(p)
  <2> SUFFICES ASSUME NEW p \in Process PROVE InlineNoted(p)
    OBVIOUS
  <2>1. SeenHolds(<<>>, {})
    BY DEF SeenHolds
  <2>2. SeenHolds(seen[p], RecordedBy(p))
    BY <1>1, <2>1
  <2>3. p \in Worker => ~wire[p].present
    BY DEF Init, NoWire
  <2> QED
    BY <1>1, <2>2, <2>3 DEF InlineNoted
<1>3. ~Finished
  BY SessionAssumption DEF Init, Finished, Runs, Process
<1>4. InlineMerged
  <2>1. Got = {}
    BY DEF Init, Got, NoWire, Down
  <2>2. RowsTell({}, {})
    BY DEF RowsTell
  <2>3. collected.inline = {} /\ UNION {RecordedBy(w) : w \in Got} = {}
    BY <2>1 DEF Init, NothingCollected
  <2>4. RowsTell(collected.inline, UNION {RecordedBy(w) : w \in Got})
    BY <2>2, <2>3
  <2>5. DOMAIN Source = File
    BY SourceAssumption
  <2>6. content = Source /\ edited = Source
    BY DEF Init
  <2> QED
    BY <2>4, <2>5, <2>6, SourceIsSound DEF InlineMerged
<1>5. LiteralsHold /\ NothingDropped
  BY <1>3 DEF Finished, LiteralsHold, NothingDropped
<1>6. DOMAIN seen = Process
  BY DEF Init
<1> QED
  BY <1>2, <1>4, <1>5, <1>6 DEF InlineInv

LEMMA InlineNotedStays ==
  ASSUME NEW p \in Process, InlineNoted(p), done'[p] = done[p],
         phase'[p] \in {"idle", "running"} => phase[p] \in {"idle", "running"} /\ seen'[p] = seen[p],
         p \in Worker => wire'[p] = wire[p]
  PROVE  InlineNoted(p)'
<1>1. RecordedBy(p)' = RecordedBy(p)
  BY DEF RecordedBy
<1>2. (\A reach \in RecordedBy(p) : reach \in Reaches /\ (Stale(reach) => reach.text # NoText))'
  BY <1>1 DEF InlineNoted
<1>3. (phase[p] \in {"idle", "running"} => SeenHolds(seen[p], RecordedBy(p)))'
  <2> SUFFICES ASSUME phase'[p] \in {"idle", "running"} PROVE SeenHolds(seen[p], RecordedBy(p))'
    OBVIOUS
  <2>1. SeenHolds(seen[p], RecordedBy(p)) /\ seen'[p] = seen[p]
    BY DEF InlineNoted
  <2> QED
    BY <1>1, <2>1 DEF SeenHolds
<1>4. (p \in Worker /\ wire[p].present => RowsTell(wire[p].inline, RecordedBy(p)))'
  <2> SUFFICES ASSUME p \in Worker, wire'[p].present PROVE RowsTell(wire[p].inline, RecordedBy(p))'
    OBVIOUS
  <2>1. RowsTell(wire[p].inline, RecordedBy(p)) /\ wire'[p] = wire[p]
    BY DEF InlineNoted
  <2> QED
    BY <1>1, <2>1 DEF RowsTell
<1> QED
  BY <1>2, <1>3, <1>4 DEF InlineNoted

LEMMA InlineMergedStays ==
  ASSUME InlineMerged, Finished => Finished', Got' = Got, \A w \in Got : done'[w] = done[w],
         collected'.inline = collected.inline, content' = content, edited' = edited
  PROVE  InlineMerged'
<1> SUFFICES ASSUME ~Finished'
             PROVE  /\ RowsTell(collected.inline, UNION {RecordedBy(w) : w \in Got})'
                    /\ content' = edited' /\ DOMAIN content' = File
                    /\ \A file \in File : Sound(content[file], file)'
  BY DEF InlineMerged
<1>1. /\ RowsTell(collected.inline, UNION {RecordedBy(w) : w \in Got})
      /\ content = edited /\ DOMAIN content = File
      /\ \A file \in File : Sound(content[file], file)
  BY DEF InlineMerged
<1>2. \A w \in Got : RecordedBy(w)' = RecordedBy(w)
  BY DEF RecordedBy
<1>3. (UNION {RecordedBy(w) : w \in Got})' = UNION {RecordedBy(w) : w \in Got}
  BY <1>2
<1>4. RowsTell(collected.inline, UNION {RecordedBy(w) : w \in Got})'
  BY <1>1, <1>3 DEF RowsTell
<1>5. \A file \in File : Sound(content[file], file)'
  BY <1>1
<1> QED
  BY <1>1, <1>4, <1>5

LEMMA NothingWritten ==
  ASSUME ~Finished'
  PROVE  LiteralsHold' /\ NothingDropped'
BY DEF LiteralsHold, NothingDropped, Finished

LEMMA WrittenStays ==
  ASSUME LiteralsHold, NothingDropped, Finished' => Finished,
         UNCHANGED <<parallel, done, wire, content, edited, torn, problems, exit>>
  PROVE  LiteralsHold' /\ NothingDropped'
<1>1. Heard' = Heard
  BY DEF Heard
<1>2. Recorded' = Recorded
  BY <1>1 DEF Recorded, Ran
<1>3. LiteralsHold'
  BY <1>2 DEF LiteralsHold, Finished
<1>4. NothingDropped'
  BY <1>2 DEF NothingDropped, Finished
<1> QED
  BY <1>3, <1>4

-----------------------------------------------------------------------------
(* The steps *)

LEMMA RecordedOn ==
  ASSUME NEW p \in Process, Types, NEW r \in Done, done'[p] = Append(done[p], r)
  PROVE  RecordedBy(p)' = RecordedBy(p) \cup (IF r.recorded THEN {r.case.reach} ELSE {})
<1> DEFINE old == done[p]
           new == done'[p]
           n == Len(old)
<1>1. /\ old \in Seq(Done) /\ n \in Nat /\ DOMAIN old = 1 .. n /\ DOMAIN new = 1 .. n + 1
      /\ (\A i \in 1 .. n : new[i] = old[i]) /\ new[n + 1] = r
  BY DEF Types
<1> HIDE DEF old, new, n
<1>2. {new[i].case.reach : i \in {j \in DOMAIN new : new[j].recorded}}
        = {old[i].case.reach : i \in {j \in DOMAIN old : old[j].recorded}} \cup (IF r.recorded THEN {r.case.reach} ELSE {})
  <2>1. \A i \in 1 .. n + 1 : i \in 1 .. n \/ i = n + 1
    BY <1>1
  <2>2. n + 1 \in 1 .. n + 1 /\ \A i \in 1 .. n : i \in 1 .. n + 1
    BY <1>1
  <2> QED
    BY <1>1, <2>1, <2>2
<1> QED
  BY <1>2 DEF RecordedBy, old, new

\* A reach that is recorded, and the run of it.
LEMMA RunOfReach ==
  ASSUME SessionInv, InlineInv, ~Finished, NEW reach \in Reaches
  PROVE  RunOf(reach) \in Run /\ IsRunOf(SiteOf(reach), RunOf(reach), reach)
<1> DEFINE file == FileOf(reach.call)
           run  == RunOf(reach)
<1>1. file \in File
  BY FileOfReach
<1>2. content[file] \in Seq(Token)
  BY <1>1 DEF InlineInv, InlineMerged, Sound, IsText
<1>3. reach.text \in Literal /\ reach.pure \in BOOLEAN /\ (reach.pure => reach.drifts = reach.takes)
  BY ReachAssumption DEF Reaches
<1>4. Stale(reach) \in BOOLEAN
  BY DEF Stale
<1>5. MayBeAskedLater(reach.text, reach.pure) \in BOOLEAN
      /\ (MayBeAskedLater(reach.text, reach.pure) => reach.drifts = reach.takes)
  BY <1>3 DEF MayBeAskedLater
<1>6. /\ run.text = reach.text /\ run.stale = Stale(reach) /\ run.source = content[file] /\ run.takes = reach.takes
      /\ run.drifts = reach.drifts /\ run.later = MayBeAskedLater(reach.text, reach.pure)
  BY DEF RunOf
<1>7. run \in Run
  <2>1. reach.takes \in {one.takes : one \in Reaches} /\ reach.drifts \in {one.drifts : one \in Reaches}
    OBVIOUS
  <2> HIDE DEF file
  <2> QED
    BY <1>2, <1>3, <1>4, <1>5, <2>1 DEF RunOf, Run, file
<1>8. IsRunOf(SiteOf(reach), run, reach)
  <2> HIDE DEF run
  <2> QED
    BY <1>5, <1>6 DEF IsRunOf, SiteOf
<1> QED
  BY <1>7, <1>8

LEMMA RunPhaseInline ==
  ASSUME SessionInv, InlineInv, NEW p \in Process, NEW k \in suite.tests, NEW found \in BOOLEAN, RunPhase(p, k, found)
  PROVE  InlineInv'
<1> DEFINE inline == IF k.reach = NoReach THEN "none" ELSE Outcome(k.reach, found)
           red    == k.fails \/ inline = "raises" \/ (IsWarned(At(accesses[p], k.key, {}), k) /\ Escalated)
           r      == [case |-> k, red |-> red, recorded |-> inline = "records"]
<1>1. /\ phase[p] = "running" /\ phase' = phase /\ parallel' = parallel /\ wire' = wire
      /\ collected' = collected /\ content' = content /\ edited' = edited
      /\ seen' = IF inline # "records" THEN seen
                 ELSE [seen EXCEPT ![p] =
                         Put(@, SiteOf(k.reach), Noted(At(@, SiteOf(k.reach), <<>>), RunOf(k.reach)))]
      /\ done' = [done EXCEPT ![p] = Append(@, r)]
  BY DEF RunPhase
<1>2. k \in Case /\ k.fails \in BOOLEAN
  BY SessionAssumption DEF SessionInv, Types
<1>3. r \in Done
  <2>1. (inline = "raises") \in BOOLEAN /\ (inline = "records") \in BOOLEAN
    OBVIOUS
  <2>2. red \in BOOLEAN
    BY <1>2 DEF IsWarned
  <2> HIDE DEF inline, red
  <2> QED
    BY <1>2, <2>1, <2>2 DEF Done
<1>4. r.recorded = (inline = "records") /\ r.case = k
  OBVIOUS
<1>5. inline = "records" => k.reach \in Reaches /\ (Stale(k.reach) => k.reach.text # NoText)
  <2> SUFFICES ASSUME inline = "records" PROVE k.reach \in Reaches /\ (Stale(k.reach) => k.reach.text # NoText)
    OBVIOUS
  <2>1. k.reach # NoReach /\ Outcome(k.reach, found) = "records"
    OBVIOUS
  <2>2. Stale(k.reach) => k.reach.text # NoText
    BY <2>1 DEF Outcome
  <2> QED
    BY <1>2, <2>1, <2>2 DEF Reaches
<1> HIDE DEF inline, red, r
<1>6. ~Finished /\ ~Finished' /\ p \notin Got /\ (p \in Worker => ~wire[p].present)
  <2>1. p = Controller => ~Finished
    BY <1>1 DEF Finished
  <2>2. p # Controller => p \in Worker /\ parallel /\ phase[p] # "down" /\ ~Finished
    <3> SUFFICES ASSUME p # Controller PROVE p \in Worker /\ parallel /\ phase[p] # "down" /\ ~Finished
      OBVIOUS
    <3>1. p \in Worker
      BY DEF Process
    <3> QED
      BY <1>1, <3>1 DEF SessionInv, Roles
  <2>3. Finished' = Finished
    BY <1>1 DEF Finished
  <2>4. p \in Worker => ~wire[p].present
    BY <1>1 DEF SessionInv, Roles
  <2> QED
    BY <1>1, <2>1, <2>2, <2>3, <2>4 DEF Got, Down
<1>7. /\ DOMAIN seen' = Process /\ DOMAIN done = Process /\ done'[p] = Append(done[p], r)
      /\ \A q \in Process : q # p => seen'[q] = seen[q] /\ done'[q] = done[q]
  BY <1>1 DEF InlineInv, SessionInv, Types
<1>8. InlineNoted(p)'
  <2>1. RecordedBy(p)' = RecordedBy(p) \cup (IF inline = "records" THEN {k.reach} ELSE {})
    BY <1>3, <1>4, <1>7, RecordedOn DEF SessionInv
  <2>2. InlineNoted(p)
    BY DEF InlineInv
  <2>3. SeenHolds(seen[p], RecordedBy(p))
    BY <1>1, <2>2 DEF InlineNoted
  <2>4. SeenHolds(seen[p], RecordedBy(p))'
    <3>1. CASE inline = "records"
      <4>1. seen'[p] = Put(seen[p], SiteOf(k.reach), Noted(At(seen[p], SiteOf(k.reach), <<>>), RunOf(k.reach)))
        BY <1>1, <3>1 DEF InlineInv
      <4>2. SeenHolds(Put(seen[p], SiteOf(k.reach), Noted(At(seen[p], SiteOf(k.reach), <<>>), RunOf(k.reach))),
                      RecordedBy(p) \cup {k.reach})
        BY <1>5, <1>6, <2>3, <3>1, RunOfReach, SeenAfter
      <4>3. RecordedBy(p)' = RecordedBy(p) \cup {k.reach}
        BY <2>1, <3>1
      <4>4. SeenHolds(seen'[p], RecordedBy(p)')
        BY <4>1, <4>2, <4>3
      <4> QED
        BY <4>4 DEF SeenHolds
    <3>2. CASE inline # "records"
      <4>1. seen'[p] = seen[p] /\ RecordedBy(p)' = RecordedBy(p)
        BY <1>1, <2>1, <3>2
      <4> QED
        BY <2>3, <4>1 DEF SeenHolds
    <3> QED
      BY <3>1, <3>2
  <2>5. (\A reach \in RecordedBy(p) : reach \in Reaches /\ (Stale(reach) => reach.text # NoText))'
    BY <1>5, <2>1, <2>2 DEF InlineNoted
  <2> QED
    BY <1>1, <1>6, <2>4, <2>5 DEF InlineNoted
<1>9. \A q \in Process : InlineNoted(q)'
  <2> SUFFICES ASSUME NEW q \in Process, q # p PROVE InlineNoted(q)'
    BY <1>8
  <2>1. InlineNoted(q)
    BY DEF InlineInv
  <2> QED
    BY <1>1, <1>7, <2>1, InlineNotedStays
<1>10. InlineMerged'
  <2>1. Got' = Got
    BY <1>1 DEF Got, Down
  <2>2. \A w \in Got : done'[w] = done[w]
    BY <1>6, <1>7 DEF Got, Down, Process
  <2> QED
    BY <1>1, <1>6, <2>1, <2>2, InlineMergedStays DEF InlineInv
<1> QED
  BY <1>6, <1>7, <1>9, <1>10, NothingWritten DEF InlineInv

LEMMA UserEditsInline == ASSUME SessionInv, InlineInv, NEW file \in File, UserEdits(file) PROVE InlineInv'
<1>1. /\ \E p \in Process : phase[p] = "running"
      /\ content' = [content EXCEPT ![file] = <<Edit>> \o @] /\ edited' = content'
      /\ UNCHANGED <<parallel, suite, phase, seen, wire, collected, done>>
  BY DEF UserEdits, held
<1>2. ~Finished /\ ~Finished'
  <2>1. Finished' = Finished
    BY <1>1 DEF Finished
  <2>2. PICK p \in Process : phase[p] = "running"
    BY <1>1
  <2>3. p = Controller => ~Finished
    BY <2>2 DEF Finished
  <2>4. p \in Worker => ~Finished
    BY <2>2 DEF SessionInv, Roles
  <2> QED
    BY <2>1, <2>3, <2>4 DEF Process
<1>3. /\ RowsTell(collected.inline, UNION {RecordedBy(w) : w \in Got})
      /\ content = edited /\ DOMAIN content = File
      /\ \A one \in File : Sound(content[one], one)
  BY <1>2 DEF InlineInv, InlineMerged
<1>4. /\ DOMAIN content' = File /\ content'[file] = <<Edit>> \o content[file]
      /\ \A one \in File : one # file => content'[one] = content[one]
  BY <1>1, <1>3
<1>5. ASSUME NEW one \in File PROVE Sound(content'[one], one)
  <2>1. CASE one = file
    <3>1. Sound(content[file], file)
      BY <1>3
    <3>2. Sound(<<Edit>> \o content[file], file)
      BY <3>1, EditIsSound
    <3> QED
      BY <1>4, <2>1, <3>2
  <2>2. CASE one # file
    BY <1>3, <1>4, <2>2
  <2> QED
    BY <2>1, <2>2
<1>6. RowsTell(collected.inline, UNION {RecordedBy(w) : w \in Got})'
  <2>1. Got' = Got /\ \A w : RecordedBy(w)' = RecordedBy(w)
    BY <1>1 DEF Got, Down, RecordedBy
  <2>2. (UNION {RecordedBy(w) : w \in Got})' = UNION {RecordedBy(w) : w \in Got}
    BY <2>1
  <2>3. collected'.inline = collected.inline
    BY <1>1
  <2> QED
    BY <1>3, <2>2, <2>3 DEF RowsTell
<1>7. InlineMerged'
  <2>1. (\A one \in File : Sound(content[one], one))'
    BY <1>5
  <2> QED
    BY <1>1, <1>4, <1>6, <2>1 DEF InlineMerged
<1>8. \A p \in Process : InlineNoted(p)'
  BY <1>1, InlineNotedStays DEF InlineInv
<1> QED
  BY <1>1, <1>2, <1>7, <1>8, NothingWritten DEF InlineInv

LEMMA CollectFailsInline == ASSUME SessionInv, InlineInv, CollectFails PROVE InlineInv'
<1> USE DEF CollectFails, held, result, history
<1>1. collected'.inline = collected.inline
  BY DEF SessionInv, Types, Fields
<1>2. Got' = Got /\ Finished' = Finished
  BY DEF Got, Down, Finished
<1>3. InlineMerged'
  BY <1>1, <1>2, InlineMergedStays DEF InlineInv
<1>4. \A p \in Process : InlineNoted(p)'
  BY InlineNotedStays DEF InlineInv
<1> QED
  BY <1>2, <1>3, <1>4, WrittenStays DEF InlineInv

LEMMA DiesInline == ASSUME SessionInv, InlineInv, NEW w \in Worker, Dies(w) PROVE InlineInv'
<1> USE DEF Dies, held, result, history
<1>1. parallel /\ ~Finished /\ w # Controller /\ w \in Process
  BY Apart DEF SessionInv, Types, Roles
<1>2. ~Finished' /\ \A v \in Process : v # w => phase'[v] = phase[v]
  BY <1>1, Apart DEF SessionInv, Types, Finished
<1>3. phase'[w] = "dead"
  BY <1>1 DEF SessionInv, Types
<1>4. Got' = Got
  BY <1>1, <1>2, <1>3, Apart DEF Got, Down, SessionInv, Types
<1>5. InlineMerged'
  BY <1>1, <1>2, <1>4, InlineMergedStays DEF InlineInv
<1>6. \A p \in Process : InlineNoted(p)'
  BY <1>2, <1>3, InlineNotedStays DEF InlineInv
<1> QED
  BY <1>2, <1>5, <1>6, NothingWritten DEF InlineInv

LEMMA FinishesInline == ASSUME SessionInv, InlineInv, NEW w \in Worker, Finishes(w) PROVE InlineInv'
<1> USE DEF Finishes, held, result, history
<1>1. parallel /\ ~Finished /\ w # Controller /\ w \in Process
  BY Apart DEF SessionInv, Types, Roles
<1>2. ~Finished' /\ \A v \in Process : v # w => phase'[v] = phase[v]
  BY <1>1, Apart DEF SessionInv, Types, Finished
<1>3. phase'[w] = "shipped" /\ phase[w] = "running"
  BY <1>1 DEF SessionInv, Types
<1>4. /\ wire'[w].present /\ wire'[w].inline = Shipped(seen[w])
      /\ \A v \in Worker : v # w => wire'[v] = wire[v]
  BY DEF SessionInv, Types
<1>5. DOMAIN seen' = Process /\ \A v \in Process : v # w => seen'[v] = seen[v]
  BY DEF InlineInv
<1>6. w \notin Got /\ w \notin Got'
  BY <1>3 DEF Got, Down
<1>7. Got' = Got
  <2>1. ASSUME NEW v \in Worker, v # w PROVE v \in Got' <=> v \in Got
    BY <1>2, <1>4, <2>1, Apart DEF Got, Down, SessionInv
  <2>2. Got \subseteq Worker /\ Got' \subseteq Worker
    BY DEF Got, Down
  <2> QED
    BY <1>6, <2>1, <2>2
<1>8. InlineMerged'
  BY <1>1, <1>2, <1>7, InlineMergedStays DEF InlineInv
<1>9. InlineNoted(w)'
  <2>1. RecordedBy(w)' = RecordedBy(w)
    BY DEF RecordedBy
  <2>2. InlineNoted(w)
    BY <1>1 DEF InlineInv
  <2>3. RowsTell(Shipped(seen[w]), RecordedBy(w))
    BY <1>3, <2>2, ShippedTells DEF InlineNoted
  <2>4. RowsTell(wire[w].inline, RecordedBy(w))'
    BY <1>4, <2>1, <2>3 DEF RowsTell
  <2> QED
    BY <1>3, <2>1, <2>2, <2>4 DEF InlineNoted
<1>10. \A p \in Process : InlineNoted(p)'
  BY <1>2, <1>4, <1>5, <1>9, InlineNotedStays DEF InlineInv
<1> QED
  BY <1>2, <1>5, <1>8, <1>10, NothingWritten DEF InlineInv

LEMMA NodeDownInline == ASSUME SessionInv, InlineInv, NEW w \in Worker, NodeDown(w) PROVE InlineInv'
<1>0. /\ phase[w] \in {"dead", "shipped"} /\ phase' = [phase EXCEPT ![w] = "down"]
      /\ UNCHANGED <<parallel, seen, wire, done, content, edited>>
  BY DEF NodeDown, held, history
<1>1. parallel /\ ~Finished /\ w # Controller /\ w \in Process
  BY <1>0, Apart DEF SessionInv, Types, Roles
<1>2. ~Finished' /\ phase'[w] = "down" /\ \A v \in Process : v # w => phase'[v] = phase[v]
  BY <1>0, <1>1, Apart DEF SessionInv, Types, Finished
<1>3. Got' = Got \cup (IF phase[w] = "shipped" THEN {w} ELSE {})
  <2>1. wire[w].present <=> phase[w] = "shipped"
    BY <1>0 DEF SessionInv, Roles
  <2>2. ASSUME NEW v \in Worker, v # w PROVE v \in Got' <=> v \in Got
    BY <1>0, <1>2, <2>2, Apart DEF Got, Down, SessionInv
  <2>3. Got \subseteq Worker /\ Got' \subseteq Worker
    BY DEF Got, Down
  <2>4. w \in Got' <=> phase[w] = "shipped"
    BY <1>0, <1>2, <2>1 DEF Got, Down
  <2>5. w \notin Got
    BY <1>0 DEF Got, Down
  <2> QED
    BY <2>2, <2>3, <2>4, <2>5
<1>4. collected'.inline = collected.inline \cup (IF phase[w] = "shipped" THEN wire[w].inline ELSE {})
  <2>1. CASE phase[w] = "dead"
    <3>1. collected' = [collected EXCEPT !.lost = @ + 1]
      BY <2>1 DEF NodeDown
    <3>2. collected'.inline = collected.inline
      BY <3>1 DEF SessionInv, Types, Fields
    <3> QED
      BY <2>1, <3>2
  <2>2. CASE phase[w] = "shipped"
    <3> DEFINE merged == Taken(collected, w, wire[w].failed)
    <3>1. collected' = [merged EXCEPT !.inline = @ \cup wire[w].inline, !.retried = @ \o wire[w].retried,
                                      !.accesses = Unioned(@, wire[w].accesses)]
      BY <2>2 DEF NodeDown
    <3>2. DOMAIN merged = Fields /\ merged.inline = collected.inline
      BY DEF SessionInv, Types, Fields, Taken
    <3> HIDE DEF merged
    <3>3. collected'.inline = merged.inline \cup wire[w].inline
      BY <3>1, <3>2 DEF Fields
    <3> QED
      BY <2>2, <3>2, <3>3
  <2> QED
    BY <1>0, <2>1, <2>2
<1>5. \A v : RecordedBy(v)' = RecordedBy(v)
  BY <1>0 DEF RecordedBy
<1>6. RowsTell(collected.inline, UNION {RecordedBy(v) : v \in Got})'
  <2> DEFINE cases == UNION {RecordedBy(v) : v \in Got}
             after == UNION {RecordedBy(v) : v \in Got'}
  <2>1. RowsTell(collected.inline, cases)
    BY <1>1 DEF InlineInv, InlineMerged
  <2>2. RowsTell(collected'.inline, after)
    <3>1. CASE phase[w] = "dead"
      <4>1. Got' = Got /\ collected'.inline = collected.inline
        BY <1>3, <1>4, <3>1
      <4> QED
        BY <2>1, <4>1
    <3>2. CASE phase[w] = "shipped"
      <4>1. Got' = Got \cup {w} /\ collected'.inline = collected.inline \cup wire[w].inline
        BY <1>3, <1>4, <3>2
      <4>2. after = cases \cup RecordedBy(w)
        BY <4>1
      <4>3. RowsTell(wire[w].inline, RecordedBy(w))
        BY <1>1, <3>2 DEF InlineInv, InlineNoted, SessionInv, Roles
      <4>4. RowsTell(collected.inline \cup wire[w].inline, cases \cup RecordedBy(w))
        BY <2>1, <4>3, RowsTogether
      <4> QED
        BY <4>1, <4>2, <4>4
    <3> QED
      BY <1>0, <3>1, <3>2
  <2>3. (UNION {RecordedBy(v) : v \in Got})' = after
    BY <1>5
  <2> HIDE DEF after
  <2> QED
    BY <2>2, <2>3 DEF RowsTell
<1>7. InlineMerged'
  <2>1. /\ content = edited /\ DOMAIN content = File /\ \A file \in File : Sound(content[file], file)
    BY <1>1 DEF InlineInv, InlineMerged
  <2>2. (\A file \in File : Sound(content[file], file))'
    BY <1>0, <2>1
  <2> QED
    BY <1>0, <1>6, <2>1, <2>2 DEF InlineMerged
<1>8. \A p \in Process : InlineNoted(p)'
  BY <1>0, <1>2, InlineNotedStays DEF InlineInv
<1> QED
  BY <1>0, <1>2, <1>7, <1>8, NothingWritten DEF InlineInv

LEMMA TerminalSummaryInline == ASSUME SessionInv, InlineInv, TerminalSummary PROVE InlineInv'
<1>1. /\ phase[Controller] = "finished" /\ phase' = [phase EXCEPT ![Controller] = "over"]
      /\ UNCHANGED <<parallel, seen, wire, done, content, edited, torn, problems, exit>>
  BY DEF TerminalSummary, held, history
<1>2. Finished /\ Finished' /\ phase'[Controller] = "over"
      /\ \A p \in Process : p # Controller => phase'[p] = phase[p]
  BY <1>1, Apart DEF SessionInv, Types, Finished
<1>3. \A p \in Process : InlineNoted(p)'
  BY <1>1, <1>2, InlineNotedStays DEF InlineInv
<1>4. InlineMerged'
  BY <1>2 DEF InlineMerged
<1> QED
  BY <1>1, <1>2, <1>3, <1>4, WrittenStays DEF InlineInv

\* What the end of the session has to go by: the rows of every process heard of.
LEMMA RowsAtTheEnd ==
  ASSUME SessionInv, InlineInv, ~Finished, parallel => \A w \in Worker : phase[w] = "down",
         phase[Controller] \in {"idle", "running"}
  PROVE  RowsTell(Shipped(seen[Controller]) \cup collected.inline, Recorded)
<1> DEFINE own    == RecordedBy(Controller)
           others == UNION {RecordedBy(w) : w \in Got}
           rows   == Shipped(seen[Controller]) \cup collected.inline
<1>1. RowsTell(Shipped(seen[Controller]), own)
  BY Apart, ShippedTells DEF InlineInv, InlineNoted, SessionInv
<1>2. RowsTell(collected.inline, others)
  BY DEF InlineInv, InlineMerged
<1>3. RowsTell(rows, own \cup others)
  BY <1>1, <1>2, RowsTogether
<1>4. Recorded \subseteq own \cup others
  <2>1. Heard \subseteq Got \cup {Controller}
    BY AllHeard DEF SessionInv
  <2>2. ASSUME NEW reach \in Recorded PROVE reach \in own \cup others
    <3>1. PICK p \in Heard : \E one \in Ran(p) : one.recorded /\ one.case.reach = reach
      BY DEF Recorded
    <3>2. reach \in RecordedBy(p)
      BY <3>1 DEF RecordedBy, Ran
    <3> QED
      BY <2>1, <3>2
  <2> QED
    BY <2>2
<1> HIDE DEF own, others, rows
<1>5. RowsTell(rows, Recorded)
  BY <1>3, <1>4 DEF RowsTell
<1> QED
  BY <1>5 DEF rows

\* The problems of a file are told of that file.
LEMMA ProblemsOf ==
  ASSUME NEW file, NEW text, NEW decided, NEW sources, NEW within, NEW fault, NEW cut,
         NEW problem \in Written(file, text, decided, sources, within, fault, cut).problems
  PROVE  problem[1] = file
<1> DEFINE why  == {<<file, decided[place].why>> : place \in DOMAIN decided} \ {<<file, Fine>>}
           w    == Written(file, text, decided, sources, within, fault, cut)
<1>1. \A x : <<file, x>>[1] = file
  OBVIOUS
<1>2. \A one \in why : one[1] = file
  OBVIOUS
<1> DEFINE whole == Rewritten(text, decided)
<1> HIDE DEF why
<1>3. w.problems \in {{}, {<<file, "outside">>}, {<<file, fault>>}, {<<file, "changed">>}, why \cup {<<file, fault>>}, why}
  BY DEF Written, why
<1> HIDE DEF w
<1>4. \A one \in w.problems : one[1] = file
  BY <1>1, <1>2, <1>3
<1> QED
  BY <1>4 DEF w

LEMMA SessionFinishInline == ASSUME SessionInv, InlineInv, NEW fault, NEW cut, SessionFinish(fault, cut) PROVE InlineInv'
<1> DEFINE rows    == Shipped(seen[Controller]) \cup collected.inline
           written == [file \in File |->
                        Written(file, content[file], Decisions(rows, file), SourcesOf(rows, file),
                                file \in Rooted, fault[file], cut)]
           found   == UNION {written[file].problems : file \in File}
<1>1. /\ phase[Controller] = IF parallel THEN "idle" ELSE "running"
      /\ parallel => \A w \in Worker : phase[w] = "down"
      /\ phase' = [phase EXCEPT ![Controller] = "finished"]
      /\ content' = [file \in File |-> written[file].content]
      /\ problems' = found
      /\ found # {} => exit' = "failed"
      /\ seen' = [seen EXCEPT ![Controller] = Nothing]
      /\ torn' = {file \in File : <<file, "unwritten">> \in found}
      /\ UNCHANGED <<parallel, wire, done, edited>>
  BY DEF SessionFinish
<1>2. ~Finished /\ Finished' /\ phase'[Controller] = "finished"
      /\ \A p \in Process : p # Controller => phase'[p] = phase[p] /\ seen'[p] = seen[p]
  BY <1>1, Apart DEF SessionInv, Types, Finished, InlineInv
<1>3. RowsTell(rows, Recorded)
  BY <1>1, <1>2, RowsAtTheEnd
<1>4. content = edited /\ \A file \in File : Sound(content[file], file)
  BY <1>2 DEF InlineInv, InlineMerged
<1> HIDE DEF rows
<1>5. \A file \in File : written[file] = Written(file, content[file], Decisions(rows, file), SourcesOf(rows, file),
                                                file \in Rooted, fault[file], cut)
  OBVIOUS
<1> HIDE DEF written, found
<1>6. \A file \in File : content'[file] = written[file].content /\ written[file].problems \subseteq found
  BY <1>1 DEF found
<1>7. Recorded' = Recorded
  <2>1. Heard' = Heard
    BY <1>1 DEF Heard
  <2> QED
    BY <1>1, <2>1 DEF Recorded, Ran
<1>8. LiteralsHold'
  <2>1. ASSUME NEW file \in File \ torn'
        PROVE  \E literal \in [ToSet(Source[file]) \cap Call -> Literal] :
                 /\ content'[file] = Spliced(edited'[file], literal)
                 /\ \A call \in DOMAIN literal : literal[call] # NoText =>
                      \A reach \in Recorded' : reach.call = call => literal[call] \in reach.takes
    <3>1. <<file, "unwritten">> \notin written[file].problems
      BY <1>1, <1>6
    <3>2. GoodText(file, content[file], written[file].content, Recorded)
      <4> DEFINE text == content[file]
                 w    == written[file]
      <4>1. Sound(text, file) /\ w = Written(file, text, Decisions(rows, file), SourcesOf(rows, file),
                                             file \in Rooted, fault[file], cut)
        BY <1>4, <1>5
      <4> HIDE DEF text, w
      <4>2. GoodText(file, text, w.content, Recorded)
        BY <1>3, <3>1, <4>1, WrittenIsGood DEF w
      <4> QED
        BY <4>2 DEF text, w
    <3>3. edited'[file] = content[file] /\ content'[file] = written[file].content
      BY <1>1, <1>4, <1>6
    <3> QED
      BY <1>7, <3>2, <3>3 DEF GoodText
  <2> QED
    BY <2>1 DEF LiteralsHold
<1>9. NothingDropped'
  <2>1. ASSUME NEW reach \in Recorded, Stale(reach)
        PROVE  \/ FileOf(reach.call) \notin torn' /\ LiteralOf(content'[FileOf(reach.call)], reach.call) \in reach.takes
               \/ exit' = "failed" /\ \E problem \in problems' : problem[1] = FileOf(reach.call)
    <3> DEFINE file == FileOf(reach.call)
               w    == written[file]
    <3>1. PICK p \in Process : reach \in RecordedBy(p)
      <4>1. Heard \subseteq Process
        BY DEF Heard
      <4>2. PICK p \in Heard : \E one \in Ran(p) : one.recorded /\ one.case.reach = reach
        BY DEF Recorded
      <4> QED
        BY <4>1, <4>2 DEF RecordedBy, Ran
    <3>2. reach \in Reaches /\ reach.text # NoText
      BY <2>1, <3>1 DEF InlineInv, InlineNoted
    <3>3. file \in File
      BY <3>2, FileOfReach
    <3>4. CASE \E problem \in w.problems : problem[1] = file
      <4>1. PICK problem \in w.problems : problem[1] = file
        BY <3>4
      <4>2. problem \in problems' /\ exit' = "failed"
        BY <1>1, <1>6, <3>3, <4>1
      <4> QED
        BY <4>1, <4>2
    <3>5. CASE ~(\E problem \in w.problems : problem[1] = file)
      <4> DEFINE text == content[file]
      <4>1. Sound(text, file) /\ w = Written(file, text, Decisions(rows, file), SourcesOf(rows, file),
                                             file \in Rooted, fault[file], cut)
        BY <1>4, <1>5, <3>3
      <4> HIDE DEF text, w
      <4>2. LiteralOf(w.content, reach.call) \in reach.takes
        <5> HIDE DEF file
        <5>1. FileOf(reach.call) = file
          BY DEF file
        <5> QED
          BY <1>3, <2>1, <3>2, <3>3, <3>5, <4>1, <5>1, WrittenIsTold
      <4>3. content'[file] = w.content
        BY <1>6, <3>3 DEF w
      <4>4. file \notin torn'
        <5> SUFFICES ASSUME file \in torn' PROVE FALSE
          OBVIOUS
        <5> DEFINE torment == <<file, "unwritten">>
        <5>1. PICK one \in File : torment \in written[one].problems
          BY <1>1 DEF found
        <5>2. torment[1] = one
          BY <1>5, <5>1, ProblemsOf
        <5> QED
          BY <3>5, <5>1, <5>2 DEF w
      <4> QED
        BY <4>2, <4>3, <4>4
    <3> QED
      BY <3>4, <3>5
  <2> QED
    BY <1>7, <2>1 DEF NothingDropped
<1>10. \A p \in Process : InlineNoted(p)'
  BY <1>1, <1>2, InlineNotedStays DEF InlineInv
<1>11. InlineMerged'
  BY <1>2 DEF InlineMerged
<1>12. DOMAIN seen' = Process
  BY <1>1 DEF InlineInv
<1> QED
  BY <1>8, <1>9, <1>10, <1>11, <1>12 DEF InlineInv

LEMMA InlineStep == SessionInv /\ InlineInv /\ [Next]_vars => InlineInv'
<1> SUFFICES ASSUME SessionInv, InlineInv, [Next]_vars PROVE InlineInv'
  OBVIOUS
<1>1. ASSUME NEW p \in Process, NEW k \in suite.tests, NEW found \in BOOLEAN, RunPhase(p, k, found) PROVE InlineInv'
  BY <1>1, RunPhaseInline
<1>2. ASSUME NEW file \in Rooted \ Installed, UserEdits(file) PROVE InlineInv'
  BY <1>2, SessionAssumption, UserEditsInline
<1>3. CASE CollectFails
  BY <1>3, CollectFailsInline
<1>4. ASSUME NEW w \in Worker, Finishes(w) PROVE InlineInv'
  BY <1>4, FinishesInline
<1>5. ASSUME NEW w \in Worker, Dies(w) PROVE InlineInv'
  BY <1>5, DiesInline
<1>6. ASSUME NEW w \in Worker, NodeDown(w) PROVE InlineInv'
  BY <1>6, NodeDownInline
<1>7. ASSUME NEW fault \in Fault, SessionFinish(fault[1], fault[2]) PROVE InlineInv'
  BY <1>7, SessionFinishInline
<1>8. CASE TerminalSummary
  BY <1>8, TerminalSummaryInline
<1>9. CASE UNCHANGED vars
  <2> USE <1>9 DEF vars, held, result, history
  <2>1. Got' = Got /\ Finished' = Finished
    BY DEF Got, Down, Finished
  <2>2. InlineMerged'
    BY <2>1, InlineMergedStays DEF InlineInv
  <2>3. \A p \in Process : InlineNoted(p)'
    BY InlineNotedStays DEF InlineInv
  <2> QED
    BY <2>1, <2>2, <2>3, WrittenStays DEF InlineInv
<1> QED
  BY <1>1, <1>2, <1>3, <1>4, <1>5, <1>6, <1>7, <1>8, <1>9 DEF Next

-----------------------------------------------------------------------------
(* The values of a side *)

LEMMA Least ==
  ASSUME NEW S \in SUBSET Nat, S # {}
  PROVE  Min(S) \in S /\ \A y \in S : Min(S) <= y
<1>1. \E x \in S : \A y \in S : x <= y
  BY FirstOf
<1> QED
  BY <1>1 DEF Min

LEMMA LeastIs ==
  ASSUME NEW S \in SUBSET Nat, NEW x \in S, \A y \in S : x <= y
  PROVE  Min(S) = x
<1>1. Min(S) \in S /\ Min(S) <= x /\ x <= Min(S)
  BY Least
<1>2. Min(S) \in Nat /\ x \in Nat
  BY <1>1
<1> HIDE DEF Min
<1> QED
  BY <1>1, <1>2

\* One of a finite set is as large as any, by whatever they are measured.
LEMMA Largest ==
  ASSUME NEW S, IsFiniteSet(S), S # {}, NEW size \in [S -> Nat]
  PROVE  \E x \in S : \A y \in S : size[x] >= size[y]
<1> DEFINE Top(R) == \E x \in R : \A y \in R : size[x] >= size[y]
           N == Cardinality(S)
           G == {n \in 0 .. N : \A R \in SUBSET S : Cardinality(R) = n /\ R # {} => Top(R)}
<1>1. N \in Nat
  BY FS_CardinalityType
<1>2. 0 \in G
  <2>1. ASSUME NEW R \in SUBSET S, Cardinality(R) = 0, R # {} PROVE FALSE
    BY <2>1, FS_Subset, FS_EmptySet
  <2> QED
    BY <1>1, <2>1
<1>3. ASSUME NEW n \in 1 .. N, n - 1 \in G PROVE n \in G
  <2>1. ASSUME NEW R \in SUBSET S, Cardinality(R) = n, R # {} PROVE Top(R)
    <3>1. PICK z : z \in R
      BY <2>1
    <3> DEFINE rest == R \ {z}
    <3>2. IsFiniteSet(R) /\ Cardinality(rest) = n - 1
      BY <2>1, <3>1, FS_Subset, FS_RemoveElement
    <3>3. CASE rest = {}
      <4>1. size[z] >= size[z] /\ \A y \in R : y = z
        BY <3>1, <3>3
      <4> QED
        BY <3>1, <4>1
    <3>4. CASE rest # {}
      <4>1. rest \in SUBSET S
        OBVIOUS
      <4>2. \A Q \in SUBSET S : Cardinality(Q) = n - 1 /\ Q # {} => Top(Q)
        BY <1>3
      <4>3. Top(rest)
        <5> HIDE DEF rest, Top
        <5> QED
          BY <3>2, <3>4, <4>1, <4>2
      <4>4. PICK x \in rest : \A y \in rest : size[x] >= size[y]
        BY <4>3
      <4>5. size[x] \in Nat /\ size[z] \in Nat /\ x \in R
        BY <3>1
      <4>6. CASE size[x] >= size[z]
        <5>1. \A y \in R : size[x] >= size[y]
          BY <4>4, <4>6
        <5> QED
          BY <4>5, <5>1
      <4>7. CASE ~(size[x] >= size[z])
        <5>1. ASSUME NEW y \in R PROVE size[z] >= size[y]
          <6>1. size[y] \in Nat
            OBVIOUS
          <6>2. y = z \/ size[x] >= size[y]
            BY <4>4
          <6> QED
            BY <4>5, <4>7, <6>1, <6>2
        <5> QED
          BY <3>1, <5>1
      <4> QED
        BY <4>6, <4>7
    <3> QED
      BY <3>3, <3>4
  <2> HIDE DEF Top
  <2> QED
    BY <2>1
<1>4. N \in G
  <2>1. 0 .. N \subseteq G
    <3> HIDE DEF G, N
    <3> QED
      BY <1>1, <1>2, <1>3, Upward
  <2> QED
    BY <1>1, <2>1
<1>5. Top(S)
  <2> HIDE DEF Top
  <2> QED
    BY <1>4
<1> QED
  BY <1>5

LEMMA GreatestIn ==
  ASSUME NEW S \in SUBSET Nat, IsFiniteSet(S), S # {}
  PROVE  Max(S) \in S
<1> DEFINE size == [x \in S |-> x]
<1>1. size \in [S -> Nat]
  OBVIOUS
<1>2. \E x \in S : \A y \in S : size[x] >= size[y]
  <2> HIDE DEF size
  <2> QED
    BY <1>1, Largest
<1>3. \E x \in S : \A y \in S : x >= y
  BY <1>2
<1> QED
  BY <1>3 DEF Max

\* What is kept of the values of a side: all of them up to the limit, and the smallest in any case.
IsSample(sample, values) ==
  /\ values \in SUBSET Nat /\ IsFiniteSet(values) /\ sample \in SUBSET values
  /\ values # {} => Min(values) \in sample
  /\ Cardinality(sample) <= ExampleLimit => sample = values

LEMMA NoSample == IsSample({}, {})
BY FS_EmptySet DEF IsSample

LEMMA KeepIs ==
  ASSUME NEW sample, NEW values, IsSample(sample, values), NEW value \in Nat
  PROVE  IsSample(Keep(sample, value), values \cup {value})
<1> DEFINE all == values \cup {value}
<1> SUFFICES IsSample(Keep(sample, value), all)
  OBVIOUS
<1>1. /\ all \in SUBSET Nat /\ IsFiniteSet(all) /\ all # {}
      /\ values \in SUBSET Nat /\ IsFiniteSet(values) /\ sample \in SUBSET values /\ IsFiniteSet(sample) /\ Cardinality(sample) \in Nat
  BY FS_AddElement, FS_Subset, FS_CardinalityType DEF IsSample
<1>2. Min(all) \in all /\ \A y \in all : Min(all) <= y
  <2> HIDE DEF all
  <2> QED
    BY <1>1, Least
<1>3. Min(all) # value => values # {} /\ Min(all) = Min(values)
  <2>1. SUFFICES ASSUME Min(all) # value PROVE values # {} /\ Min(all) = Min(values)
    OBVIOUS
  <2>2. Min(all) \in values /\ \A y \in values : Min(all) <= y
    BY <1>2, <2>1
  <2>3. PICK m : m = Min(all)
    OBVIOUS
  <2>4. Min(values) = m
    <3> HIDE DEF all
    <3> QED
      BY <1>1, <2>2, <2>3, LeastIs
  <2> QED
    BY <2>2, <2>3, <2>4
<1>4. CASE Cardinality(sample) <= ExampleLimit
  <2>1. Keep(sample, value) = all /\ sample = values
    BY <1>4 DEF Keep, IsSample
  <2> HIDE DEF all
  <2> QED
    BY <1>1, <1>2, <2>1 DEF IsSample
<1>5. CASE ~(Cardinality(sample) <= ExampleLimit)
  <2>1. sample # {} /\ values # {} /\ sample \in SUBSET Nat
    <3>1. sample # {}
      BY <1>1, <1>5, FS_EmptySet, LimitsAssumption
    <3> QED
      BY <1>1, <3>1
  <2>2. Min(sample) \in sample /\ (\A y \in sample : Min(sample) <= y) /\ Max(sample) \in sample
    BY <1>1, <2>1, Least, GreatestIn
  <2>3. Min(values) \in sample /\ \A y \in values : Min(values) <= y
    BY <1>1, <2>1, Least DEF IsSample
  <2>4. Min(values) = Min(sample)
    <3>1. Min(values) <= Min(sample) /\ Min(sample) <= Min(values) /\ Min(values) \in Nat /\ Min(sample) \in Nat
      BY <1>1, <2>1, <2>2, <2>3
    <3> QED
      BY <3>1
  <2>5. CASE value < Min(sample)
    <3>1. Keep(sample, value) = (sample \ {Max(sample)}) \cup {value}
      BY <1>5, <2>5 DEF Keep
    <3>2. value \notin sample
      <4>1. ASSUME value \in sample PROVE FALSE
        <5>1. Min(sample) <= value /\ Min(sample) \in Nat
          BY <1>1, <2>2, <4>1
        <5> QED
          BY <2>5, <5>1
      <4> QED
        BY <4>1
    <3>3. Cardinality(Keep(sample, value)) = Cardinality(sample)
      <4>1. IsFiniteSet(sample \ {Max(sample)}) /\ Cardinality(sample \ {Max(sample)}) = Cardinality(sample) - 1
        BY <1>1, <2>2, FS_RemoveElement
      <4>2. value \notin sample \ {Max(sample)}
        BY <3>2
      <4>3. Cardinality((sample \ {Max(sample)}) \cup {value}) = Cardinality(sample) - 1 + 1
        BY <4>1, <4>2, FS_AddElement
      <4> QED
        BY <1>1, <3>1, <4>3
    <3>4. Min(all) = value
      <4>1. Min(values) \in Nat
        BY <1>1, <2>3
      <4> QED
        BY <1>1, <1>2, <1>3, <2>4, <2>5, <4>1
    <3>5. Keep(sample, value) \in SUBSET all /\ Min(all) \in Keep(sample, value)
      BY <1>1, <3>1, <3>4
    <3> HIDE DEF all
    <3> QED
      BY <1>1, <1>5, <3>3, <3>5 DEF IsSample
  <2>6. CASE ~(value < Min(sample))
    <3>1. Keep(sample, value) = sample
      BY <1>5, <2>6 DEF Keep
    <3>2. Min(all) \in sample
      <4>1. CASE Min(all) = value
        <5>1. Min(values) \in Nat /\ Min(values) \in all
          BY <1>1, <2>3
        <5>2. value <= Min(values) /\ ~(value < Min(values))
          BY <1>2, <2>4, <2>6, <4>1, <5>1
        <5>3. value = Min(values)
          BY <5>1, <5>2
        <5> QED
          BY <2>3, <4>1, <5>3
      <4>2. CASE Min(all) # value
        BY <1>3, <2>3, <4>2
      <4> QED
        BY <4>1, <4>2
    <3>3. sample \in SUBSET all
      BY <1>1
    <3> HIDE DEF all
    <3> QED
      BY <1>1, <1>5, <3>1, <3>2, <3>3 DEF IsSample
  <2> QED
    BY <2>5, <2>6
<1> QED
  BY <1>4, <1>5

\* A side is told in the words its values call for.
LEMMA SideIsHonest ==
  ASSUME NEW sample, NEW values, IsSample(sample, values), values # {}
  PROVE  HonestSide(Side(sample), values)
<1>1. /\ values \in SUBSET Nat /\ IsFiniteSet(values) /\ sample \in SUBSET values /\ IsFiniteSet(sample)
      /\ Cardinality(sample) \in Nat /\ Cardinality(values) \in Nat /\ Cardinality(sample) <= Cardinality(values)
  BY FS_Subset, FS_CardinalityType DEF IsSample
<1>2. Min(sample) = Min(values)
  <2>1. Min(values) \in sample /\ \A y \in sample : Min(values) <= y
    BY <1>1, Least DEF IsSample
  <2>2. PICK m : m = Min(values)
    OBVIOUS
  <2>3. Min(sample) = m
    BY <1>1, <2>1, <2>2, LeastIs
  <2> QED
    BY <2>2, <2>3
<1>3. Cardinality(sample) > ExampleLimit <=> Cardinality(values) > ExampleLimit
  <2>1. CASE Cardinality(sample) <= ExampleLimit
    <3>1. sample = values
      BY <2>1 DEF IsSample
    <3> QED
      BY <3>1
  <2>2. CASE ~(Cardinality(sample) <= ExampleLimit)
    BY <1>1, <2>2, LimitsAssumption
  <2> QED
    BY <2>1, <2>2
<1>4. Cardinality(sample) <= ExampleLimit => sample = values
  BY DEF IsSample
<1> HIDE DEF Min
<1>5. PICK n \in Nat : n = Cardinality(sample)
  BY <1>1
<1>6. ~(n > ExampleLimit) => n <= ExampleLimit
  BY LimitsAssumption
<1> QED
  BY <1>2, <1>3, <1>4, <1>5, <1>6 DEF HonestSide, Side

-----------------------------------------------------------------------------
(* What is kept of the values of a run *)

Observations(S) == [signature : S, actual : Nat, expected : Nat]
Rows(N, S)      == [node : N, found : Seq(Observations(S))]
Sides           == {"actual", "expected"}

LEMMA SideTypes ==
  ASSUME NEW S, NEW found \in Seq(Observations(S)), NEW side \in Sides, NEW n \in DOMAIN found
  PROVE  found[n][side] \in Nat /\ found[n].signature \in S
<1>1. found[n] \in Observations(S)
  BY Lengths
<1> QED
  BY <1>1 DEF Observations, Sides

FedUpTo(sample, found, key, side, fed) ==
  /\ fed \in [0 .. Len(found) -> SUBSET Nat] /\ fed[0] = sample
  /\ \A n \in 1 .. Len(found) :
       fed[n] = IF found[n].signature = key THEN Keep(fed[n - 1], found[n][side]) ELSE fed[n - 1]

LEMMA FedTold ==
  ASSUME NEW S, NEW sample \in SUBSET Nat, NEW found \in Seq(Observations(S)), NEW key, NEW side \in Sides
  PROVE  \E fed : FedUpTo(sample, found, key, side, fed) /\ Fed(sample, found, key, side) = fed[Len(found)]
<1> DEFINE L == Len(found)
           G(u, n) == IF found[n].signature = key THEN Keep(u[n - 1], found[n][side]) ELSE u[n - 1]
           F(u, n) == IF n = 0 THEN sample ELSE G(u, n)
           step == [q \in (1 .. L) \X SUBSET Nat |->
                      IF found[q[1]].signature = key THEN Keep(q[2], found[q[1]][side]) ELSE q[2]]
           P(u) == u = [n \in 0 .. L |-> F(u, n)]
           fed == CHOOSE u : P(u)
<1>1. L \in Nat /\ DOMAIN found = 1 .. L
  BY Lengths
<1>2. ASSUME NEW n \in 1 .. L, NEW some \in SUBSET Nat PROVE Keep(some, found[n][side]) \in SUBSET Nat
  <2>1. found[n][side] \in Nat
    BY <1>1, SideTypes
  <2> QED
    BY <2>1 DEF Keep
<1>3. step \in [(1 .. L) \X SUBSET Nat -> SUBSET Nat]
  <2>1. ASSUME NEW q \in (1 .. L) \X SUBSET Nat
        PROVE  (IF found[q[1]].signature = key THEN Keep(q[2], found[q[1]][side]) ELSE q[2]) \in SUBSET Nat
    <3>1. q[1] \in 1 .. L /\ q[2] \in SUBSET Nat
      OBVIOUS
    <3>2. Keep(q[2], found[q[1]][side]) \in SUBSET Nat
      BY <1>2, <3>1
    <3> QED
      BY <3>1, <3>2
  <2> HIDE DEF L
  <2> QED
    BY <2>1
<1>4. PICK f : IsToldUpTo(f, L, SUBSET Nat, sample, step)
  <2> HIDE DEF step, L
  <2> QED
    BY <1>1, <1>3, UpwardRecursion
<1>5. P(f)
  <2>1. f \in [0 .. L -> SUBSET Nat] /\ f[0] = sample /\ \A n \in 1 .. L : f[n] = step[<<n, f[n - 1]>>]
    BY <1>4 DEF IsToldUpTo
  <2>2. ASSUME NEW n \in 0 .. L PROVE f[n] = F(f, n)
    <3>1. CASE n = 0
      BY <2>1, <3>1
    <3>2. CASE n # 0
      <4>1. n \in 1 .. L /\ n - 1 \in 0 .. L
        BY <1>1, <3>2
      <4>2. <<n, f[n - 1]>> \in (1 .. L) \X SUBSET Nat /\ f[n] = step[<<n, f[n - 1]>>]
        BY <2>1, <4>1
      <4> HIDE DEF L
      <4> QED
        BY <3>2, <4>2
    <3> QED
      BY <3>1, <3>2
  <2> HIDE DEF F, L
  <2>3. f = [n \in 0 .. L |-> F(f, n)]
    BY <2>1, <2>2
  <2> QED
    BY <2>3
<1>6. P(fed)
  <2> HIDE DEF P
  <2> QED
    BY <1>5
<1>7. Fed(sample, found, key, side) = fed[L]
  BY DEF Fed
<1> HIDE DEF fed
<1>8. fed = [n \in 0 .. L |-> F(fed, n)]
  BY <1>6
<1>9. ASSUME NEW n \in 0 .. L PROVE fed[n] = F(fed, n)
  <2> HIDE DEF F, L
  <2> QED
    BY <1>8
<1>10. fed[0] = sample
  <2>1. 0 \in 0 .. L
    BY <1>1
  <2> HIDE DEF L
  <2> QED
    BY <1>9, <2>1
<1>11. ASSUME NEW n \in 1 .. L PROVE fed[n] = G(fed, n)
  <2>1. n \in 0 .. L /\ n # 0
    BY <1>1
  <2> HIDE DEF G, L
  <2> QED
    BY <1>9, <2>1
<1> DEFINE H == {m \in 0 .. L : fed[m] \in SUBSET Nat}
<1>12. 0 .. L \subseteq H
  <2>1. 0 \in H
    <3>1. 0 \in 0 .. L /\ fed[0] \in SUBSET Nat
      BY <1>1, <1>10
    <3> HIDE DEF fed, L
    <3> QED
      BY <3>1
  <2>2. ASSUME NEW n \in 1 .. L, n - 1 \in H PROVE n \in H
    <3>1. fed[n - 1] \in SUBSET Nat /\ n \in 0 .. L
      BY <1>1, <2>2
    <3>2. Keep(fed[n - 1], found[n][side]) \in SUBSET Nat
      BY <1>2, <3>1
    <3> HIDE DEF L
    <3> QED
      BY <1>11, <3>1, <3>2
  <2> HIDE DEF H, L
  <2> QED
    BY <1>1, <2>1, <2>2, Upward
<1>13. fed \in [0 .. L -> SUBSET Nat]
  <2>1. \A n \in 0 .. L : fed[n] \in SUBSET Nat
    BY <1>12
  <2> HIDE DEF F, L
  <2> QED
    BY <1>8, <2>1
<1>14. FedUpTo(sample, found, key, side, fed)
  BY <1>10, <1>11, <1>13 DEF FedUpTo
<1> QED
  BY <1>7, <1>14

\* The values one failure, or those of a run, show on a side of a signature.
ValuesUpTo(found, key, side, n) == {found[i][side] : i \in {j \in 1 .. n : found[j].signature = key}}
ValuesIn(found, key, side)      == {found[i][side] : i \in {j \in DOMAIN found : found[j].signature = key}}
AllUpTo(recorded, key, side, n) == UNION {ValuesIn(recorded[i].found, key, side) : i \in 1 .. n}
AllValues(recorded, key, side)  == UNION {ValuesIn(recorded[i].found, key, side) : i \in DOMAIN recorded}

LEMMA FedIs ==
  ASSUME NEW S, NEW sample, NEW values, IsSample(sample, values),
         NEW found \in Seq(Observations(S)), NEW key, NEW side \in Sides
  PROVE  IsSample(Fed(sample, found, key, side), values \cup ValuesIn(found, key, side))
<1> DEFINE L == Len(found)
           V(n) == values \cup ValuesUpTo(found, key, side, n)
<1>1. L \in Nat /\ DOMAIN found = 1 .. L /\ sample \in SUBSET Nat
  BY Lengths DEF IsSample
<1>2. PICK fed : FedUpTo(sample, found, key, side, fed) /\ Fed(sample, found, key, side) = fed[L]
  BY <1>1, FedTold
<1> DEFINE H == {m \in 0 .. L : IsSample(fed[m], V(m))}
<1>3. 0 \in H
  <2>1. V(0) = values /\ fed[0] = sample
    BY <1>2 DEF FedUpTo, ValuesUpTo
  <2>2. IsSample(fed[0], V(0))
    <3> HIDE DEF V
    <3> QED
      BY <2>1
  <2> QED
    BY <1>1, <2>2
<1>4. ASSUME NEW n \in 1 .. L, n - 1 \in H PROVE n \in H
  <2>1. IsSample(fed[n - 1], V(n - 1)) /\ n \in 0 .. L
    BY <1>4
  <2>2. found[n][side] \in Nat
    BY <1>1, SideTypes
  <2>3. fed[n] = IF found[n].signature = key THEN Keep(fed[n - 1], found[n][side]) ELSE fed[n - 1]
    BY <1>2 DEF FedUpTo
  <2>4. 1 .. n = (1 .. n - 1) \cup {n}
    OBVIOUS
  <2>5. CASE found[n].signature = key
    <3>1. V(n) = V(n - 1) \cup {found[n][side]}
      BY <2>4, <2>5 DEF ValuesUpTo
    <3>2. IsSample(Keep(fed[n - 1], found[n][side]), V(n - 1) \cup {found[n][side]})
      <4> HIDE DEF V
      <4> QED
        BY <2>1, <2>2, KeepIs
    <3> HIDE DEF V
    <3> QED
      BY <2>1, <2>3, <2>5, <3>1, <3>2
  <2>6. CASE found[n].signature # key
    <3>1. V(n) = V(n - 1)
      BY <2>4, <2>6 DEF ValuesUpTo
    <3> HIDE DEF V
    <3> QED
      BY <2>1, <2>3, <2>6, <3>1
  <2> QED
    BY <2>5, <2>6
<1>5. L \in H
  <2>1. 0 .. L \subseteq H
    <3> HIDE DEF H, L
    <3> QED
      BY <1>1, <1>3, <1>4, Upward
  <2>2. L \in 0 .. L
    BY <1>1
  <2> HIDE DEF H
  <2> QED
    BY <2>1, <2>2
<1>6. V(L) = values \cup ValuesIn(found, key, side)
  BY <1>1 DEF ValuesUpTo, ValuesIn
<1> HIDE DEF V
<1> QED
  BY <1>2, <1>5, <1>6

KeptUpTo(recorded, key, side, kept) ==
  /\ kept \in [0 .. Len(recorded) -> SUBSET Nat] /\ kept[0] = {}
  /\ \A n \in 1 .. Len(recorded) : kept[n] = Fed(kept[n - 1], recorded[n].found, key, side)

LEMMA FedTypes ==
  ASSUME NEW S, NEW sample \in SUBSET Nat, NEW found \in Seq(Observations(S)), NEW key, NEW side \in Sides
  PROVE  Fed(sample, found, key, side) \in SUBSET Nat
<1>1. PICK fed : FedUpTo(sample, found, key, side, fed) /\ Fed(sample, found, key, side) = fed[Len(found)]
  BY FedTold
<1>2. Len(found) \in 0 .. Len(found)
  BY Lengths
<1> QED
  BY <1>1, <1>2 DEF FedUpTo

LEMMA KeptTold ==
  ASSUME NEW N, NEW S, NEW recorded \in Seq(Rows(N, S)), NEW key, NEW side \in Sides
  PROVE  \E kept : KeptUpTo(recorded, key, side, kept) /\ Kept(recorded, key, side) = kept[Len(recorded)]
<1> DEFINE L == Len(recorded)
           G(u, n) == Fed(u[n - 1], recorded[n].found, key, side)
           F(u, n) == IF n = 0 THEN {} ELSE G(u, n)
           step == [q \in (1 .. L) \X SUBSET Nat |-> Fed(q[2], recorded[q[1]].found, key, side)]
           P(u) == u = [n \in 0 .. L |-> F(u, n)]
           kept == CHOOSE u : P(u)
<1>1. L \in Nat /\ DOMAIN recorded = 1 .. L
  BY Lengths
<1>2. ASSUME NEW n \in 1 .. L, NEW some \in SUBSET Nat PROVE Fed(some, recorded[n].found, key, side) \in SUBSET Nat
  <2>1. recorded[n].found \in Seq(Observations(S))
    <3>1. recorded[n] \in Rows(N, S)
      BY <1>1, Lengths
    <3> QED
      BY <3>1 DEF Rows
  <2> QED
    BY <2>1, FedTypes
<1>3. step \in [(1 .. L) \X SUBSET Nat -> SUBSET Nat]
  <2>1. ASSUME NEW q \in (1 .. L) \X SUBSET Nat PROVE Fed(q[2], recorded[q[1]].found, key, side) \in SUBSET Nat
    <3>1. q[1] \in 1 .. L /\ q[2] \in SUBSET Nat
      OBVIOUS
    <3> QED
      BY <1>2, <3>1
  <2> HIDE DEF L
  <2> QED
    BY <2>1
<1>4. PICK f : IsToldUpTo(f, L, SUBSET Nat, {}, step)
  <2> HIDE DEF step, L
  <2> QED
    BY <1>1, <1>3, UpwardRecursion
<1>5. P(f)
  <2>1. f \in [0 .. L -> SUBSET Nat] /\ f[0] = {} /\ \A n \in 1 .. L : f[n] = step[<<n, f[n - 1]>>]
    BY <1>4 DEF IsToldUpTo
  <2>2. ASSUME NEW n \in 0 .. L PROVE f[n] = F(f, n)
    <3>1. CASE n = 0
      BY <2>1, <3>1
    <3>2. CASE n # 0
      <4>1. n \in 1 .. L /\ n - 1 \in 0 .. L
        BY <1>1, <3>2
      <4>2. <<n, f[n - 1]>> \in (1 .. L) \X SUBSET Nat /\ f[n] = step[<<n, f[n - 1]>>]
        BY <2>1, <4>1
      <4> HIDE DEF L
      <4> QED
        BY <3>2, <4>2
    <3> QED
      BY <3>1, <3>2
  <2> HIDE DEF F, L
  <2>3. f = [n \in 0 .. L |-> F(f, n)]
    BY <2>1, <2>2
  <2> QED
    BY <2>3
<1>6. P(kept)
  <2> HIDE DEF P
  <2> QED
    BY <1>5
<1>7. Kept(recorded, key, side) = kept[L]
  BY DEF Kept
<1> HIDE DEF kept
<1>8. kept = [n \in 0 .. L |-> F(kept, n)]
  BY <1>6
<1>9. ASSUME NEW n \in 0 .. L PROVE kept[n] = F(kept, n)
  <2> HIDE DEF F, L
  <2> QED
    BY <1>8
<1>10. kept[0] = {}
  <2>1. 0 \in 0 .. L
    BY <1>1
  <2> HIDE DEF L
  <2> QED
    BY <1>9, <2>1
<1>11. ASSUME NEW n \in 1 .. L PROVE kept[n] = G(kept, n)
  <2>1. n \in 0 .. L /\ n # 0
    BY <1>1
  <2> HIDE DEF G, L
  <2> QED
    BY <1>9, <2>1
<1> DEFINE H == {m \in 0 .. L : kept[m] \in SUBSET Nat}
<1>12. 0 .. L \subseteq H
  <2>1. 0 \in H
    <3>1. 0 \in 0 .. L /\ kept[0] \in SUBSET Nat
      BY <1>1, <1>10
    <3> HIDE DEF kept, L
    <3> QED
      BY <3>1
  <2>2. ASSUME NEW n \in 1 .. L, n - 1 \in H PROVE n \in H
    <3>1. kept[n - 1] \in SUBSET Nat /\ n \in 0 .. L
      BY <1>1, <2>2
    <3>2. Fed(kept[n - 1], recorded[n].found, key, side) \in SUBSET Nat
      BY <1>2, <3>1
    <3> HIDE DEF L
    <3> QED
      BY <1>11, <3>1, <3>2
  <2> HIDE DEF H, L
  <2> QED
    BY <1>1, <2>1, <2>2, Upward
<1>13. kept \in [0 .. L -> SUBSET Nat]
  <2>1. \A n \in 0 .. L : kept[n] \in SUBSET Nat
    BY <1>12
  <2> HIDE DEF F, L
  <2> QED
    BY <1>8, <2>1
<1>14. KeptUpTo(recorded, key, side, kept)
  BY <1>10, <1>11, <1>13 DEF KeptUpTo
<1> QED
  BY <1>7, <1>14

LEMMA KeptIs ==
  ASSUME NEW N, NEW S, NEW recorded \in Seq(Rows(N, S)), NEW key, NEW side \in Sides
  PROVE  IsSample(Kept(recorded, key, side), AllValues(recorded, key, side))
<1> DEFINE L == Len(recorded)
           V(n) == AllUpTo(recorded, key, side, n)
<1>1. L \in Nat /\ DOMAIN recorded = 1 .. L
  BY Lengths
<1>2. PICK kept : KeptUpTo(recorded, key, side, kept) /\ Kept(recorded, key, side) = kept[L]
  BY KeptTold
<1> DEFINE H == {m \in 0 .. L : IsSample(kept[m], V(m))}
<1>3. 0 \in H
  <2>1. V(0) = {} /\ kept[0] = {}
    BY <1>2 DEF KeptUpTo, AllUpTo
  <2>2. IsSample(kept[0], V(0))
    <3> HIDE DEF V
    <3> QED
      BY <2>1, NoSample
  <2> QED
    BY <1>1, <2>2
<1>4. ASSUME NEW n \in 1 .. L, n - 1 \in H PROVE n \in H
  <2>1. IsSample(kept[n - 1], V(n - 1)) /\ n \in 0 .. L
    BY <1>4
  <2>2. recorded[n].found \in Seq(Observations(S))
    <3>1. recorded[n] \in Rows(N, S)
      BY <1>1, Lengths
    <3> QED
      BY <3>1 DEF Rows
  <2>3. kept[n] = Fed(kept[n - 1], recorded[n].found, key, side)
    BY <1>2 DEF KeptUpTo
  <2>4. V(n) = V(n - 1) \cup ValuesIn(recorded[n].found, key, side)
    <3>1. 1 .. n = (1 .. n - 1) \cup {n}
      OBVIOUS
    <3> QED
      BY <3>1 DEF AllUpTo
  <2> HIDE DEF V
  <2>5. IsSample(kept[n], V(n))
    BY <2>1, <2>2, <2>3, <2>4, FedIs
  <2> QED
    BY <2>1, <2>5
<1>5. L \in H
  <2>1. 0 .. L \subseteq H
    <3> HIDE DEF H, L
    <3> QED
      BY <1>1, <1>3, <1>4, Upward
  <2>2. L \in 0 .. L
    BY <1>1
  <2> HIDE DEF H
  <2> QED
    BY <2>1, <2>2
<1>6. V(L) = AllValues(recorded, key, side)
  BY <1>1 DEF AllUpTo, AllValues
<1> HIDE DEF V
<1> QED
  BY <1>2, <1>5, <1>6

-----------------------------------------------------------------------------
(* The signatures in their order *)

TopOf(left, nodes) == CHOOSE key \in left : \A other \in left : Cardinality(nodes[key]) >= Cardinality(nodes[other])

\* m of the keys, each once.
Lists(seq, keys, m) ==
  /\ seq \in Seq(keys) /\ Len(seq) = m
  /\ \A i, j \in 1 .. m : seq[i] = seq[j] => i = j

LEMMA ListedSize ==
  ASSUME NEW keys, NEW m \in Nat, NEW seq, Lists(seq, keys, m)
  PROVE  IsFiniteSet(ToSet(seq)) /\ Cardinality(ToSet(seq)) = m /\ ToSet(seq) \in SUBSET keys
<1> DEFINE f == [i \in 1 .. m |-> seq[i]]
<1>1. seq \in Seq(keys) /\ Len(seq) = m /\ DOMAIN seq = 1 .. m /\ \A i \in 1 .. m : seq[i] \in keys
  BY Lengths DEF Lists
<1>2. f \in Bijection(1 .. m, ToSet(seq))
  BY <1>1 DEF Lists, ToSet, Bijection, Injection, IsInjective, Surjection
<1>3. IsFiniteSet(1 .. m) /\ Cardinality(1 .. m) = m
  BY FS_Interval
<1>4. ExistsBijection(1 .. m, ToSet(seq))
  BY <1>2 DEF ExistsBijection
<1>5. ToSet(seq) \in SUBSET keys
  BY <1>1 DEF ToSet
<1> HIDE DEF f
<1> QED
  BY <1>3, <1>4, <1>5, FS_Bijection

\* The nodes of each key can be counted.
AreCounted(nodes, keys) == IsFiniteSet(keys) /\ \A key \in keys : Cardinality(nodes[key]) \in Nat

LEMMA TopIs ==
  ASSUME NEW keys, NEW nodes, AreCounted(nodes, keys), NEW left \in SUBSET keys, left # {}
  PROVE  TopOf(left, nodes) \in left
<1> DEFINE size == [key \in left |-> Cardinality(nodes[key])]
<1>1. IsFiniteSet(left)
  BY FS_Subset DEF AreCounted
<1>2. size \in [left -> Nat]
  BY DEF AreCounted
<1>3. \E x \in left : \A y \in left : size[x] >= size[y]
  <2> HIDE DEF size
  <2> QED
    BY <1>1, <1>2, Largest
<1>4. \E x \in left : \A y \in left : Cardinality(nodes[x]) >= Cardinality(nodes[y])
  BY <1>3
<1> QED
  BY <1>4 DEF TopOf

LEMMA ListsOneMore ==
  ASSUME NEW keys, NEW nodes, AreCounted(nodes, keys), NEW m \in Nat, m < Cardinality(keys), NEW seq, Lists(seq, keys, m)
  PROVE  /\ keys \ ToSet(seq) # {}
         /\ Lists(Append(seq, TopOf(keys \ ToSet(seq), nodes)), keys, m + 1)
<1> DEFINE left == keys \ ToSet(seq)
           top  == TopOf(left, nodes)
<1>1. IsFiniteSet(ToSet(seq)) /\ Cardinality(ToSet(seq)) = m /\ ToSet(seq) \in SUBSET keys
  BY ListedSize
<1>2. left # {}
  <2> SUFFICES ASSUME left = {} PROVE FALSE
    OBVIOUS
  <2>1. ToSet(seq) = keys
    BY <1>1
  <2> QED
    BY <1>1, <2>1
<1>3. top \in left
  <2>1. left \in SUBSET keys
    OBVIOUS
  <2> HIDE DEF left
  <2> QED
    BY <1>2, <2>1, TopIs
<1>4. seq \in Seq(keys) /\ Len(seq) = m /\ DOMAIN seq = 1 .. m /\ \A i, j \in 1 .. m : seq[i] = seq[j] => i = j
  BY Lengths DEF Lists
<1>5. top \in keys /\ \A i \in 1 .. m : seq[i] # top
  BY <1>3, <1>4 DEF ToSet
<1> HIDE DEF top
<1>6. /\ Append(seq, top) \in Seq(keys) /\ Len(Append(seq, top)) = m + 1
      /\ (\A i \in 1 .. m : Append(seq, top)[i] = seq[i]) /\ Append(seq, top)[m + 1] = top
  BY <1>4, <1>5
<1>7. ASSUME NEW i \in 1 .. m + 1, NEW j \in 1 .. m + 1, Append(seq, top)[i] = Append(seq, top)[j] PROVE i = j
  <2>1. (i \in 1 .. m \/ i = m + 1) /\ (j \in 1 .. m \/ j = m + 1)
    OBVIOUS
  <2> QED
    BY <1>4, <1>5, <1>6, <1>7, <2>1
<1>8. Lists(Append(seq, top), keys, m + 1)
  BY <1>6, <1>7 DEF Lists
<1> QED
  BY <1>2, <1>8 DEF top

LEMMA ListsNone ==
  ASSUME NEW keys
  PROVE  Lists(<<>>, keys, 0)
BY DEF Lists

LEMMA LargestFirstIs ==
  ASSUME NEW keys, NEW nodes, AreCounted(nodes, keys)
  PROVE  Lists(LargestFirst(keys, nodes), keys, Cardinality(keys))
<1> DEFINE L == Cardinality(keys)
           T == Seq(keys)
           G(u, n) == Append(u[n - 1], TopOf(keys \ ToSet(u[n - 1]), nodes))
           F(u, n) == IF n = 0 THEN <<>> ELSE G(u, n)
           More(s) == IF keys \ ToSet(s) = {} THEN s ELSE Append(s, TopOf(keys \ ToSet(s), nodes))
           step == [q \in (1 .. L) \X T |-> More(q[2])]
           P(u) == u = [n \in 0 .. L |-> F(u, n)]
           listed == CHOOSE u : P(u)
<1>1. L \in Nat
  BY FS_CardinalityType DEF AreCounted
<1>2. ASSUME NEW s \in T PROVE More(s) \in T
  <2>1. keys \ ToSet(s) \in SUBSET keys
    OBVIOUS
  <2>2. keys \ ToSet(s) # {} => TopOf(keys \ ToSet(s), nodes) \in keys \ ToSet(s)
    BY <2>1, TopIs
  <2> QED
    BY <2>2
<1>3. step \in [(1 .. L) \X T -> T]
  <2> HIDE DEF L, T, More
  <2> QED
    BY <1>2
<1>4. PICK f : IsToldUpTo(f, L, T, <<>>, step)
  <2>1. <<>> \in T
    OBVIOUS
  <2> HIDE DEF step, L, T
  <2> QED
    BY <1>1, <1>3, <2>1, UpwardRecursion
<1>5. /\ f \in [0 .. L -> T] /\ f[0] = <<>>
      /\ \A n \in 1 .. L : f[n] = More(f[n - 1])
  <2>1. f \in [0 .. L -> T] /\ f[0] = <<>> /\ \A n \in 1 .. L : f[n] = step[<<n, f[n - 1]>>]
    BY <1>4 DEF IsToldUpTo
  <2>2. ASSUME NEW n \in 1 .. L PROVE f[n] = More(f[n - 1])
    <3>1. n - 1 \in 0 .. L
      BY <1>1
    <3>2. <<n, f[n - 1]>> \in (1 .. L) \X T /\ f[n] = step[<<n, f[n - 1]>>]
      BY <2>1, <3>1
    <3> HIDE DEF L, T, More
    <3> QED
      BY <3>2
  <2> HIDE DEF More
  <2> QED
    BY <2>1, <2>2
<1>6. ASSUME NEW n \in 1 .. L, Lists(f[n - 1], keys, n - 1) PROVE f[n] = G(f, n) /\ Lists(f[n], keys, n)
  <2>0. n - 1 \in Nat /\ n - 1 < L /\ n - 1 + 1 = n
    <3> HIDE DEF L
    <3> QED
      BY <1>1
  <2>1. n - 1 \in Nat /\ n - 1 < L /\ n - 1 + 1 = n /\ f[n] = More(f[n - 1])
    BY <1>5, <2>0
  <2>2. /\ keys \ ToSet(f[n - 1]) # {}
        /\ Lists(Append(f[n - 1], TopOf(keys \ ToSet(f[n - 1]), nodes)), keys, n)
    BY <1>6, <2>1, ListsOneMore
  <2> QED
    BY <2>1, <2>2
<1> DEFINE H(u) == {m \in 0 .. L : Lists(u[m], keys, m)}
<1>7. 0 .. L \subseteq H(f)
  <2>1. 0 \in H(f)
    BY <1>1, <1>5, ListsNone
  <2>2. ASSUME NEW n \in 1 .. L, n - 1 \in H(f) PROVE n \in H(f)
    <3>1. n \in 0 .. L /\ Lists(f[n - 1], keys, n - 1)
      BY <1>1, <2>2
    <3> HIDE DEF L, G
    <3> QED
      BY <1>6, <3>1
  <2> DEFINE Some == H(f)
  <2> HIDE DEF Some, H, L
  <2>3. 0 \in Some /\ \A n \in 1 .. L : n - 1 \in Some => n \in Some
    BY <2>1, <2>2 DEF Some
  <2>4. 0 .. L \subseteq Some
    BY <1>1, <2>3, Upward
  <2> QED
    BY <2>4 DEF Some
<1>8. P(f)
  <2>1. ASSUME NEW n \in 0 .. L PROVE f[n] = F(f, n)
    <3>1. CASE n = 0
      BY <1>5, <3>1
    <3>2. CASE n # 0
      <4>1. n \in 1 .. L /\ n - 1 \in 0 .. L
        BY <1>1, <3>2
      <4>2. Lists(f[n - 1], keys, n - 1)
        BY <1>7, <4>1
      <4> HIDE DEF L, G
      <4> QED
        BY <1>6, <3>2, <4>1, <4>2
    <3> QED
      BY <3>1, <3>2
  <2> HIDE DEF F, L, T
  <2>2. f = [n \in 0 .. L |-> F(f, n)]
    BY <1>5, <2>1
  <2> QED
    BY <2>2
<1>9. P(listed)
  <2> HIDE DEF P
  <2> QED
    BY <1>8
<1>10. LargestFirst(keys, nodes) = listed[L]
  BY DEF LargestFirst, TopOf
<1> HIDE DEF listed
<1>11. listed = [n \in 0 .. L |-> F(listed, n)]
  BY <1>9
<1>12. ASSUME NEW n \in 0 .. L PROVE listed[n] = F(listed, n)
  <2> HIDE DEF F, L
  <2> QED
    BY <1>11
<1>13. listed[0] = <<>>
  <2>1. 0 \in 0 .. L
    BY <1>1
  <2> HIDE DEF L
  <2> QED
    BY <1>12, <2>1
<1>14. ASSUME NEW n \in 1 .. L PROVE listed[n] = G(listed, n)
  <2>1. n \in 0 .. L /\ n # 0
    BY <1>1
  <2> HIDE DEF G, L
  <2> QED
    BY <1>12, <2>1
<1> DEFINE all == {m \in 0 .. L : Lists(listed[m], keys, m)}
<1>15. 0 .. L \subseteq all
  <2>1. 0 \in all
    BY <1>1, <1>13, ListsNone
  <2>2. ASSUME NEW n \in 1 .. L, n - 1 \in all PROVE n \in all
    <3>1. n \in 0 .. L /\ Lists(listed[n - 1], keys, n - 1) /\ n - 1 \in Nat /\ n - 1 < L /\ n - 1 + 1 = n
      BY <1>1, <2>2
    <3>2. Lists(Append(listed[n - 1], TopOf(keys \ ToSet(listed[n - 1]), nodes)), keys, n)
      BY <3>1, ListsOneMore
    <3>3. listed[n] = Append(listed[n - 1], TopOf(keys \ ToSet(listed[n - 1]), nodes))
      BY <1>14
    <3> HIDE DEF L
    <3> QED
      BY <3>1, <3>2, <3>3
  <2> HIDE DEF all, L
  <2> QED
    BY <1>1, <2>1, <2>2, Upward
<1>16. L \in 0 .. L
  BY <1>1
<1> QED
  BY <1>10, <1>15, <1>16

-----------------------------------------------------------------------------
(* The clusters of a run *)

\* What a sequence of failures shows: which test, and what it differed at.
Shows(recorded) == UNION {{<<recorded[i].node, o>> : o \in ToSet(recorded[i].found)} : i \in DOMAIN recorded}

TestsOf(shows, key)        == {s[1] : s \in {s \in shows : s[2].signature = key}}
ValuesOf(shows, key, side) == {s[2][side] : s \in {s \in shows : s[2].signature = key}}
LargeIn(shows, minimum)    ==
  {key \in {s[2].signature : s \in shows} : Cardinality(TestsOf(shows, key)) >= minimum}

\* The clusters are those of the signatures that so many tests show, each once and with all it stands for.
IsClusterOf(one, shows, key) ==
  /\ one.signature = key /\ one.nodes = TestsOf(shows, key)
  /\ IsSample(one.actuals, ValuesOf(shows, key, "actual"))
  /\ IsSample(one.expecteds, ValuesOf(shows, key, "expected"))

IsClustered(found, shows, minimum) ==
  /\ IsFiniteSet(LargeIn(shows, minimum))
  /\ found \in Seq(ToSet(found)) /\ Len(found) = Cardinality(LargeIn(shows, minimum))
  /\ \A i \in DOMAIN found : /\ found[i].signature \in LargeIn(shows, minimum)
                             /\ IsClusterOf(found[i], shows, found[i].signature)
  /\ \A i, j \in DOMAIN found : found[i].signature = found[j].signature => i = j
  /\ \A key \in LargeIn(shows, minimum) : \E i \in DOMAIN found : found[i].signature = key
  /\ \A key \in LargeIn(shows, minimum) : IsFiniteSet(TestsOf(shows, key))

LEMMA RangeIsFinite ==
  ASSUME NEW n \in Nat, NEW f
  PROVE  IsFiniteSet({f[i] : i \in 1 .. n})
<1> DEFINE g == [i \in 1 .. n |-> f[i]]
           R == {f[i] : i \in 1 .. n}
<1>1. g \in Surjection(1 .. n, R)
  BY DEF Surjection
<1>2. IsFiniteSet(1 .. n)
  BY FS_Interval
<1> HIDE DEF g, R
<1>3. IsFiniteSet(R)
  BY <1>1, <1>2, FS_Surjection
<1> QED
  BY <1>3 DEF R

LEMMA SeqOfValues ==
  ASSUME NEW n \in Nat, NEW f, f = [i \in 1 .. n |-> f[i]]
  PROVE  f \in Seq(ToSet(f)) /\ Len(f) = n /\ DOMAIN f = 1 .. n
<1>1. DOMAIN f = 1 .. n
  OBVIOUS
<1>2. f \in [1 .. n -> ToSet(f)]
  BY <1>1 DEF ToSet
<1> DEFINE R == ToSet(f)
<1> HIDE DEF R
<1>3. f \in [1 .. n -> R]
  BY <1>2 DEF R
<1>4. f \in Seq(R) /\ Len(f) = n
  BY <1>3
<1> QED
  BY <1>1, <1>4 DEF R

LEMMA ClustersAre ==
  ASSUME NEW N, NEW S, NEW recorded \in Seq(Rows(N, S)), NEW minimum \in Nat
  PROVE  IsClustered(Clusters(recorded, minimum), Shows(recorded), minimum)
<1> DEFINE keys  == UNION {SignaturesIn(recorded[i].found) : i \in DOMAIN recorded}
           nodes == [key \in keys |->
                       {recorded[i].node : i \in {j \in DOMAIN recorded : key \in SignaturesIn(recorded[j].found)}}]
           large == {key \in DOMAIN nodes : Cardinality(nodes[key]) >= minimum}
           sorted == LargestFirst(large, nodes)
           found == Clusters(recorded, minimum)
           shows == Shows(recorded)
           L == Len(recorded)
<1> SUFFICES IsClustered(found, shows, minimum)
  OBVIOUS
<1>1. L \in Nat /\ DOMAIN recorded = 1 .. L
  BY Lengths
<1>2. found = [i \in DOMAIN sorted |->
                 [signature |-> sorted[i], nodes |-> nodes[sorted[i]],
                  actuals |-> Kept(recorded, sorted[i], "actual"), expecteds |-> Kept(recorded, sorted[i], "expected")]]
  BY DEF Clusters
<1>3. ASSUME NEW i \in DOMAIN recorded
      PROVE  /\ recorded[i].found \in Seq(Observations(S))
             /\ ToSet(recorded[i].found) = {recorded[i].found[j] : j \in DOMAIN recorded[i].found}
  <2>1. recorded[i] \in Rows(N, S)
    BY Lengths
  <2> QED
    BY <2>1 DEF Rows, ToSet
<1>4. \A key : key \in keys <=> \E i \in DOMAIN recorded : \E j \in DOMAIN recorded[i].found :
                                   recorded[i].found[j].signature = key
  BY DEF SignaturesIn
<1>5. \A s : s \in shows <=> \E i \in DOMAIN recorded : \E j \in DOMAIN recorded[i].found :
                                s = <<recorded[i].node, recorded[i].found[j]>>
  <2>1. ASSUME NEW s \in shows
        PROVE  \E i \in DOMAIN recorded : \E j \in DOMAIN recorded[i].found : s = <<recorded[i].node, recorded[i].found[j]>>
    <3>1. PICK i \in DOMAIN recorded : s \in {<<recorded[i].node, o>> : o \in ToSet(recorded[i].found)}
      BY <2>1 DEF Shows
    <3>2. PICK o \in ToSet(recorded[i].found) : s = <<recorded[i].node, o>>
      BY <3>1
    <3>3. PICK j \in DOMAIN recorded[i].found : o = recorded[i].found[j]
      BY <1>3, <3>2
    <3> QED
      BY <3>2, <3>3
  <2>2. ASSUME NEW i \in DOMAIN recorded, NEW j \in DOMAIN recorded[i].found
        PROVE  <<recorded[i].node, recorded[i].found[j]>> \in shows
    <3>1. recorded[i].found[j] \in ToSet(recorded[i].found)
      BY DEF ToSet
    <3> QED
      BY <3>1 DEF Shows
  <2> HIDE DEF shows
  <2> QED
    BY <2>1, <2>2
<1>6. keys = {s[2].signature : s \in shows}
  <2>1. ASSUME NEW key \in keys PROVE key \in {s[2].signature : s \in shows}
    <3>1. PICK i \in DOMAIN recorded : \E j \in DOMAIN recorded[i].found : recorded[i].found[j].signature = key
      BY <1>4, <2>1
    <3>2. PICK j \in DOMAIN recorded[i].found : recorded[i].found[j].signature = key
      BY <3>1
    <3> DEFINE s == <<recorded[i].node, recorded[i].found[j]>>
    <3>3. s \in shows /\ s[2].signature = key
      BY <1>5, <3>2
    <3> HIDE DEF s, shows
    <3> QED
      BY <3>3
  <2>2. ASSUME NEW s \in shows PROVE s[2].signature \in keys
    <3>1. PICK i \in DOMAIN recorded : \E j \in DOMAIN recorded[i].found : s = <<recorded[i].node, recorded[i].found[j]>>
      BY <1>5, <2>2
    <3>2. PICK j \in DOMAIN recorded[i].found : s = <<recorded[i].node, recorded[i].found[j]>>
      BY <3>1
    <3> HIDE DEF keys
    <3> QED
      BY <1>4, <3>2
  <2> HIDE DEF keys, shows
  <2> QED
    BY <2>1, <2>2
<1>7. ASSUME NEW key \in keys PROVE nodes[key] = TestsOf(shows, key) /\ IsFiniteSet(nodes[key])
  <2>1. nodes[key] = {recorded[i].node : i \in {j \in DOMAIN recorded : key \in SignaturesIn(recorded[j].found)}}
    BY <1>7
  <2>2. ASSUME NEW node \in nodes[key] PROVE node \in TestsOf(shows, key)
    <3>1. PICK i \in DOMAIN recorded : key \in SignaturesIn(recorded[i].found) /\ node = recorded[i].node
      BY <2>1, <2>2
    <3>2. PICK j \in DOMAIN recorded[i].found : recorded[i].found[j].signature = key
      BY <3>1 DEF SignaturesIn
    <3> DEFINE s == <<recorded[i].node, recorded[i].found[j]>>
    <3>3. s \in shows /\ s[2].signature = key /\ s[1] = node
      BY <1>5, <3>1, <3>2
    <3> HIDE DEF s, shows
    <3> QED
      BY <3>3 DEF TestsOf
  <2>3. ASSUME NEW node \in TestsOf(shows, key) PROVE node \in nodes[key]
    <3>1. PICK s \in shows : s[2].signature = key /\ node = s[1]
      BY <2>3 DEF TestsOf
    <3>2. PICK i \in DOMAIN recorded : \E j \in DOMAIN recorded[i].found : s = <<recorded[i].node, recorded[i].found[j]>>
      BY <1>5
    <3>3. PICK j \in DOMAIN recorded[i].found : s = <<recorded[i].node, recorded[i].found[j]>>
      BY <3>2
    <3>4. key \in SignaturesIn(recorded[i].found) /\ node = recorded[i].node
      BY <3>1, <3>3 DEF SignaturesIn
    <3> HIDE DEF nodes
    <3> QED
      BY <2>1, <3>4
  <2>4. IsFiniteSet(nodes[key])
    <3> DEFINE f == [i \in 1 .. L |-> recorded[i].node]
               all == {f[i] : i \in 1 .. L}
    <3>1. nodes[key] \in SUBSET all
      BY <1>1, <2>1
    <3>2. IsFiniteSet(all)
      <4> HIDE DEF f, L
      <4> QED
        BY <1>1, RangeIsFinite
    <3> HIDE DEF all, nodes
    <3> QED
      BY <3>1, <3>2, FS_Subset
  <2> HIDE DEF nodes, shows
  <2> QED
    BY <2>2, <2>3, <2>4
<1>8. large = LargeIn(shows, minimum)
  <2>1. DOMAIN nodes = keys
    OBVIOUS
  <2>2. \A key \in keys : nodes[key] = TestsOf(shows, key)
    BY <1>7
  <2> HIDE DEF nodes, keys, shows
  <2> QED
    BY <1>6, <2>1, <2>2 DEF LargeIn
<1>9. IsFiniteSet(keys)
  <2> DEFINE f == [i \in 1 .. L |-> SignaturesIn(recorded[i].found)]
             all == {f[i] : i \in 1 .. L}
  <2>1. IsFiniteSet(all)
    <3> HIDE DEF f, L
    <3> QED
      BY <1>1, RangeIsFinite
  <2>2. ASSUME NEW T \in all PROVE IsFiniteSet(T)
    <3>1. PICK i \in DOMAIN recorded : T = SignaturesIn(recorded[i].found)
      BY <1>1
    <3> DEFINE M == Len(recorded[i].found)
               g == [j \in 1 .. M |-> recorded[i].found[j].signature]
    <3>2. M \in Nat /\ DOMAIN recorded[i].found = 1 .. M
      BY <1>3, Lengths
    <3>3. T = {g[j] : j \in 1 .. M}
      BY <3>1, <3>2 DEF SignaturesIn
    <3>4. IsFiniteSet({g[j] : j \in 1 .. M})
      <4> HIDE DEF M, g
      <4> QED
        BY <3>2, RangeIsFinite
    <3> HIDE DEF g, M
    <3> QED
      BY <3>3, <3>4
  <2>3. keys = UNION all
    BY <1>1
  <2> HIDE DEF all, keys
  <2> QED
    BY <2>1, <2>2, <2>3, FS_UNION
<1>10. large \in SUBSET keys
  OBVIOUS
<1>11. IsFiniteSet(large) /\ AreCounted(nodes, large)
  <2>1. IsFiniteSet(large)
    <3> HIDE DEF large, keys
    <3> QED
      BY <1>9, <1>10, FS_Subset
  <2>2. ASSUME NEW key \in large PROVE Cardinality(nodes[key]) \in Nat
    <3>1. key \in keys
      BY <1>10
    <3>2. IsFiniteSet(nodes[key])
      BY <1>7, <3>1
    <3> HIDE DEF nodes
    <3> QED
      BY <3>2, FS_CardinalityType
  <2> HIDE DEF nodes, large
  <2> QED
    BY <2>1, <2>2 DEF AreCounted
<1>12. Lists(sorted, large, Cardinality(large))
  <2> HIDE DEF large, nodes
  <2> QED
    BY <1>11, LargestFirstIs
<1> DEFINE C == Cardinality(large)
<1>13. C \in Nat
  <2> HIDE DEF large
  <2> QED
    BY <1>11, FS_CardinalityType
<1>14. sorted \in Seq(large) /\ DOMAIN sorted = 1 .. C /\ \A i, j \in 1 .. C : sorted[i] = sorted[j] => i = j
  <2> HIDE DEF large, sorted
  <2> QED
    BY <1>12, Lengths DEF Lists
<1>15. ToSet(sorted) = large
  <2> HIDE DEF large, sorted
  <2>1. IsFiniteSet(ToSet(sorted)) /\ Cardinality(ToSet(sorted)) = C /\ ToSet(sorted) \in SUBSET large
    BY <1>12, <1>13, ListedSize
  <2> QED
    BY <1>11, <2>1, FS_Subset
<1>16. DOMAIN found = 1 .. C /\ found \in Seq(ToSet(found)) /\ Len(found) = C
  <2>1. DOMAIN found = 1 .. C /\ found = [i \in 1 .. C |-> found[i]]
    <3> HIDE DEF C, sorted, nodes, found
    <3> QED
      BY <1>2, <1>14
  <2> HIDE DEF found, C
  <2> QED
    BY <1>13, <2>1, SeqOfValues
<1>17. ASSUME NEW i \in DOMAIN found
       PROVE  /\ found[i].signature = sorted[i] /\ sorted[i] \in large
              /\ IsClusterOf(found[i], shows, found[i].signature)
  <2>1. i \in 1 .. C /\ i \in DOMAIN sorted
    BY <1>14, <1>16
  <2>2. sorted[i] \in large /\ sorted[i] \in keys
    <3>1. sorted[i] \in large
      <4> HIDE DEF large, sorted
      <4> QED
        BY <1>15, <2>1 DEF ToSet
    <3> QED
      BY <1>10, <3>1
  <2>3. /\ found[i].signature = sorted[i] /\ found[i].nodes = nodes[sorted[i]]
        /\ found[i].actuals = Kept(recorded, sorted[i], "actual")
        /\ found[i].expecteds = Kept(recorded, sorted[i], "expected")
    <3> HIDE DEF sorted, nodes, found, C
    <3> QED
      BY <1>2, <2>1
  <2>4. ASSUME NEW side \in Sides, NEW key
        PROVE  IsSample(Kept(recorded, key, side), ValuesOf(shows, key, side))
    <3>1. AllValues(recorded, key, side) = ValuesOf(shows, key, side)
      <4>1. ASSUME NEW v \in AllValues(recorded, key, side) PROVE v \in ValuesOf(shows, key, side)
        <5>1. PICK k \in DOMAIN recorded : v \in ValuesIn(recorded[k].found, key, side)
          BY <4>1 DEF AllValues
        <5>2. PICK j \in DOMAIN recorded[k].found : recorded[k].found[j].signature = key /\ v = recorded[k].found[j][side]
          BY <5>1 DEF ValuesIn
        <5> DEFINE s == <<recorded[k].node, recorded[k].found[j]>>
        <5>3. s \in shows /\ s[2].signature = key /\ s[2][side] = v
          BY <1>5, <5>2
        <5> HIDE DEF s, shows
        <5> QED
          BY <5>3 DEF ValuesOf
      <4>2. ASSUME NEW v \in ValuesOf(shows, key, side) PROVE v \in AllValues(recorded, key, side)
        <5>1. PICK s \in shows : s[2].signature = key /\ v = s[2][side]
          BY <4>2 DEF ValuesOf
        <5>2. PICK k \in DOMAIN recorded : \E j \in DOMAIN recorded[k].found : s = <<recorded[k].node, recorded[k].found[j]>>
          BY <1>5
        <5>3. PICK j \in DOMAIN recorded[k].found : s = <<recorded[k].node, recorded[k].found[j]>>
          BY <5>2
        <5>4. recorded[k].found[j].signature = key /\ v = recorded[k].found[j][side]
          BY <5>1, <5>3
        <5>5. v \in ValuesIn(recorded[k].found, key, side)
          BY <5>4 DEF ValuesIn
        <5> QED
          BY <5>5 DEF AllValues
      <4> HIDE DEF shows
      <4> QED
        BY <4>1, <4>2
    <3>2. IsSample(Kept(recorded, key, side), AllValues(recorded, key, side))
      BY KeptIs
    <3> HIDE DEF shows
    <3> QED
      BY <3>1, <3>2
  <2>5. nodes[sorted[i]] = TestsOf(shows, sorted[i])
    BY <1>7, <2>2
  <2>6. /\ IsSample(Kept(recorded, sorted[i], "actual"), ValuesOf(shows, sorted[i], "actual"))
        /\ IsSample(Kept(recorded, sorted[i], "expected"), ValuesOf(shows, sorted[i], "expected"))
    BY <2>4 DEF Sides
  <2> HIDE DEF sorted, nodes, found, shows, large
  <2> QED
    BY <2>2, <2>3, <2>5, <2>6 DEF IsClusterOf
<1>18. \A key \in large : IsFiniteSet(TestsOf(shows, key))
  <2> SUFFICES ASSUME NEW key \in large PROVE IsFiniteSet(TestsOf(shows, key))
    OBVIOUS
  <2>1. key \in keys
    BY <1>10
  <2>2. nodes[key] = TestsOf(shows, key) /\ IsFiniteSet(nodes[key])
    BY <1>7, <2>1
  <2> HIDE DEF nodes, shows
  <2> QED
    BY <2>2
<1>19. ASSUME NEW key \in large PROVE \E i \in DOMAIN found : found[i].signature = key
  <2>1. PICK i \in DOMAIN sorted : sorted[i] = key
    <3> HIDE DEF sorted, large
    <3> QED
      BY <1>15 DEF ToSet
  <2>2. i \in DOMAIN found
    BY <1>14, <1>16
  <2>3. found[i].signature = key
    BY <1>17, <2>1, <2>2
  <2> HIDE DEF found
  <2> QED
    BY <2>2, <2>3
<1>20. \A i, j \in DOMAIN found : found[i].signature = found[j].signature => i = j
  <2> SUFFICES ASSUME NEW i \in DOMAIN found, NEW j \in DOMAIN found, found[i].signature = found[j].signature PROVE i = j
    OBVIOUS
  <2>1. sorted[i] = sorted[j]
    BY <1>17
  <2> HIDE DEF sorted, found, C
  <2> QED
    BY <1>14, <1>16, <2>1
<1>21. \A i \in DOMAIN found : found[i].signature \in large /\ IsClusterOf(found[i], shows, found[i].signature)
  BY <1>17
<1>22. Cardinality(large) = C
  OBVIOUS
<1> HIDE DEF found, shows, large, sorted, nodes, keys, C
<1> QED
  BY <1>8, <1>11, <1>16, <1>18, <1>19, <1>20, <1>21, <1>22 DEF IsClustered

-----------------------------------------------------------------------------
(* What the summary says of the clusters *)

\* No two headings are one: those that read alike are numbered.
LEMMA HeadingsDiffer ==
  ASSUME NEW n \in Nat, NEW found, DOMAIN found = 1 .. n, NEW i \in 1 .. n, NEW j \in 1 .. n, i # j
  PROVE  Headings(found)[i] # Headings(found)[j]
<1> DEFINE clashes == {k \in DOMAIN found : \E m \in DOMAIN found \ {k} : found[m].signature.where = found[k].signature.where}
           spelled == [k \in DOMAIN found |->
                         <<found[k].signature.where, IF k \in clashes THEN found[k].signature.steps ELSE <<>>>>]
           alike(k) == {m \in 1 .. k : spelled[m] = spelled[k]}
           number(k) == IF \A m \in DOMAIN found \ {k} : spelled[m] # spelled[k] THEN 0 ELSE Cardinality(alike(k))
<1>1. Headings(found) = [k \in DOMAIN found |-> <<spelled[k], number(k)>>]
  BY DEF Headings
<1> HIDE DEF spelled
<1>2. ASSUME NEW k \in 1 .. n, NEW m \in 1 .. n, k < m, spelled[k] = spelled[m]
      PROVE  number(k) # number(m)
  <2>1. number(k) = Cardinality(alike(k)) /\ number(m) = Cardinality(alike(m))
    BY <1>2
  <2>2. alike(k) \in SUBSET alike(m) /\ m \in alike(m) /\ m \notin alike(k)
    BY <1>2
  <2>3. IsFiniteSet(alike(m))
    <3>1. IsFiniteSet(1 .. m)
      BY FS_Interval
    <3>2. alike(m) \in SUBSET (1 .. m)
      OBVIOUS
    <3> HIDE DEF alike
    <3> QED
      BY <3>1, <3>2, FS_Subset
  <2> HIDE DEF number
  <2>4. alike(k) # alike(m)
    BY <2>2
  <2> HIDE DEF alike
  <2> QED
    BY <2>1, <2>2, <2>3, <2>4, FS_Subset
<1>3. /\ Headings(found)[i] = <<spelled[i], number(i)>>
      /\ Headings(found)[j] = <<spelled[j], number(j)>>
  BY <1>1
<1> HIDE DEF number
<1>4. i < j \/ j < i
  OBVIOUS
<1> QED
  BY <1>2, <1>3, <1>4

SaysHonestly(told, shows, reds, minimum) ==
  ~told.silent =>
    /\ \A i \in DOMAIN told.clusters :
         /\ told.clusters[i].size = Cardinality(TestsOf(shows, told.clusters[i].signature)) /\ told.clusters[i].size >= minimum
         /\ HonestSide(told.clusters[i].actual, ValuesOf(shows, told.clusters[i].signature, "actual"))
         /\ HonestSide(told.clusters[i].expected, ValuesOf(shows, told.clusters[i].signature, "expected"))
         /\ \A j \in DOMAIN told.clusters \ {i} : told.headings[i] # told.headings[j]
    /\ Cardinality(LargeIn(shows, minimum)) = Len(told.clusters) + told.omitted
    /\ told.outside = Cardinality(reds \ UNION {TestsOf(shows, key) : key \in LargeIn(shows, minimum)})

LEMMA SilenceIsHonest ==
  ASSUME NEW shows, NEW reds, NEW minimum
  PROVE  SaysHonestly(Silence, shows, reds, minimum)
BY DEF SaysHonestly, Silence

LEMMA RenderedIsHonest ==
  ASSUME NEW found, NEW shows, NEW minimum \in Nat, IsClustered(found, shows, minimum),
         NEW reds, IsFiniteSet(reds), \A s \in shows : s[1] \in reds,
         NEW total, total = Cardinality(reds), NEW lost, NEW unreadable, NEW collectErrors
  PROVE  SaysHonestly(Rendered(found, total, lost, unreadable, collectErrors), shows, reds, minimum)
<1> DEFINE large == LargeIn(shows, minimum)
           C == Len(found)
           M == IF C < MaxClusters THEN C ELSE MaxClusters
           shown == SubSeq(found, 1, M)
           told == Rendered(found, total, lost, unreadable, collectErrors)
           nodes == UNION {found[i].nodes : i \in DOMAIN found}
           tests == UNION {TestsOf(shows, key) : key \in large}
<1> SUFFICES ASSUME found # <<>> PROVE SaysHonestly(told, shows, reds, minimum)
  BY SilenceIsHonest DEF Rendered
<1>1. C \in Nat /\ DOMAIN found = 1 .. C /\ C = Cardinality(large) /\ M \in 0 .. C
  BY Lengths, LimitsAssumption DEF IsClustered
<1>2. Len(shown) = M /\ DOMAIN shown = 1 .. M /\ \A i \in 1 .. M : shown[i] = found[i]
  <2>1. found \in Seq(ToSet(found))
    BY DEF IsClustered
  <2> DEFINE T == ToSet(found)
  <2> HIDE DEF T, M
  <2>2. found \in Seq(T)
    BY <2>1 DEF T
  <2>3. 1 \in 1 .. C + 1 /\ M \in 1 - 1 .. C
    BY <1>1
  <2> QED
    BY <1>1, <2>2, <2>3, SubSeqProperties
<1>3. /\ told.silent = FALSE /\ told.omitted = C - M /\ told.headings = Headings(shown)
      /\ told.clusters = [i \in 1 .. M |->
                            [signature |-> shown[i].signature, size |-> Cardinality(shown[i].nodes),
                             actual |-> Side(shown[i].actuals), expected |-> Side(shown[i].expecteds)]]
      /\ told.outside = total - Cardinality(nodes)
  <2>1. told = [silent |-> FALSE, total |-> total, lost |-> lost, unreadable |-> unreadable,
                collectErrors |-> collectErrors, omitted |-> C - Len(shown), headings |-> Headings(shown),
                clusters |-> [i \in DOMAIN shown |->
                                [signature |-> shown[i].signature, size |-> Cardinality(shown[i].nodes),
                                 actual |-> Side(shown[i].actuals), expected |-> Side(shown[i].expecteds)]],
                outside |-> total - Cardinality(nodes)]
    BY DEF Rendered
  <2> HIDE DEF told, shown, nodes, M
  <2> QED
    BY <1>2, <2>1
<1> HIDE DEF told, shown
<1>4. Len(told.clusters) = M /\ DOMAIN told.clusters = 1 .. M
  <2>1. DOMAIN told.clusters = 1 .. M /\ told.clusters = [i \in 1 .. M |-> told.clusters[i]]
    <3> HIDE DEF M
    <3> QED
      BY <1>3
  <2>2. M \in Nat
    BY <1>1
  <2> HIDE DEF M
  <2> QED
    BY <2>1, <2>2, SeqOfValues
<1>5. ASSUME NEW i \in 1 .. M
      PROVE  /\ told.clusters[i].size = Cardinality(TestsOf(shows, told.clusters[i].signature)) /\ told.clusters[i].size >= minimum
             /\ HonestSide(told.clusters[i].actual, ValuesOf(shows, told.clusters[i].signature, "actual"))
             /\ HonestSide(told.clusters[i].expected, ValuesOf(shows, told.clusters[i].signature, "expected"))
  <2>1. i \in DOMAIN found /\ shown[i] = found[i]
    BY <1>1, <1>2
  <2>2. PICK key \in large : key = found[i].signature
    BY <2>1 DEF IsClustered
  <2>3. IsClusterOf(found[i], shows, key)
    BY <2>1, <2>2 DEF IsClustered
  <2>4. /\ told.clusters[i].signature = key /\ told.clusters[i].size = Cardinality(found[i].nodes)
        /\ told.clusters[i].actual = Side(found[i].actuals) /\ told.clusters[i].expected = Side(found[i].expecteds)
    <3> HIDE DEF M
    <3> QED
      BY <1>3, <2>1, <2>2
  <2>5. found[i].nodes = TestsOf(shows, key) /\ Cardinality(TestsOf(shows, key)) >= minimum
    BY <2>2, <2>3 DEF IsClusterOf, LargeIn
  <2>6. ASSUME NEW side PROVE ValuesOf(shows, key, side) # {}
    <3>1. PICK s \in shows : s[2].signature = key
      BY <2>2 DEF LargeIn
    <3>2. s[2][side] \in ValuesOf(shows, key, side)
      BY <3>1 DEF ValuesOf
    <3> QED
      BY <3>2
  <2>7. HonestSide(Side(found[i].actuals), ValuesOf(shows, key, "actual"))
    BY <2>3, <2>6, SideIsHonest DEF IsClusterOf
  <2>8. HonestSide(Side(found[i].expecteds), ValuesOf(shows, key, "expected"))
    BY <2>3, <2>6, SideIsHonest DEF IsClusterOf
  <2> QED
    BY <2>4, <2>5, <2>7, <2>8
<1>6. ASSUME NEW i \in 1 .. M, NEW j \in (1 .. M) \ {i} PROVE told.headings[i] # told.headings[j]
  <2>1. M \in Nat /\ j \in 1 .. M /\ i # j
    BY <1>1
  <2> HIDE DEF M
  <2>2. Headings(shown)[i] # Headings(shown)[j]
    BY <1>2, <2>1, HeadingsDiffer
  <2> QED
    BY <1>3, <2>2
<1>7. Cardinality(large) = Len(told.clusters) + told.omitted
  <2> HIDE DEF M, C
  <2>1. PICK c \in Nat : c = Cardinality(large)
    BY <1>1
  <2> QED
    BY <1>1, <1>3, <1>4, <2>1
<1>8. nodes = tests
  <2>1. ASSUME NEW x \in nodes PROVE x \in tests
    <3>1. PICK i \in DOMAIN found : x \in found[i].nodes
      BY <2>1
    <3>2. found[i].signature \in large /\ found[i].nodes = TestsOf(shows, found[i].signature)
      BY <3>1 DEF IsClustered, IsClusterOf
    <3> QED
      BY <3>1, <3>2
  <2>2. ASSUME NEW x \in tests PROVE x \in nodes
    <3>1. PICK key \in large : x \in TestsOf(shows, key)
      BY <2>2
    <3>2. PICK i \in DOMAIN found : found[i].signature = key
      BY <3>1 DEF IsClustered
    <3>3. found[i].nodes = TestsOf(shows, key)
      BY <3>2 DEF IsClustered, IsClusterOf
    <3> QED
      BY <3>1, <3>3
  <2> HIDE DEF nodes, tests
  <2> QED
    BY <2>1, <2>2
<1>9. told.outside = Cardinality(reds \ tests)
  <2>1. tests \in SUBSET reds
    BY DEF TestsOf
  <2> HIDE DEF tests, nodes
  <2>2. reds \cap tests = tests
    BY <2>1
  <2>3. Cardinality(reds \ tests) = Cardinality(reds) - Cardinality(reds \cap tests)
    BY FS_Difference
  <2> QED
    BY <1>3, <1>8, <2>2, <2>3
<1> HIDE DEF M
<1> QED
  BY <1>4, <1>5, <1>6, <1>7, <1>9 DEF SaysHonestly

-----------------------------------------------------------------------------
(* What a failure shows *)

SignaturesOf(diff) == {Signature(diff, entry) : entry \in ToSet(diff.entries)}
Keys == UNION {SignaturesOf(k.diff) : k \in Case}

\* A signature as signature() makes one.
IsMade(key) ==
  /\ key = [located |-> key.located, where |-> key.where, steps |-> key.steps, label |-> key.label, values |-> key.values]
  /\ key.located => key.where = RenderPath(key.steps)

LEMMA SignatureIsMade ==
  ASSUME NEW diff, NEW entry
  PROVE  IsMade(Signature(diff, entry))
<1> DEFINE steps == CanonicalSteps(entry)
           named == [NoSignature EXCEPT !.where = <<diff.kind>>]
           values == <<SideOf(entry, "actual"), SideOf(entry, "expected")>>
           key == Signature(diff, entry)
           path == RenderPath(steps)
<1>1. key = IF steps # <<>> THEN [NoSignature EXCEPT !.located = TRUE, !.where = path, !.steps = steps]
            ELSE IF diff.label # NoLabel THEN [named EXCEPT !.label = diff.label]
            ELSE IF diff.kind \notin HoldsValues THEN NoSignature
            ELSE [named EXCEPT !.values = values]
  BY DEF Signature
<1> HIDE DEF key, steps, values, path
<1>2. CASE key = [NoSignature EXCEPT !.located = TRUE, !.where = path, !.steps = steps]
  <2>1. /\ key = [located |-> TRUE, where |-> path, steps |-> steps, label |-> NoLabel, values |-> <<>>]
    BY <1>2 DEF NoSignature
  <2>2. key.steps = steps /\ key.where = path
    BY <2>1
  <2> QED
    BY <2>1, <2>2 DEF IsMade, key, path
<1>3. CASE key = [named EXCEPT !.label = diff.label]
  <2>1. key = [located |-> FALSE, where |-> <<diff.kind>>, steps |-> <<>>, label |-> diff.label, values |-> <<>>]
    BY <1>3 DEF NoSignature
  <2> QED
    BY <2>1 DEF IsMade, key
<1>4. CASE key = NoSignature
  <2>1. key = [located |-> FALSE, where |-> <<>>, steps |-> <<>>, label |-> NoLabel, values |-> <<>>]
    BY <1>4 DEF NoSignature
  <2> QED
    BY <2>1 DEF IsMade, key
<1>5. CASE key = [named EXCEPT !.values = values]
  <2>1. key = [located |-> FALSE, where |-> <<diff.kind>>, steps |-> <<>>, label |-> NoLabel, values |-> values]
    BY <1>5 DEF NoSignature
  <2> QED
    BY <2>1 DEF IsMade, key
<1> QED
  BY <1>1, <1>2, <1>3, <1>4, <1>5

LEMMA ObservationsAre ==
  ASSUME NEW k \in Case
  PROVE  ObservationsOf(k.diff) \in Seq(Observations(Keys))
<1> DEFINE entries == k.diff.entries
           L == Len(entries)
           T == Seq(Observations(Keys))
           Shown1(n) == [signature |-> Signature(k.diff, entries[n]), actual |-> SideOf(entries[n], "actual"),
                         expected |-> SideOf(entries[n], "expected")]
           Skips(s, n) == Signature(k.diff, entries[n]) = NoSignature
                            \/ \E i \in DOMAIN s : s[i].signature = Signature(k.diff, entries[n])
           More(s, n) == IF Skips(s, n) THEN s ELSE Append(s, Shown1(n))
           F(u, n) == IF n = 0 THEN <<>> ELSE More(u[n - 1], n)
           step == [q \in (1 .. L) \X T |-> More(q[2], q[1])]
           P(u) == u = [n \in 0 .. L |-> F(u, n)]
           found == CHOOSE u : P(u)
<1>1. L \in Nat /\ DOMAIN entries = 1 .. L /\ entries \in Seq(ToSet(entries)) /\ \A n \in 1 .. L : entries[n] \in ToSet(entries)
  <2>1. entries \in Seq(ToSet(entries))
    BY DiffAssumption
  <2> HIDE DEF entries
  <2> QED
    BY <2>1, Lengths
<1>2. ASSUME NEW n \in 1 .. L, NEW s \in T PROVE More(s, n) \in T
  <2>1. entries[n].actual \in Nat /\ entries[n].expected \in Nat /\ Absent \in Nat
    BY <1>1, DiffAssumption
  <2>2. SideOf(entries[n], "actual") \in Nat /\ SideOf(entries[n], "expected") \in Nat
    BY <2>1 DEF SideOf
  <2>3. Signature(k.diff, entries[n]) \in Keys
    <3>1. entries[n] \in ToSet(k.diff.entries)
      BY <1>1
    <3>2. Signature(k.diff, entries[n]) \in SignaturesOf(k.diff)
      BY <3>1 DEF SignaturesOf
    <3> QED
      BY <3>2 DEF Keys
  <2>4. Shown1(n) \in Observations(Keys)
    BY <2>2, <2>3 DEF Observations
  <2> HIDE DEF Shown1, Skips
  <2> QED
    BY <2>4
<1>3. step \in [(1 .. L) \X T -> T]
  <2>1. ASSUME NEW q \in (1 .. L) \X T PROVE More(q[2], q[1]) \in T
    <3>1. q[1] \in 1 .. L /\ q[2] \in T
      OBVIOUS
    <3> HIDE DEF More, L, T
    <3> QED
      BY <1>2, <3>1
  <2> HIDE DEF L, T, More
  <2> QED
    BY <2>1
<1>4. PICK f : IsToldUpTo(f, L, T, <<>>, step)
  <2>1. <<>> \in T
    OBVIOUS
  <2> HIDE DEF step, L, T
  <2> QED
    BY <1>1, <1>3, <2>1, UpwardRecursion
<1>5. P(f)
  <2>1. f \in [0 .. L -> T] /\ f[0] = <<>> /\ \A n \in 1 .. L : f[n] = step[<<n, f[n - 1]>>]
    BY <1>4 DEF IsToldUpTo
  <2>2. ASSUME NEW n \in 0 .. L PROVE f[n] = F(f, n)
    <3>1. CASE n = 0
      BY <2>1, <3>1
    <3>2. CASE n # 0
      <4>1. n \in 1 .. L /\ n - 1 \in 0 .. L
        BY <1>1, <3>2
      <4>2. <<n, f[n - 1]>> \in (1 .. L) \X T /\ f[n] = step[<<n, f[n - 1]>>]
        BY <2>1, <4>1
      <4> HIDE DEF L, T, More
      <4> QED
        BY <3>2, <4>2
    <3> QED
      BY <3>1, <3>2
  <2> HIDE DEF F, L, T
  <2>3. f = [n \in 0 .. L |-> F(f, n)]
    BY <2>1, <2>2
  <2> QED
    BY <2>3
<1>6. P(found)
  <2> HIDE DEF P
  <2> QED
    BY <1>5
<1>7. ObservationsOf(k.diff) = found[L]
  BY DEF ObservationsOf
<1> HIDE DEF found
<1>8. found = [n \in 0 .. L |-> F(found, n)]
  BY <1>6
<1>9. ASSUME NEW n \in 0 .. L PROVE found[n] = F(found, n)
  <2> HIDE DEF F, L
  <2> QED
    BY <1>8
<1>10. found[0] = <<>>
  <2>1. 0 \in 0 .. L
    BY <1>1
  <2> HIDE DEF L
  <2> QED
    BY <1>9, <2>1
<1>11. ASSUME NEW n \in 1 .. L PROVE found[n] = More(found[n - 1], n)
  <2>1. n \in 0 .. L /\ n # 0
    BY <1>1
  <2> HIDE DEF More, L
  <2> QED
    BY <1>9, <2>1
<1> DEFINE H == {m \in 0 .. L : found[m] \in T}
<1>12. 0 .. L \subseteq H
  <2>1. 0 \in H
    <3>1. <<>> \in T
      OBVIOUS
    <3> HIDE DEF T, L
    <3> QED
      BY <1>1, <1>10, <3>1
  <2>2. ASSUME NEW n \in 1 .. L, n - 1 \in H PROVE n \in H
    <3>1. found[n - 1] \in T /\ n \in 0 .. L
      BY <1>1, <2>2
    <3>2. More(found[n - 1], n) \in T
      <4> HIDE DEF More, L, T
      <4> QED
        BY <1>2, <3>1
    <3> HIDE DEF L, More, T
    <3> QED
      BY <1>11, <3>1, <3>2
  <2> HIDE DEF H, L
  <2> QED
    BY <1>1, <2>1, <2>2, Upward
<1>13. L \in 0 .. L
  BY <1>1
<1>14. found[L] \in T
  <2> HIDE DEF L, T
  <2> QED
    BY <1>12, <1>13
<1> QED
  BY <1>7, <1>14

-----------------------------------------------------------------------------
(* The invariant of the clusters *)

\* What the tests of a process showed, and what is shown under the name of its process.
ShownBy(p) ==
  UNION {{<<one.case.test, o>> : o \in ToSet(ObservationsOf(one.case.diff))} : one \in {r \in Ran(p) : r.case.fails}}
Named(p, shows) == {<<<<p, s[1]>>, s[2]>> : s \in shows}
Showing == UNION {UNION {{<<<<p, one.case.test>>, o>> : o \in ToSet(ObservationsOf(one.case.diff))} :
                            one \in {r \in Ran(p) : r.case.fails}} : p \in Read}

\* The failures the controller grouped are what its workers showed that it could read.
GroupedFrom == Shows(collected.failures) = UNION {Named(w, ShownBy(w)) : w \in Clear}

ClusterNoted(p) == Shows(failures[p]) = ShownBy(p) /\ \A r \in Ran(p) : r.case.fails => r.red
ClusterShips(w) == wire[w].present /\ Readable(wire[w].failed) => wire[w].failed.failures = failures[w]

ClusterInv ==
  /\ collected.failures \in Seq(Rows(Process \X Test, Keys)) /\ GroupedFrom
  /\ \A p \in Process : ClusterNoted(p)
  /\ \A w \in Worker : ClusterShips(w)
  /\ ClustersAreHonest

LEMMA ClustersMeans ==
  ClustersAreHonest <=> (Over => SaysHonestly(summary, Showing, RedTests, Minimum))
BY DEF ClustersAreHonest, SaysHonestly, Showing, TestsOf, ValuesOf, LargeIn

LEMMA ShownAre == Shown \subseteq Rows(Test, Keys)
<1> SUFFICES ASSUME NEW one \in Shown PROVE one \in Rows(Test, Keys)
  OBVIOUS
<1>1. one = [node |-> one.node, found |-> one.found] /\ one.node \in Test
  BY DEF Shown
<1>2. PICK k \in Case : one.found = ObservationsOf(k.diff)
  BY DEF Shown
<1>3. one.found \in Seq(Observations(Keys))
  BY <1>2, ObservationsAre
<1> QED
  BY <1>1, <1>3 DEF Rows

LEMMA FailuresAre ==
  ASSUME Types, NEW p \in Process
  PROVE  failures[p] \in Seq(Shown) /\ failures[p] \in Seq(Rows(Test, Keys))
<1>1. failures[p] \in Seq(Shown)
  BY DEF Types
<1>2. \A i \in DOMAIN failures[p] : failures[p][i] \in Rows(Test, Keys)
  BY <1>1, Lengths, ShownAre
<1> HIDE DEF Rows
<1> QED
  BY <1>1, <1>2

LEMMA ShowsNone == Shows(<<>>) = {}
BY DEF Shows

\* What each of a sequence shows.
LEMMA ShowsIs ==
  ASSUME NEW seq, NEW s
  PROVE  s \in Shows(seq) <=> \E i \in DOMAIN seq : \E o \in ToSet(seq[i].found) : s = <<seq[i].node, o>>
BY DEF Shows

LEMMA ShowsTogether ==
  ASSUME NEW T, NEW s \in Seq(T), NEW r \in Seq(T)
  PROVE  Shows(s \o r) = Shows(s) \cup Shows(r)
<1> DEFINE both == s \o r
           n == Len(s)
           m == Len(r)
           Of(seq, i) == {<<seq[i].node, o>> : o \in ToSet(seq[i].found)}
<1>1. /\ both \in Seq(T) /\ n \in Nat /\ m \in Nat
      /\ DOMAIN s = 1 .. n /\ DOMAIN r = 1 .. m /\ DOMAIN both = 1 .. n + m
      /\ \A i \in 1 .. n : both[i] = s[i]
      /\ \A i \in 1 .. m : both[n + i] = r[i]
  OBVIOUS
<1> HIDE DEF both, n, m
<1>2. \A i \in 1 .. n : Of(both, i) = Of(s, i)
  BY <1>1
<1>3. \A i \in 1 .. m : Of(both, n + i) = Of(r, i)
  BY <1>1
<1>4. \A i \in 1 .. n + m : i \in 1 .. n \/ \E j \in 1 .. m : i = n + j
  <2> SUFFICES ASSUME NEW i \in 1 .. n + m, ~(i \in 1 .. n) PROVE \E j \in 1 .. m : i = n + j
    OBVIOUS
  <2>1. i - n \in 1 .. m /\ i = n + (i - n)
    BY <1>1
  <2> QED
    BY <2>1
<1>5. (\A i \in 1 .. n : i \in 1 .. n + m) /\ (\A i \in 1 .. m : n + i \in 1 .. n + m)
  BY <1>1
<1>6. Shows(both) = UNION {Of(both, i) : i \in 1 .. n + m} /\ Shows(s) = UNION {Of(s, i) : i \in 1 .. n}
      /\ Shows(r) = UNION {Of(r, i) : i \in 1 .. m}
  BY <1>1 DEF Shows
<1> HIDE DEF Of
<1> QED
  BY <1>2, <1>3, <1>4, <1>5, <1>6 DEF both

LEMMA ShowsOneMore ==
  ASSUME NEW T, NEW seq \in Seq(T), NEW one \in T
  PROVE  Shows(Append(seq, one)) = Shows(seq) \cup {<<one.node, o>> : o \in ToSet(one.found)}
<1>1. Append(seq, one) = seq \o <<one>> /\ <<one>> \in Seq(T)
  OBVIOUS
<1>2. Shows(<<one>>) = {<<one.node, o>> : o \in ToSet(one.found)}
  BY DEF Shows
<1> DEFINE last == <<one>>
<1>3. Shows(seq \o last) = Shows(seq) \cup Shows(last)
  <2>1. last \in Seq(T)
    BY <1>1
  <2> HIDE DEF last
  <2> QED
    BY <2>1, ShowsTogether
<1> QED
  BY <1>1, <1>2, <1>3

\* A sequence whose nodes are renamed shows the same, under the new names.
Renamed(p, seq) == [i \in DOMAIN seq |-> [seq[i] EXCEPT !.node = <<p, @>>]]

LEMMA ShowsRenamed ==
  ASSUME NEW S, NEW seq \in Seq(Rows(Test, S)), NEW p
  PROVE  /\ Renamed(p, seq) \in Seq(Rows({p} \X Test, S))
         /\ Shows(Renamed(p, seq)) = Named(p, Shows(seq))
<1> DEFINE n == Len(seq)
           renamed == Renamed(p, seq)
<1> SUFFICES renamed \in Seq(Rows({p} \X Test, S)) /\ Shows(renamed) = Named(p, Shows(seq))
  OBVIOUS
<1>1. n \in Nat /\ DOMAIN seq = 1 .. n /\ \A i \in 1 .. n : seq[i] \in Rows(Test, S)
  BY Lengths
<1>2. DOMAIN renamed = 1 .. n /\ renamed = [i \in 1 .. n |-> [seq[i] EXCEPT !.node = <<p, @>>]]
  BY <1>1 DEF Renamed
<1> HIDE DEF renamed
<1>3. ASSUME NEW i \in 1 .. n
      PROVE  renamed[i] \in Rows({p} \X Test, S) /\ renamed[i].node = <<p, seq[i].node>> /\ renamed[i].found = seq[i].found
  <2>1. seq[i] \in Rows(Test, S) /\ renamed[i] = [seq[i] EXCEPT !.node = <<p, @>>]
    BY <1>1, <1>2
  <2>2. seq[i].node \in Test /\ seq[i].found \in Seq(Observations(S))
    BY <2>1 DEF Rows
  <2>3. renamed[i] = [node |-> <<p, seq[i].node>>, found |-> seq[i].found]
    BY <2>1 DEF Rows
  <2> QED
    BY <2>2, <2>3 DEF Rows
<1>4. renamed \in Seq(Rows({p} \X Test, S))
  <2> DEFINE R == Rows({p} \X Test, S)
  <2> HIDE DEF R, n
  <2>1. renamed \in [1 .. n -> R]
    BY <1>1, <1>2, <1>3 DEF R
  <2>2. renamed \in Seq(R)
    BY <1>1, <2>1
  <2> QED
    BY <2>2 DEF R
<1>5. ASSUME NEW s PROVE s \in Shows(renamed) <=> s \in Named(p, Shows(seq))
  <2>1. ASSUME s \in Shows(renamed) PROVE s \in Named(p, Shows(seq))
    <3>0. s \in Shows(renamed) <=> \E i \in DOMAIN renamed : \E o \in ToSet(renamed[i].found) : s = <<renamed[i].node, o>>
      BY ShowsIs, Zenon
    <3>1. PICK i \in DOMAIN renamed : \E o \in ToSet(renamed[i].found) : s = <<renamed[i].node, o>>
      BY <2>1, <3>0, Zenon
    <3>2. PICK o \in ToSet(renamed[i].found) : s = <<renamed[i].node, o>>
      BY <3>1
    <3>3. i \in DOMAIN seq /\ renamed[i].node = <<p, seq[i].node>> /\ renamed[i].found = seq[i].found
      BY <1>1, <1>2, <1>3
    <3> DEFINE z == <<seq[i].node, o>>
    <3>4. z \in Shows(seq)
      BY <3>2, <3>3, ShowsIs
    <3>5. s = <<<<p, z[1]>>, z[2]>>
      BY <3>2, <3>3
    <3> HIDE DEF z
    <3> QED
      BY <3>4, <3>5 DEF Named
  <2>2. ASSUME s \in Named(p, Shows(seq)) PROVE s \in Shows(renamed)
    <3>1. PICK z \in Shows(seq) : s = <<<<p, z[1]>>, z[2]>>
      BY <2>2 DEF Named
    <3>2. PICK i \in DOMAIN seq : \E o \in ToSet(seq[i].found) : z = <<seq[i].node, o>>
      BY <3>1, ShowsIs
    <3>3. PICK o \in ToSet(seq[i].found) : z = <<seq[i].node, o>>
      BY <3>2
    <3>4. i \in DOMAIN renamed /\ renamed[i].node = <<p, seq[i].node>> /\ renamed[i].found = seq[i].found
      BY <1>1, <1>2, <1>3
    <3>5. s = <<renamed[i].node, o>>
      BY <3>1, <3>3, <3>4
    <3> QED
      BY <3>3, <3>4, <3>5, ShowsIs
  <2> QED
    BY <2>1, <2>2
<1>6. Shows(renamed) = Named(p, Shows(seq))
  BY <1>5
<1> QED
  BY <1>4, <1>6

-----------------------------------------------------------------------------
(* What no step of another touches of the clusters *)

LEMMA ClusterNotedStays ==
  ASSUME NEW p \in Process, ClusterNoted(p), done'[p] = done[p], failures'[p] = failures[p]
  PROVE  ClusterNoted(p)' /\ ShownBy(p)' = ShownBy(p)
BY DEF ClusterNoted, ShownBy, Ran, Shows

LEMMA ClusterShipsStays ==
  ASSUME NEW w \in Worker, ClusterShips(w), wire'[w] = wire[w],
         wire[w].present => failures'[w] = failures[w]
  PROVE  ClusterShips(w)'
BY DEF ClusterShips, Readable

LEMMA GroupedStays ==
  ASSUME GroupedFrom, Down' = Down, collected'.failures = collected.failures,
         \A w \in Down : wire'[w] = wire[w] /\ done'[w] = done[w]
  PROVE  GroupedFrom'
<1>1. Clear' = Clear
  <2>1. Got' = Got
    BY DEF Got
  <2>2. \A w \in Got : Readable(wire[w].failed)' <=> Readable(wire[w].failed)
    <3> SUFFICES ASSUME NEW w \in Got PROVE Readable(wire[w].failed)' <=> Readable(wire[w].failed)
      OBVIOUS
    <3>1. wire'[w] = wire[w]
      BY DEF Got
    <3> QED
      BY <3>1 DEF Readable
  <2> QED
    BY <2>1, <2>2 DEF Clear
<1>2. \A w \in Clear : ShownBy(w)' = ShownBy(w)
  BY DEF ShownBy, Ran, Clear, Got
<1>3. Shows(collected.failures)' = Shows(collected.failures)
  BY DEF Shows
<1>4. (UNION {Named(w, ShownBy(w)) : w \in Clear})' = UNION {Named(w, ShownBy(w)) : w \in Clear}
  BY <1>1, <1>2 DEF Named
<1> QED
  BY <1>3, <1>4 DEF GroupedFrom

LEMMA NothingGrouped ==
  ASSUME ~Over'
  PROVE  ClustersAreHonest'
BY DEF ClustersAreHonest, Over

LEMMA ClustersStay ==
  ASSUME ClustersAreHonest, UNCHANGED <<parallel, phase[Controller], done, wire, summary>>
  PROVE  ClustersAreHonest'
<1>1. Read' = Read
  BY DEF Heard, Read, Readable
<1>2. RedTests' = RedTests /\ Showing' = Showing
  BY <1>1 DEF RedTests, Showing, Ran
<1>3. (ClustersAreHonest <=> (Over => SaysHonestly(summary, Showing, RedTests, Minimum)))'
  BY ClustersMeans, PTL
<1>4. SaysHonestly(summary, Showing, RedTests, Minimum)' = SaysHonestly(summary, Showing, RedTests, Minimum)
  BY <1>2 DEF SaysHonestly
<1> QED
  BY <1>3, <1>4, ClustersMeans DEF Over

-----------------------------------------------------------------------------
(* The steps of the clusters *)

LEMMA InitClusters == Init => ClusterInv
<1> SUFFICES ASSUME Init PROVE ClusterInv
  OBVIOUS
<1>1. collected.failures = <<>> /\ \A p \in Process : failures[p] = <<>> /\ done[p] = <<>>
  BY DEF Init, NothingCollected
<1>2. \A p \in Process : Ran(p) = {} /\ ShownBy(p) = {}
  BY <1>1 DEF Ran, ShownBy
<1>3. \A p \in Process : ClusterNoted(p)
  BY <1>1, <1>2, ShowsNone DEF ClusterNoted
<1>4. \A w \in Worker : ClusterShips(w)
  BY DEF Init, ClusterShips, NoWire
<1>5. Clear = {}
  <2>1. Got = {}
    BY DEF Init, Got, Down, NoWire
  <2> QED
    BY <2>1 DEF Clear
<1>6. GroupedFrom
  <2>1. UNION {Named(w, ShownBy(w)) : w \in Clear} = {}
    BY <1>5
  <2> QED
    BY <1>1, <2>1, ShowsNone DEF GroupedFrom
<1>7. ClustersAreHonest
  <2>1. ~Over
    BY SessionAssumption DEF Init, Over, Process
  <2> QED
    BY <2>1 DEF ClustersAreHonest
<1>8. collected.failures \in Seq(Rows(Process \X Test, Keys))
  BY <1>1
<1> QED
  BY <1>3, <1>4, <1>6, <1>7, <1>8 DEF ClusterInv

LEMMA UserEditsClusters == ASSUME ClusterInv, NEW file, UserEdits(file) PROVE ClusterInv'
<1> USE DEF UserEdits, held, result
<1>1. Down' = Down /\ collected' = collected
  BY DEF Down
<1>2. GroupedFrom'
  BY <1>1, GroupedStays DEF ClusterInv
<1>3. \A p \in Process : ClusterNoted(p)'
  BY ClusterNotedStays DEF ClusterInv
<1>4. \A w \in Worker : ClusterShips(w)'
  BY ClusterShipsStays DEF ClusterInv
<1>5. ClustersAreHonest'
  BY ClustersStay DEF ClusterInv
<1> QED
  BY <1>1, <1>2, <1>3, <1>4, <1>5 DEF ClusterInv

LEMMA CollectFailsClusters == ASSUME SessionInv, ClusterInv, CollectFails PROVE ClusterInv'
<1> USE DEF CollectFails, held, result, history
<1>1. Down' = Down
  BY DEF Down
<1>2. collected'.failures = collected.failures
  BY DEF SessionInv, Types, Fields
<1>3. GroupedFrom'
  BY <1>1, <1>2, GroupedStays DEF ClusterInv
<1>4. \A p \in Process : ClusterNoted(p)'
  BY ClusterNotedStays DEF ClusterInv
<1>5. \A w \in Worker : ClusterShips(w)'
  BY ClusterShipsStays DEF ClusterInv
<1>6. ClustersAreHonest'
  BY ClustersStay DEF ClusterInv
<1> QED
  BY <1>2, <1>3, <1>4, <1>5, <1>6 DEF ClusterInv

LEMMA DiesClusters == ASSUME SessionInv, ClusterInv, NEW w \in Worker, Dies(w) PROVE ClusterInv'
<1> USE DEF Dies, held, result, history
<1>1. Down' = Down /\ collected' = collected
  BY Apart DEF Down, SessionInv, Types
<1>2. GroupedFrom'
  BY <1>1, GroupedStays DEF ClusterInv
<1>3. \A p \in Process : ClusterNoted(p)'
  BY ClusterNotedStays DEF ClusterInv
<1>4. \A v \in Worker : ClusterShips(v)'
  BY ClusterShipsStays DEF ClusterInv
<1>5. ClustersAreHonest'
  <2>1. phase'[Controller] = phase[Controller]
    BY Apart DEF SessionInv, Types
  <2> QED
    BY <2>1, ClustersStay DEF ClusterInv
<1> QED
  BY <1>1, <1>2, <1>3, <1>4, <1>5 DEF ClusterInv

LEMMA PutBack ==
  ASSUME NEW T, NEW s \in Seq(T), NEW i \in DOMAIN s
  PROVE  [s EXCEPT ![i] = s[i]] = s
OBVIOUS

\* Of the failures of another version, those that can be read are as they were shipped.
LEMMA GarbledFailures ==
  ASSUME NEW w \in Worker, Types, NEW g,
         LET true == [present |-> TRUE, failures |-> failures[w], count |-> Cardinality(failed[w]), isCount |-> TRUE]
         IN  g \in {true} \cup Garbled(true),
         Readable(g)
  PROVE  g.failures = failures[w]
<1> DEFINE true == [present |-> TRUE, failures |-> failures[w], count |-> Cardinality(failed[w]), isCount |-> TRUE]
           F == failures[w]
<1>1. CASE g = true
  BY <1>1
<1>2. CASE g = [present |-> FALSE]
  BY <1>2 DEF Readable
<1>3. CASE g = [true EXCEPT !.isCount = FALSE]
  <2>1. ~g.isCount
    BY <1>3
  <2> QED
    BY <2>1 DEF Readable
<1>4. CASE \E n : g = [true EXCEPT !.count = n]
  BY <1>4
<1>5. ASSUME NEW i \in DOMAIN F, F[i].found[1].signature.located,
             g = [true EXCEPT !.failures[i].found[1].signature.where = <<"nowhere">>]
      PROVE  g.failures = F
  <2> DEFINE row == F[i]
             found == row.found
             one == found[1]
             key == one.signature
             nowhere == <<"nowhere">>
             key2 == [key EXCEPT !.where = nowhere]
             one2 == [one EXCEPT !.signature = key2]
             found2 == [found EXCEPT ![1] = one2]
             row2 == [row EXCEPT !.found = found2]
  <2>1. g.failures = [F EXCEPT ![i] = row2]
    BY <1>5
  <2>2. F \in Seq(Rows(Test, Keys)) /\ row \in Rows(Test, Keys) /\ found \in Seq(Observations(Keys))
    <3>1. F \in Seq(Rows(Test, Keys))
      BY FailuresAre, Apart
    <3>2. row \in Rows(Test, Keys)
      BY <3>1, Lengths
    <3> QED
      BY <3>1, <3>2 DEF Rows
  <2>3. CASE 1 \notin DOMAIN found
    <3>1. found2 = found
      <4> HIDE DEF one2, found
      <4> QED
        BY <2>2, <2>3
    <3>2. row2 = row
      <4> HIDE DEF found2, row
      <4> QED
        BY <2>2, <3>1 DEF Rows
    <3>3. F \in Seq(Rows(Test, Keys)) /\ i \in DOMAIN F /\ F[i] = row2
      BY <1>5, <2>2, <3>2
    <3> HIDE DEF row2, F
    <3>4. [F EXCEPT ![i] = row2] = F
      BY <3>3, PutBack
    <3> QED
      BY <2>1, <3>4
  <2>4. CASE 1 \in DOMAIN found
    <3>1. one \in Observations(Keys) /\ key \in Keys
      <4>1. one \in Observations(Keys)
        <5> HIDE DEF found
        <5> QED
          BY <2>2, <2>4, Lengths
      <4> HIDE DEF one
      <4> QED
        BY <4>1 DEF Observations
    <3>2. IsMade(key)
      <4>1. PICK k \in Case : key \in SignaturesOf(k.diff)
        BY <3>1 DEF Keys
      <4>2. PICK entry \in ToSet(k.diff.entries) : key = Signature(k.diff, entry)
        BY <4>1 DEF SignaturesOf
      <4> HIDE DEF key
      <4> QED
        BY <4>2, SignatureIsMade
    <3>3. i \in DOMAIN g.failures /\ 1 \in DOMAIN g.failures[i].found /\ g.failures[i].found[1].signature = key2
      <4>1. row2.found = found2 /\ one2.signature = key2
        <5> HIDE DEF row, one, key2, found2
        <5> QED
          BY <2>2, <3>1 DEF Rows, Observations
      <4>2. found2[1] = one2 /\ 1 \in DOMAIN found2
        <5> HIDE DEF found, one2
        <5> QED
          BY <2>2, <2>4
      <4>3. i \in DOMAIN g.failures /\ g.failures[i] = row2
        <5> HIDE DEF row2, F
        <5> QED
          BY <1>5, <2>1
      <4> HIDE DEF found2, row2, one2, key2, row, found, one, key
      <4> QED
        BY <4>1, <4>2, <4>3
    <3>4. IsWellFormed(key2)
      <4> HIDE DEF key2, F
      <4> QED
        BY <3>3 DEF Readable
    <3>5. key2.located = key.located /\ key2.steps = key.steps /\ key2.where = nowhere /\ key.located
      <4>1. key = [located |-> key.located, where |-> key.where, steps |-> key.steps, label |-> key.label, values |-> key.values]
        BY <3>2 DEF IsMade
      <4>2. key.located
        BY <1>5
      <4> HIDE DEF key
      <4> QED
        BY <4>1, <4>2
    <3>6. nowhere = key.where
      <4>1. key.where = RenderPath(key.steps)
        BY <3>2, <3>5 DEF IsMade
      <4>2. key2.where = RenderPath(key2.steps)
        BY <3>4, <3>5 DEF IsWellFormed
      <4> HIDE DEF key, key2, nowhere
      <4> QED
        BY <3>5, <4>1, <4>2
    <3>7. key2 = key
      <4>1. key = [located |-> key.located, where |-> key.where, steps |-> key.steps, label |-> key.label, values |-> key.values]
        BY <3>2 DEF IsMade
      <4> HIDE DEF key, nowhere
      <4> QED
        BY <3>6, <4>1
    <3>8. one2 = one
      <4> HIDE DEF key2, one
      <4> QED
        BY <3>1, <3>7 DEF Observations
    <3>9. found2 = found
      <4> HIDE DEF one2, found
      <4> QED
        BY <2>2, <2>4, <3>8
    <3>10. row2 = row
      <4> HIDE DEF found2, row
      <4> QED
        BY <2>2, <3>9 DEF Rows
    <3>11. [F EXCEPT ![i] = row2] = F
      <4> HIDE DEF row2, F
      <4> QED
        BY <1>5, <2>2, <3>10, SMTT(30)
    <3> QED
      BY <2>1, <3>11
  <2> QED
    BY <2>3, <2>4
<1>6. true.failures = F
  OBVIOUS
<1>7. g = true \/ g \in Garbled(true)
  OBVIOUS
<1> HIDE DEF true
<1>8. CASE g \in Garbled(true)
  <2> DEFINE nodes == {F[i].node : i \in DOMAIN F}
  <2>1. g \in {[true EXCEPT !.count = n] : n \in 0 .. Cardinality(nodes) - 1} => g.failures = F
    BY <1>4
  <2>2. g \in {[true EXCEPT !.failures[i].found[1].signature.where = <<"nowhere">>] :
                 i \in {j \in DOMAIN F : F[j].found[1].signature.located}} => g.failures = F
    BY <1>5
  <2>3. g \in {[present |-> FALSE], [true EXCEPT !.isCount = FALSE]} => g.failures = F
    BY <1>2, <1>3
  <2> QED
    BY <1>6, <1>8, <2>1, <2>2, <2>3 DEF Garbled
<1> QED
  BY <1>1, <1>7, <1>8

LEMMA FinishesClusters == ASSUME SessionInv, ClusterInv, NEW w \in Worker, Finishes(w) PROVE ClusterInv'
<1> USE DEF Finishes, held, result, history
<1>0. parallel /\ ~Finished /\ w # Controller /\ w \in Process
  BY Apart DEF SessionInv, Types, Roles
<1>a. PICK shipped :
        /\ LET true == [present |-> TRUE, failures |-> failures[w], count |-> Cardinality(failed[w]), isCount |-> TRUE]
           IN  shipped \in {true} \cup Garbled(true)
        /\ wire' = [wire EXCEPT ![w] = [present |-> TRUE, failed |-> shipped, inline |-> Shipped(seen[w]),
                                        retried |-> retried[w], accesses |-> accesses[w]]]
  OBVIOUS
<1>b. wire'[w].failed = shipped /\ \A v \in Worker : v # w => wire'[v] = wire[v]
  BY <1>a DEF SessionInv, Types
<1>1. Down' = Down /\ w \notin Down /\ collected' = collected
  BY <1>0, Apart DEF Down, SessionInv, Types
<1>2. GroupedFrom'
  <2>1. \A v \in Down : wire'[v] = wire[v]
    BY <1>1, <1>b DEF Down
  <2> QED
    BY <1>1, <2>1, GroupedStays DEF ClusterInv
<1>3. \A p \in Process : ClusterNoted(p)'
  BY ClusterNotedStays DEF ClusterInv
<1>4. ClusterShips(w)'
  <2>1. Readable(shipped) => shipped.failures = failures[w]
    BY <1>a, GarbledFailures DEF SessionInv
  <2>2. Readable(wire'[w].failed) => wire'[w].failed.failures = failures'[w]
    BY <1>b, <2>1
  <2> QED
    BY <2>2 DEF ClusterShips, Readable
<1>5. \A v \in Worker : ClusterShips(v)'
  BY <1>4, <1>b, ClusterShipsStays DEF ClusterInv
<1>6. ClustersAreHonest'
  <2>1. ~Over'
    BY <1>0, Apart DEF SessionInv, Types, Over, Finished
  <2> QED
    BY <2>1, NothingGrouped
<1> QED
  BY <1>1, <1>2, <1>3, <1>5, <1>6 DEF ClusterInv

LEMMA RunPhaseClusters ==
  ASSUME SessionInv, ClusterInv, NEW p \in Process, NEW k \in suite.tests, NEW found \in BOOLEAN, RunPhase(p, k, found)
  PROVE  ClusterInv'
<1> DEFINE inline == IF k.reach = NoReach THEN "none" ELSE Outcome(k.reach, found)
           red    == k.fails \/ inline = "raises" \/ (IsWarned(At(accesses[p], k.key, {}), k) /\ Escalated)
           r      == [case |-> k, red |-> red, recorded |-> inline = "records"]
           shown  == {<<k.test, o>> : o \in ToSet(ObservationsOf(k.diff))}
           added  == IF k.fails THEN shown ELSE {}
<1>1. /\ phase[p] = "running" /\ phase' = phase /\ parallel' = parallel /\ wire' = wire /\ collected' = collected
      /\ failures' = IF red THEN [failures EXCEPT ![p] = ForClustering(@, k)] ELSE failures
      /\ done' = [done EXCEPT ![p] = Append(@, r)]
  BY DEF RunPhase
<1>2. k \in Case /\ k.fails \in BOOLEAN /\ k.test \in Test /\ (k.fails => red) /\ r.case = k /\ r.red = red
  BY SessionAssumption DEF SessionInv, Types, Test
<1> HIDE DEF red, inline
<1>3. /\ done'[p] = Append(done[p], r) /\ failures'[p] = IF red THEN ForClustering(failures[p], k) ELSE failures[p]
      /\ \A q \in Process : q # p => done'[q] = done[q] /\ failures'[q] = failures[q]
  BY <1>1 DEF SessionInv, Types
<1> HIDE DEF r
<1>4. Ran(p)' = Ran(p) \cup {r}
  <2> DEFINE old == done[p]
             new == done'[p]
             n == Len(old)
  <2>1. old \in Seq(Done)
    BY DEF SessionInv, Types
  <2>2. n \in Nat /\ DOMAIN old = 1 .. n
    BY <2>1, Lengths
  <2>3. DOMAIN new = 1 .. n + 1 /\ (\A i \in 1 .. n : new[i] = old[i]) /\ new[n + 1] = r
    <3>1. new = Append(old, r)
      BY <1>3
    <3> HIDE DEF old, new
    <3> QED
      BY <2>1, <3>1
  <2>4. Ran(p) = {old[i] : i \in DOMAIN old} /\ Ran(p)' = {new[i] : i \in DOMAIN new}
    BY DEF Ran
  <2>5. 1 .. n + 1 = (1 .. n) \cup {n + 1}
    BY <2>2
  <2> HIDE DEF old, new, n
  <2> QED
    BY <2>2, <2>3, <2>4, <2>5
<1>5. ShownBy(p)' = ShownBy(p) \cup added
  <2> DEFINE Of(one) == {<<one.case.test, o>> : o \in ToSet(ObservationsOf(one.case.diff))}
  <2>1. ShownBy(p) = UNION {Of(one) : one \in {x \in Ran(p) : x.case.fails}}
    BY DEF ShownBy
  <2>2. ShownBy(p)' = UNION {Of(one) : one \in {x \in Ran(p)' : x.case.fails}}
    BY DEF ShownBy
  <2>3. Of(r) = shown
    BY <1>2
  <2> HIDE DEF Of, shown
  <2> QED
    BY <1>2, <1>4, <2>1, <2>2, <2>3
<1>6. Shows(failures'[p]) = Shows(failures[p]) \cup added
  <2>1. CASE ~k.fails
    <3>1. failures'[p] = failures[p]
      BY <1>3, <2>1 DEF ForClustering
    <3> QED
      BY <2>1, <3>1
  <2>2. CASE k.fails
    <3>1. failures'[p] = IF ObservationsOf(k.diff) = <<>> THEN failures[p]
                         ELSE Append(failures[p], [node |-> k.test, found |-> ObservationsOf(k.diff)])
      BY <1>2, <1>3, <2>2 DEF ForClustering
    <3>2. CASE ObservationsOf(k.diff) = <<>>
      <4>1. shown = {}
        BY <3>2 DEF ToSet
      <4> QED
        BY <2>2, <3>1, <3>2, <4>1
    <3>3. CASE ObservationsOf(k.diff) # <<>>
      <4> DEFINE one == [node |-> k.test, found |-> ObservationsOf(k.diff)]
      <4>1. one \in Shown /\ one.node = k.test /\ one.found = ObservationsOf(k.diff)
        BY <1>2 DEF Shown
      <4>2. failures[p] \in Seq(Shown)
        BY FailuresAre DEF SessionInv
      <4>3. failures'[p] = Append(failures[p], one)
        BY <3>1, <3>3
      <4> HIDE DEF one
      <4>4. Shows(Append(failures[p], one)) = Shows(failures[p]) \cup {<<one.node, o>> : o \in ToSet(one.found)}
        BY <4>1, <4>2, ShowsOneMore
      <4> QED
        BY <2>2, <4>1, <4>3, <4>4
    <3> QED
      BY <3>2, <3>3
  <2> QED
    BY <1>2, <2>1, <2>2
<1>7. ClusterNoted(p)'
  <2>1. Shows(failures[p])' = ShownBy(p)'
    <3>1. Shows(failures[p])' = Shows(failures'[p])
      BY DEF Shows
    <3>2. Shows(failures[p]) = ShownBy(p)
      BY DEF ClusterInv, ClusterNoted
    <3> HIDE DEF added
    <3> QED
      BY <1>5, <1>6, <3>1, <3>2
  <2>2. \A x \in Ran(p)' : x.case.fails => x.red
    BY <1>2, <1>4 DEF ClusterInv, ClusterNoted
  <2> QED
    BY <2>1, <2>2 DEF ClusterNoted
<1>8. \A q \in Process : ClusterNoted(q)'
  <2> SUFFICES ASSUME NEW q \in Process, q # p PROVE ClusterNoted(q)'
    BY <1>7
  <2> QED
    BY <1>3, ClusterNotedStays DEF ClusterInv
<1>9. ~Finished /\ ~Over' /\ p \notin Down /\ (p \in Worker => ~wire[p].present)
  BY <1>1, Apart DEF SessionInv, Types, Roles, Finished, Process, Over, Down
<1>10. GroupedFrom'
  <2>1. Down' = Down /\ \A w \in Down : w \in Process /\ w # p
    BY <1>1, <1>9, Apart DEF Down, SessionInv
  <2> QED
    BY <1>1, <1>3, <2>1, GroupedStays DEF ClusterInv
<1>11. \A w \in Worker : ClusterShips(w)'
  <2> SUFFICES ASSUME NEW w \in Worker PROVE ClusterShips(w)'
    OBVIOUS
  <2>1. wire[w].present => failures'[w] = failures[w]
    BY <1>3, <1>9, Apart DEF SessionInv
  <2> QED
    BY <1>1, <2>1, ClusterShipsStays DEF ClusterInv
<1>12. ClustersAreHonest'
  BY <1>9, NothingGrouped
<1> QED
  BY <1>1, <1>8, <1>10, <1>11, <1>12 DEF ClusterInv

LEMMA MergedFailures ==
  ASSUME Types, NEW w \in Worker, NodeDown(w), phase[w] = "shipped"
  PROVE  collected'.failures = IF Readable(wire[w].failed) THEN collected.failures \o Renamed(w, wire[w].failed.failures)
                               ELSE collected.failures
<1> DEFINE merged == Taken(collected, w, wire[w].failed)
<1>1. collected' = [merged EXCEPT !.inline = @ \cup wire[w].inline, !.retried = @ \o wire[w].retried,
                                  !.accesses = Unioned(@, wire[w].accesses)]
  BY DEF NodeDown
<1>2. /\ DOMAIN merged = Fields
      /\ merged.failures = IF Readable(wire[w].failed) THEN collected.failures \o Renamed(w, wire[w].failed.failures)
                           ELSE collected.failures
  BY DEF Taken, Types, Fields, Renamed
<1> HIDE DEF merged
<1> QED
  BY <1>1, <1>2 DEF Fields

LEMMA NodeDownClusters == ASSUME SessionInv, ClusterInv, NEW w \in Worker, NodeDown(w) PROVE ClusterInv'
<1>0. /\ phase[w] \in {"dead", "shipped"} /\ phase' = [phase EXCEPT ![w] = "down"]
      /\ parallel' = parallel /\ wire' = wire /\ done' = done /\ failures' = failures
  BY DEF NodeDown, held, history
<1>1. parallel /\ ~Finished /\ w # Controller /\ w \in Process /\ ~Over'
  BY <1>0, Apart DEF SessionInv, Types, Roles, Finished, Over
<1>2. /\ Down' = Down \cup {w} /\ w \notin Down
      /\ Got' = Got \cup (IF phase[w] = "shipped" THEN {w} ELSE {})
      /\ Clear' = Clear \cup (IF phase[w] = "shipped" /\ Readable(wire[w].failed) THEN {w} ELSE {})
  <2>1. Down' = Down \cup {w} /\ w \notin Down /\ w \in Worker
    BY <1>0, <1>1, Apart DEF SessionInv, Types, Down
  <2>2. wire[w].present <=> phase[w] = "shipped"
    BY <1>0 DEF SessionInv, Roles
  <2>3. Got' = {v \in Down' : wire[v].present}
    BY <1>0 DEF Got
  <2>4. Clear' = {v \in Got' : Readable(wire[v].failed)}
    BY <1>0 DEF Clear, Readable
  <2>5. Got' = Got \cup (IF phase[w] = "shipped" THEN {w} ELSE {})
    BY <2>1, <2>2, <2>3 DEF Got
  <2> QED
    BY <2>1, <2>4, <2>5 DEF Got, Clear
<1>3. \A v \in Worker : ShownBy(v)' = ShownBy(v)
  BY <1>0 DEF ShownBy, Ran
<1>4. \A p \in Process : ClusterNoted(p)'
  BY <1>0, ClusterNotedStays DEF ClusterInv
<1>5. \A v \in Worker : ClusterShips(v)'
  BY <1>0, ClusterShipsStays DEF ClusterInv
<1>6. ClustersAreHonest'
  BY <1>1, NothingGrouped
<1>7. Clear \in SUBSET Worker
  BY DEF Clear, Got, Down
<1>8. CASE phase[w] = "dead" \/ ~Readable(wire[w].failed)
  <2>1. collected'.failures = collected.failures
    <3>1. CASE phase[w] = "dead"
      <4>1. collected' = [collected EXCEPT !.lost = @ + 1]
        BY <3>1 DEF NodeDown
      <4> QED
        BY <4>1 DEF SessionInv, Types, Fields
    <3>2. CASE phase[w] = "shipped"
      BY <1>8, <3>2, MergedFailures DEF SessionInv
    <3> QED
      BY <1>0, <3>1, <3>2
  <2>2. Clear' = Clear
    BY <1>2, <1>8
  <2>3. GroupedFrom'
    <3>1. Shows(collected.failures)' = Shows(collected.failures)
      BY <2>1 DEF Shows
    <3>2. (UNION {Named(v, ShownBy(v)) : v \in Clear})' = UNION {Named(v, ShownBy(v)) : v \in Clear}
      BY <1>3, <1>7, <2>2 DEF Named
    <3> QED
      BY <3>1, <3>2 DEF ClusterInv, GroupedFrom
  <2> QED
    BY <1>4, <1>5, <1>6, <2>1, <2>3 DEF ClusterInv
<1>9. CASE phase[w] = "shipped" /\ Readable(wire[w].failed)
  <2>1. wire[w].present /\ wire[w].failed.failures = failures[w]
    BY <1>9 DEF SessionInv, Roles, ClusterInv, ClusterShips
  <2>2. collected'.failures = collected.failures \o Renamed(w, failures[w])
    BY <1>9, <2>1, MergedFailures DEF SessionInv
  <2>3. failures[w] \in Seq(Rows(Test, Keys))
    BY <1>1, FailuresAre DEF SessionInv
  <2>4. /\ Renamed(w, failures[w]) \in Seq(Rows({w} \X Test, Keys))
        /\ Shows(Renamed(w, failures[w])) = Named(w, Shows(failures[w]))
    BY <2>3, ShowsRenamed
  <2> DEFINE R == Rows(Process \X Test, Keys)
             now == Renamed(w, failures[w])
             old == collected.failures
  <2>5. now \in Seq(R) /\ old \in Seq(R)
    <3>1. Rows({w} \X Test, Keys) \subseteq R
      BY <1>1 DEF Rows
    <3>2. old \in Seq(R)
      BY DEF ClusterInv
    <3> DEFINE Q == Rows({w} \X Test, Keys)
    <3>3. \A i \in DOMAIN now : now[i] \in R
      <4> HIDE DEF now, R, Q
      <4> QED
        BY <2>4, <3>1, Lengths DEF now, Q
    <3>4. now \in Seq(Q)
      BY <2>4
    <3> HIDE DEF now, R, Q, old
    <3> QED
      BY <3>2, <3>3, <3>4
  <2>6. collected'.failures \in Seq(R)
    <3> HIDE DEF now, R, old
    <3> QED
      BY <2>2, <2>5 DEF now, old
  <2>7. Shows(collected'.failures) = Shows(old) \cup Named(w, ShownBy(w))
    <3>1. Shows(old \o now) = Shows(old) \cup Shows(now)
      <4> HIDE DEF now, R, old
      <4> QED
        BY <2>5, ShowsTogether
    <3>2. Shows(failures[w]) = ShownBy(w)
      BY <1>1 DEF ClusterInv, ClusterNoted
    <3> QED
      BY <2>2, <2>4, <3>1, <3>2
  <2>8. GroupedFrom'
    <3>1. (UNION {Named(v, ShownBy(v)) : v \in Clear})' = (UNION {Named(v, ShownBy(v)) : v \in Clear}) \cup Named(w, ShownBy(w))
      <4>1. Clear' = Clear \cup {w}
        BY <1>2, <1>9
      <4>2. \A v \in Worker : Named(v, ShownBy(v))' = Named(v, ShownBy(v))
        BY <1>3 DEF Named
      <4>3. (UNION {Named(v, ShownBy(v)) : v \in Clear})' = UNION {Named(v, ShownBy(v))' : v \in Clear'}
        OBVIOUS
      <4> QED
        BY <1>7, <4>1, <4>2, <4>3
    <3>2. Shows(collected.failures)' = Shows(collected'.failures)
      BY DEF Shows
    <3> QED
      BY <2>7, <3>1, <3>2 DEF ClusterInv, GroupedFrom
  <2> QED
    BY <1>4, <1>5, <1>6, <2>6, <2>8 DEF ClusterInv
<1> QED
  BY <1>0, <1>8, <1>9

LEMMA SessionFinishClusters ==
  ASSUME SessionInv, ClusterInv, NEW fault, NEW cut, SessionFinish(fault, cut)
  PROVE  ClusterInv'
<1>1. /\ phase' = [phase EXCEPT ![Controller] = "finished"]
      /\ collected' = [collected EXCEPT !.inline = {}, !.accesses = Nothing]
      /\ UNCHANGED <<parallel, failures, wire, done>>
  BY DEF SessionFinish
<1>2. Down' = Down /\ collected'.failures = collected.failures /\ ~Over'
  BY <1>1, Apart DEF SessionInv, Types, Fields, Down, Over
<1>3. GroupedFrom'
  BY <1>1, <1>2, GroupedStays DEF ClusterInv
<1>4. \A p \in Process : ClusterNoted(p)'
  BY <1>1, ClusterNotedStays DEF ClusterInv
<1>5. \A w \in Worker : ClusterShips(w)'
  BY <1>1, ClusterShipsStays DEF ClusterInv
<1>6. ClustersAreHonest'
  BY <1>2, NothingGrouped
<1> QED
  BY <1>2, <1>3, <1>4, <1>5, <1>6 DEF ClusterInv

LEMMA TerminalSummaryClusters == ASSUME SessionInv, ClusterInv, TerminalSummary PROVE ClusterInv'
<1> DEFINE own      == Renamed(Controller, failures[Controller])
           recorded == own \o collected.failures
           total    == Cardinality(failed[Controller]) + collected.count
           found    == Clusters(recorded, Minimum)
           told     == Rendered(found, total, collected.lost, collected.unreadable, collected.collectErrors)
<1>0. /\ phase[Controller] = "finished" /\ phase' = [phase EXCEPT ![Controller] = "over"]
      /\ UNCHANGED <<parallel, failures, wire, collected, done>>
      /\ summary' = IF total < Minimum THEN Silence ELSE told
  BY DEF TerminalSummary, held, history, Renamed
<1>1. Down' = Down /\ Finished
  BY <1>0, Apart DEF SessionInv, Types, Down, Finished
<1>2. GroupedFrom'
  BY <1>0, <1>1, GroupedStays DEF ClusterInv
<1>3. \A p \in Process : ClusterNoted(p)'
  BY <1>0, ClusterNotedStays DEF ClusterInv
<1>4. \A w \in Worker : ClusterShips(w)'
  BY <1>0, ClusterShipsStays DEF ClusterInv
<1>5. Read' = Read /\ RedTests' = RedTests /\ Showing' = Showing
  <2>1. Read' = Read
    BY <1>0 DEF Heard, Read, Readable
  <2> QED
    BY <1>0, <2>1 DEF RedTests, Showing, Ran
<1>6. /\ parallel => Read = Clear
      /\ ~parallel => Clear = {} /\ Read = {Controller}
      /\ parallel \in BOOLEAN
  BY <1>1, AllHeard DEF SessionInv, Roles, Types
<1>7. recorded \in Seq(Rows(Process \X Test, Keys)) /\ Shows(recorded) = Named(Controller, ShownBy(Controller)) \cup
                                                                           UNION {Named(w, ShownBy(w)) : w \in Clear}
  <2> DEFINE R == Rows(Process \X Test, Keys)
             Q == Rows({Controller} \X Test, Keys)
             old == collected.failures
  <2>1. failures[Controller] \in Seq(Rows(Test, Keys))
    BY Apart, FailuresAre DEF SessionInv
  <2>2. own \in Seq(Q) /\ Shows(own) = Named(Controller, Shows(failures[Controller]))
    BY <2>1, ShowsRenamed
  <2>3. own \in Seq(R) /\ old \in Seq(R)
    <3>1. Q \subseteq R
      BY Apart DEF SessionInv, Rows
    <3>2. old \in Seq(R)
      BY DEF ClusterInv
    <3>3. \A i \in DOMAIN own : own[i] \in R
      <4> HIDE DEF own, R, Q
      <4> QED
        BY <2>2, <3>1, Lengths
    <3> HIDE DEF own, R, Q, old
    <3> QED
      BY <2>2, <3>2, <3>3
  <2>4. recorded \in Seq(R) /\ Shows(recorded) = Shows(own) \cup Shows(old)
    <3>1. recorded = own \o old
      BY DEF recorded, old
    <3> HIDE DEF own, R, old, recorded
    <3>2. own \o old \in Seq(R)
      BY <2>3
    <3>3. Shows(own \o old) = Shows(own) \cup Shows(old)
      BY <2>3, ShowsTogether
    <3> QED
      BY <3>1, <3>2, <3>3
  <2>5. Shows(failures[Controller]) = ShownBy(Controller)
    BY Apart DEF ClusterInv, ClusterNoted, SessionInv
  <2>6. Shows(old) = UNION {Named(w, ShownBy(w)) : w \in Clear}
    BY DEF ClusterInv, GroupedFrom
  <2> HIDE DEF own, old, recorded
  <2> QED
    BY <2>2, <2>4, <2>5, <2>6
<1>8. Showing = UNION {Named(p, ShownBy(p)) : p \in Read}
  <2>1. ASSUME NEW p
        PROVE  UNION {{<<<<p, one.case.test>>, o>> : o \in ToSet(ObservationsOf(one.case.diff))} :
                         one \in {r \in Ran(p) : r.case.fails}} = Named(p, ShownBy(p))
    <3> DEFINE left == UNION {{<<<<p, one.case.test>>, o>> : o \in ToSet(ObservationsOf(one.case.diff))} :
                                one \in {r \in Ran(p) : r.case.fails}}
    <3>1. ASSUME NEW s \in left PROVE s \in Named(p, ShownBy(p))
      <4>1. PICK one \in {r \in Ran(p) : r.case.fails} :
              s \in {<<<<p, one.case.test>>, o>> : o \in ToSet(ObservationsOf(one.case.diff))}
        BY <3>1
      <4>2. PICK o \in ToSet(ObservationsOf(one.case.diff)) : s = <<<<p, one.case.test>>, o>>
        BY <4>1
      <4> DEFINE z == <<one.case.test, o>>
      <4>3. z \in ShownBy(p)
        BY <4>1, <4>2 DEF ShownBy
      <4>4. s = <<<<p, z[1]>>, z[2]>>
        BY <4>2
      <4> HIDE DEF z
      <4> QED
        BY <4>3, <4>4 DEF Named
    <3>2. ASSUME NEW s \in Named(p, ShownBy(p)) PROVE s \in left
      <4>1. PICK z \in ShownBy(p) : s = <<<<p, z[1]>>, z[2]>>
        BY <3>2 DEF Named
      <4>2. PICK one \in {r \in Ran(p) : r.case.fails} :
              z \in {<<one.case.test, o>> : o \in ToSet(ObservationsOf(one.case.diff))}
        BY <4>1 DEF ShownBy
      <4>3. PICK o \in ToSet(ObservationsOf(one.case.diff)) : z = <<one.case.test, o>>
        BY <4>2
      <4>4. s = <<<<p, one.case.test>>, o>>
        BY <4>1, <4>3
      <4> QED
        BY <4>2, <4>4
    <3> HIDE DEF left
    <3>3. left = Named(p, ShownBy(p))
      BY <3>1, <3>2
    <3> QED
      BY <3>3 DEF left
  <2> QED
    BY <2>1 DEF Showing
<1>9. Shows(recorded) = Showing
  <2>1. CASE parallel
    <3>1. done[Controller] = <<>>
      BY <2>1, Apart DEF SessionInv, NotedBy, Runs
    <3>2. ShownBy(Controller) = {}
      BY <3>1 DEF ShownBy, Ran
    <3>3. Named(Controller, ShownBy(Controller)) = {}
      BY <3>2 DEF Named
    <3> HIDE DEF recorded
    <3> QED
      BY <1>6, <1>7, <1>8, <2>1, <3>3
  <2>2. CASE ~parallel
    <3> HIDE DEF recorded
    <3>1. UNION {Named(w, ShownBy(w)) : w \in Clear} = {}
      BY <1>6, <2>2
    <3>2. Showing = Named(Controller, ShownBy(Controller))
      BY <1>6, <1>8, <2>2
    <3> QED
      BY <1>7, <3>1, <3>2
  <2> QED
    BY <1>6, <2>1, <2>2
<1>10. ClustersAreHonest'
  <2>1. SaysHonestly(summary', Showing, RedTests, Minimum)
    <3>1. CASE summary' = Silence
      BY <3>1, SilenceIsHonest
    <3>2. CASE summary' # Silence
      <4>1. ~(total < Minimum) /\ summary' = told /\ found # <<>>
        <5>1. ~(total < Minimum) /\ summary' = told
          BY <1>0, <3>2
        <5>2. found # <<>>
          BY <3>2, <5>1 DEF Rendered
        <5> QED
          BY <5>1, <5>2
      <4>2. IsFiniteSet(RedTests) /\ total = Cardinality(RedTests)
        <5>1. told.total = total /\ told.silent = FALSE
          <6> HIDE DEF found, total
          <6> QED
            BY <4>1 DEF Rendered
        <5>2. CountsAreHonest'
          BY TerminalSummaryInv DEF SessionInv, Told
        <5>3. Over'
          BY <1>0, Apart DEF SessionInv, Types, Over
        <5>4. summary'.total = Cardinality(RedTests)'
          BY <4>1, <5>1, <5>2, <5>3 DEF CountsAreHonest
        <5>5. total = Cardinality(RedTests)
          <6> HIDE DEF total, told
          <6> QED
            BY <1>5, <4>1, <5>1, <5>4
        <5>6. IsFiniteSet(RedTests)
          <6>1. \A p \in Read : NotedBy(p)
            BY DEF SessionInv, Read, Heard
          <6>2. RedTests = UNION {RedOf(p) : p \in Read}
            BY <6>1, RedTestsAre
          <6>3. CASE parallel
            BY <1>6, <6>2, <6>3 DEF SessionInv, Merged
          <6>4. CASE ~parallel
            <7>1. RedTests = RedOf(Controller) /\ IsFiniteSet(failed[Controller])
              BY <1>6, <6>1, <6>2, <6>4 DEF NotedBy
            <7> QED
              BY <7>1, RedCounts
          <6> QED
            BY <1>6, <6>3, <6>4
        <5> QED
          BY <5>5, <5>6
      <4>3. \A s \in Showing : s[1] \in RedTests
        <5> SUFFICES ASSUME NEW s \in Showing PROVE s[1] \in RedTests
          OBVIOUS
        <5>1. PICK p \in Read : s \in Named(p, ShownBy(p))
          BY <1>8
        <5>2. PICK z \in ShownBy(p) : s = <<<<p, z[1]>>, z[2]>>
          BY <5>1 DEF Named
        <5>3. PICK one \in {r \in Ran(p) : r.case.fails} :
                z \in {<<one.case.test, o>> : o \in ToSet(ObservationsOf(one.case.diff))}
          BY <5>2 DEF ShownBy
        <5>4. p \in Process
          BY DEF Read, Heard
        <5>5. one \in {r \in Ran(p) : r.red} /\ s[1] = <<p, one.case.test>>
          BY <5>2, <5>3, <5>4 DEF ClusterInv, ClusterNoted
        <5> QED
          BY <5>5 DEF RedTests
      <4>4. Minimum \in Nat
        BY SessionAssumption
      <4>5. IsClustered(found, Showing, Minimum)
        <5>1. IsClustered(found, Shows(recorded), Minimum)
          <6> HIDE DEF recorded
          <6> QED
            BY <1>7, <4>4, ClustersAre
        <5> HIDE DEF found, recorded
        <5> QED
          BY <1>9, <5>1
      <4>6. SaysHonestly(told, Showing, RedTests, Minimum)
        <5> HIDE DEF found, total
        <5> QED
          BY <4>2, <4>3, <4>4, <4>5, RenderedIsHonest
      <4> HIDE DEF told
      <4> QED
        BY <4>1, <4>6
    <3> QED
      BY <3>1, <3>2
  <2>2. (ClustersAreHonest <=> (Over => SaysHonestly(summary, Showing, RedTests, Minimum)))'
    BY ClustersMeans, PTL
  <2>3. SaysHonestly(summary, Showing, RedTests, Minimum)'
    <3> HIDE DEF told
    <3> QED
      BY <1>5, <2>1 DEF SaysHonestly
  <2> QED
    BY <2>2, <2>3
<1>11. collected' = collected
  BY <1>0
<1> QED
  BY <1>2, <1>3, <1>4, <1>10, <1>11 DEF ClusterInv

LEMMA ClusterStep == SessionInv /\ ClusterInv /\ [Next]_vars => ClusterInv'
<1> SUFFICES ASSUME SessionInv, ClusterInv, [Next]_vars PROVE ClusterInv'
  OBVIOUS
<1>1. ASSUME NEW p \in Process, NEW k \in suite.tests, NEW found \in BOOLEAN, RunPhase(p, k, found) PROVE ClusterInv'
  BY <1>1, RunPhaseClusters
<1>2. ASSUME NEW file \in Rooted \ Installed, UserEdits(file) PROVE ClusterInv'
  BY <1>2, UserEditsClusters
<1>3. CASE CollectFails
  BY <1>3, CollectFailsClusters
<1>4. ASSUME NEW w \in Worker, Finishes(w) PROVE ClusterInv'
  BY <1>4, FinishesClusters
<1>5. ASSUME NEW w \in Worker, Dies(w) PROVE ClusterInv'
  BY <1>5, DiesClusters
<1>6. ASSUME NEW w \in Worker, NodeDown(w) PROVE ClusterInv'
  BY <1>6, NodeDownClusters
<1>7. ASSUME NEW fault \in Fault, SessionFinish(fault[1], fault[2]) PROVE ClusterInv'
  BY <1>7, SessionFinishClusters
<1>8. CASE TerminalSummary
  BY <1>8, TerminalSummaryClusters
<1>9. CASE UNCHANGED vars
  <2> USE <1>9 DEF vars, held, result, history
  <2>1. Down' = Down
    BY DEF Down
  <2>2. GroupedFrom'
    BY <2>1, GroupedStays DEF ClusterInv
  <2>3. \A p \in Process : ClusterNoted(p)'
    BY ClusterNotedStays DEF ClusterInv
  <2>4. \A w \in Worker : ClusterShips(w)'
    BY ClusterShipsStays DEF ClusterInv
  <2>5. ClustersAreHonest'
    BY ClustersStay DEF ClusterInv
  <2> QED
    BY <2>2, <2>3, <2>4, <2>5 DEF ClusterInv
<1> QED
  BY <1>1, <1>2, <1>3, <1>4, <1>5, <1>6, <1>7, <1>8, <1>9 DEF Next

-----------------------------------------------------------------------------
(* The session *)

LEMMA SessionStep == SessionInv /\ [Next]_vars => SessionInv'
<1> SUFFICES ASSUME SessionInv, [Next]_vars PROVE SessionInv'
  OBVIOUS
<1>1. ASSUME NEW p \in Process, NEW k \in suite.tests, NEW found \in BOOLEAN, RunPhase(p, k, found) PROVE SessionInv'
  BY <1>1, RunPhaseInv
<1>2. ASSUME NEW file \in Rooted \ Installed, UserEdits(file) PROVE SessionInv'
  BY <1>2, UserEditsInv
<1>3. CASE CollectFails
  BY <1>3, CollectFailsInv
<1>4. ASSUME NEW w \in Worker, Finishes(w) PROVE SessionInv'
  BY <1>4, FinishesInv
<1>5. ASSUME NEW w \in Worker, Dies(w) PROVE SessionInv'
  BY <1>5, DiesInv
<1>6. ASSUME NEW w \in Worker, NodeDown(w) PROVE SessionInv'
  BY <1>6, NodeDownInv
<1>7. ASSUME NEW fault \in Fault, SessionFinish(fault[1], fault[2]) PROVE SessionInv'
  BY <1>7, SessionFinishInv
<1>8. CASE TerminalSummary
  BY <1>8, TerminalSummaryInv
<1>9. CASE UNCHANGED vars
  <2> USE <1>9 DEF vars, held, result, history
  <2>1. Types' /\ Roles' /\ Finished' = Finished
    BY DEF SessionInv, Types, Roles, Finished
  <2>2. Told'
    BY ToldStays DEF SessionInv
  <2>3. Merged'
    <3>1. Down' = Down
      BY DEF Down
    <3> QED
      BY <2>1, <3>1, MergedStays DEF SessionInv
  <2>4. \A p \in Process : NotedBy(p)'
    BY <2>1, NotedStays DEF SessionInv
  <2>5. \A w \in Worker : Ships(w)'
    BY ShipsStays DEF SessionInv
  <2> QED
    BY <2>1, <2>2, <2>3, <2>4, <2>5 DEF SessionInv
<1> QED
  BY <1>1, <1>2, <1>3, <1>4, <1>5, <1>6, <1>7, <1>8, <1>9 DEF Next

-----------------------------------------------------------------------------

\* A key that tests of one or of several workers reached is named with the number of them, and every late poll is,
\* under its test (_warn_on_reused_snapshot_keys, _report_retries).
THEOREM SweepHolds == Spec => []SweepIsExact
<1>1. SessionInv => SweepIsExact
  <2> SUFFICES ASSUME SessionInv, phase[Controller] \in {"finished", "over"} PROVE SweepIsExact
    BY DEF SweepIsExact
  <2>1. Told /\ Finished
    BY DEF SessionInv, Finished
  <2> DEFINE reached(key) == {one.case.test : one \in {r \in UNION {Ran(p) : p \in Heard} : r.case.key = key}}
  <2>2. ASSUME NEW key PROVE reached(key) = UNION {Reached(p, key) : p \in Heard}
    BY DEF Ran, Reached
  <2>3. ASSUME NEW key \in {k.key : k \in Case} \ {NoKey}, NEW n \in 0 .. MaxRuns
        PROVE  <<key, n>> \in swept <=> n = Cardinality(reached(key)) /\ n >= 2
    <3> HIDE DEF reached
    <3>1. reached(key) = UNION {Reached(p, key) : p \in Heard}
      BY <2>2
    <3> QED
      BY <2>1, <3>1 DEF Told
  <2>4. ASSUME NEW test \in {k.test : k \in Case}
        PROVE  Cardinality({i \in DOMAIN polls : polls[i] = test}) = Cardinality(UNION {Late(p, test) : p \in Heard})
    <3>1. Tally(polls, test, UNION {Late(p, test) : p \in Heard})
      BY <2>1 DEF Told, Test
    <3> QED
      BY <3>1 DEF Tally, Places
  <2> QED
    BY <2>3, <2>4 DEF SweepIsExact
<1> QED
  BY <1>1, InitInv, SessionStep, PTL DEF Spec

\* The total of the summary is the number of distinct failing tests of the workers that could be read, and it
\* announces how many died and how many could not be (_collect_worker_failures, pytest_testnodedown, render).
THEOREM CountsHold == Spec => []CountsAreHonest
<1>1. SessionInv => CountsAreHonest
  BY DEF SessionInv, Told
<1> QED
  BY <1>1, InitInv, SessionStep, PTL DEF Spec

\* A source file is left as the user had it, or with literals that every case that reached their calls takes, on
\* whichever worker it ran; nothing else in it moves (apply_inline_records, _rewritten, _settled).
THEOREM LiteralsAreTaken == Spec => []LiteralsHold
<1>1. InlineInv => LiteralsHold
  BY DEF InlineInv
<1> QED
  BY <1>1, InitInv, InitInline, SessionStep, InlineStep, PTL DEF Spec

\* A case that asked for a literal gets one it takes, or the run is red and names its file (_decided, _written).
THEOREM NothingIsDropped == Spec => []NothingDropped
<1>1. InlineInv => NothingDropped
  BY DEF InlineInv
<1> QED
  BY <1>1, InitInv, InitInline, SessionStep, InlineStep, PTL DEF Spec

\* What the summary says of the clusters is so of the failures of the workers that could be read: the size of each is
\* the number of distinct failing tests, a side names its smallest value and how many others there were or that they
\* were more than the limit, no two headings read alike, and the clusters left out and the failures outside any are
\* counted (clusters, _headings, _side, render).
THEOREM SummaryHolds == Spec => []SummaryIsHonest
<1>1. SessionInv /\ ClusterInv => SummaryIsHonest
  BY DEF SessionInv, Told, ClusterInv, SummaryIsHonest
<1> QED
  BY <1>1, InitInv, InitClusters, SessionStep, ClusterStep, PTL DEF Spec
=============================================================================
