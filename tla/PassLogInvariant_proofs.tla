------------------------ MODULE PassLogInvariant_proofs -----------------------
(***************************************************************************)
(* The invariant behind the theorems of PassLog_proofs, and how what steps *)
(* are made of preserves it: a frame more, a frame less, a marker raised,  *)
(* an attempt released, a pass filed, a block entered.                     *)
(*                                                                         *)
(* It is stated of any stacks k, contexts x, entries es, calls cs and      *)
(* attempts hs, so that a step that marks a call and then drops its frame  *)
(* is two small steps.                                                     *)
(***************************************************************************)
EXTENDS PassLog, TLAPS, SequenceTheorems, FiniteSetTheorems

Marks == {"call", "tell"}
Polls == {"attempt", "flush"}

EntryT   == [active : BOOLEAN, wants : BOOLEAN, born : Nat, previous : Nat]
CallT    == [alive : BOOLEAN, failed : BOOLEAN, passed : BOOLEAN, entry : Nat, by : Task,
             under : SUBSET Nat]
RecordT  == [call : Nat, asked : BOOLEAN]
AttemptT == [alive : BOOLEAN, end : {"open", "passed", "failed", "cut"}, scope : Nat,
             wanted : BOOLEAN, born : Nat, records : Seq(RecordT)]
FrameT   == [kind : Marks \cup Polls, id : Nat, old : Nat]
CtxT     == [scope : Nat, observed : Nat, held : Nat]

Typed(k, x, es, cs, hs) ==
  /\ k \in [Task -> Seq(FrameT)] /\ x \in [Task -> CtxT]
  /\ es \in Seq(EntryT) /\ cs \in Seq(CallT) /\ hs \in Seq(AttemptT)

\* Whatever is named has been made.
OrNone(s) == DOMAIN s \cup {None}

ContextNames(x, es, cs, hs) ==
  \A t \in Task : x[t].scope \in OrNone(es) /\ x[t].observed \in OrNone(cs) /\ x[t].held \in OrNone(hs)

FrameNames(k, cs, hs) ==
  \A t \in Task : \A i \in DOMAIN k[t] :
    /\ k[t][i].kind \in Marks => k[t][i].id \in DOMAIN cs /\ k[t][i].old \in OrNone(cs)
    /\ k[t][i].kind \in Polls => k[t][i].id \in DOMAIN hs /\ k[t][i].old \in OrNone(hs)

EntryNames(es)       == \A e \in DOMAIN es : es[e].previous \in OrNone(es)
CallNames(es, cs, hs) ==
  \A c \in DOMAIN cs :
    cs[c].entry \in OrNone(es) /\ cs[c].under \subseteq DOMAIN hs /\ (cs[c].entry = None => cs[c].under = {})
AttemptNames(es, hs) == \A a \in DOMAIN hs : hs[a].scope \in OrNone(es)
RecordNames(cs, hs)  == \A a \in DOMAIN hs : \A i \in DOMAIN hs[a].records : hs[a].records[i].call \in DOMAIN cs

Named(k, x, es, cs, hs) ==
  /\ ContextNames(x, es, cs, hs) /\ FrameNames(k, cs, hs) /\ EntryNames(es)
  /\ CallNames(es, cs, hs) /\ AttemptNames(es, hs) /\ RecordNames(cs, hs)

\* What began so far is numbered below what begins next.
Moment(es, hs) == Len(es) + Len(hs)

Births(es, hs) ==
  /\ \A e \in DOMAIN es : es[e].born <= Moment(es, hs)
  /\ \A a \in DOMAIN hs : hs[a].born <= Moment(es, hs)
  /\ \A e \in DOMAIN es : \A a \in DOMAIN hs : es[e].born # hs[a].born

\* A callback runs over a call or a flush, and nothing else over these.
Shaped(s) ==
  \A i \in DOMAIN s :
    /\ s[i].kind = "tell" => i = 1 /\ 2 \in DOMAIN s /\ s[2].kind \in {"call", "flush"}
    /\ s[i].kind \in {"call", "flush"} => i = 1 \/ (i = 2 /\ s[1].kind = "tell")

\* An attempt found in the context the next one out on the stack, and is in the context itself.
Handed(s, c) ==
  \A i \in DOMAIN s :
    /\ s[i].kind \in Polls /\ i + 1 \in DOMAIN s => s[i].old = s[i+1].id
    /\ s[i].kind = "flush" => c.held = s[i].old
    /\ s[i].kind = "attempt" /\ (i = 1 \/ s[i-1].kind \in Marks) => c.held = s[i].id

Watched(s, c) == 1 \in DOMAIN s /\ s[1].kind \in Marks => c.observed = s[1].id

Stacked(k, x) == \A t \in Task : Shaped(k[t]) /\ Handed(k[t], x[t]) /\ Watched(k[t], x[t])

\* No two frames are of the same call or attempt.
Alike(f, g) == f.id = g.id /\ (f.kind \in Marks <=> g.kind \in Marks)

Single(k) ==
  \A t, u \in Task : \A i \in DOMAIN k[t] : \A j \in DOMAIN k[u] :
    Alike(k[t][i], k[u][j]) => t = u /\ i = j

On(k, kinds, id) == \E t \in Task : \E i \in DOMAIN k[t] : k[t][i].kind \in kinds /\ k[t][i].id = id

Marked(k, cs) == \A c \in DOMAIN cs : cs[c].alive <=> On(k, Marks, c)
Holds(k, hs)  == \A a \in DOMAIN hs : hs[a].alive <=> On(k, {"attempt"}, a)

Ends(k, hs) ==
  \A t \in Task : \A i \in DOMAIN k[t] :
    /\ k[t][i].kind = "attempt" => hs[k[t][i].id].end = "open"
    /\ k[t][i].kind = "flush" => hs[k[t][i].id].end = "passed"

\* An attempt began after those around it.
Nested(k, hs) ==
  \A t \in Task : \A i, j \in DOMAIN k[t] :
    k[t][i].kind \in Polls /\ k[t][j].kind \in Polls /\ i < j =>
      hs[k[t][j].id].born < hs[k[t][i].id].born

Struct(k, x, cs, hs) ==
  /\ Stacked(k, x) /\ Single(k) /\ Marked(k, cs) /\ Holds(k, hs) /\ Ends(k, hs) /\ Nested(k, hs)

\* A call that runs depends on attempts its task is in.
Leans(m, t, k, es, hs) ==
  /\ m.by = t
  /\ \A y \in m.under : /\ es[m.entry].born < hs[y].born
                        /\ \E j \in DOMAIN k[t] : k[t][j].kind = "attempt" /\ k[t][j].id = y

Depends(c, t, k, es, cs, hs) == Leans(cs[c], t, k, es, hs)

Running(k, es, cs, hs) ==
  \A t \in Task : \A i \in DOMAIN k[t] : k[t][i].kind = "call" => Depends(k[t][i].id, t, k, es, cs, hs)

\* A pass held back
Fit(r, a, es, cs, hs) ==
  /\ cs[r.call].entry # None /\ ~cs[r.call].failed /\ ~cs[r.call].alive
  /\ r.asked => es[cs[r.call].entry].wants
  /\ es[cs[r.call].entry].born < hs[a].born
  /\ \A y \in cs[r.call].under : es[cs[r.call].entry].born < hs[y].born

Recorded(es, cs, hs) ==
  \A a \in DOMAIN hs : \A i \in DOMAIN hs[a].records : Fit(hs[a].records[i], a, es, cs, hs)

Wanted(es, hs) ==
  \A a \in DOMAIN hs : hs[a].scope # None /\ hs[a].wanted => es[hs[a].scope].wants

\* Of the attempts y a pass depends on, each has passed or is around frame i of t, or is that frame.
Awaited(y, t, i, k, hs) ==
  \/ hs[y].end \in {"passed", "cut"}
  \/ \E j \in DOMAIN k[t] : i <= j /\ k[t][j].kind = "attempt" /\ k[t][j].id = y

Settled(k, cs, hs) ==
  \A t \in Task : \A i \in DOMAIN k[t] : k[t][i].kind \in Polls =>
    \A m \in DOMAIN hs[k[t][i].id].records :
      \A y \in cs[hs[k[t][i].id].records[m].call].under : Awaited(y, t, i, k, hs)

Reportable(cs) == \A c \in DOMAIN cs : cs[c].passed => cs[c].entry # None

Data(k, es, cs, hs) ==
  /\ Running(k, es, cs, hs) /\ Recorded(es, cs, hs) /\ Wanted(es, hs)
  /\ Settled(k, cs, hs) /\ Reportable(cs)

Inv(k, x, es, cs, hs) ==
  /\ Typed(k, x, es, cs, hs) /\ Named(k, x, es, cs, hs) /\ Births(es, hs)
  /\ Struct(k, x, cs, hs) /\ Data(k, es, cs, hs)

-----------------------------------------------------------------------------
(* Stacks *)

\* Task t has f on top of what k is.
Grown(k, k2, t, f) ==
  /\ k2 \in [Task -> Seq(FrameT)]
  /\ 1 \in DOMAIN k2[t] /\ k2[t][1] = f
  /\ \A i \in DOMAIN k[t] : i + 1 \in DOMAIN k2[t] /\ k2[t][i + 1] = k[t][i]
  /\ \A i \in DOMAIN k2[t] : i # 1 => i - 1 \in DOMAIN k[t] /\ k2[t][i] = k[t][i - 1]
  /\ \A u \in Task : u # t => k2[u] = k[u]

LEMMA Pushing ==
  ASSUME NEW k \in [Task -> Seq(FrameT)], NEW t \in Task, NEW f \in FrameT
  PROVE  Grown(k, [k EXCEPT ![t] = <<f>> \o @], t, f)
<1> DEFINE s == k[t]
           r == <<f>> \o s
           k2 == [k EXCEPT ![t] = <<f>> \o @]
<1>1. s \in Seq(FrameT) /\ <<f>> \in Seq(FrameT)
  OBVIOUS
<1>2. r \in Seq(FrameT) /\ Len(r) = Len(s) + 1
  BY <1>1
<1>3. r[1] = f /\ \A i \in 1..Len(s) : r[i + 1] = s[i]
  BY <1>1
<1>4. DOMAIN s = 1..Len(s) /\ DOMAIN r = 1..Len(r) /\ Len(s) \in Nat
  BY <1>1, <1>2
<1>5. k2[t] = r /\ k2 \in [Task -> Seq(FrameT)] /\ \A u \in Task : u # t => k2[u] = k[u]
  BY <1>2
<1> HIDE DEF s, r, k2
<1>6. \A i \in DOMAIN r : i # 1 => i - 1 \in DOMAIN s /\ r[i] = s[i - 1]
  BY <1>2, <1>3, <1>4
<1>7. 1 \in DOMAIN r /\ \A i \in DOMAIN s : i + 1 \in DOMAIN r
  BY <1>2, <1>4
<1>8. s = k[t]
  BY DEF s
<1>9. Grown(k, k2, t, f)
  BY <1>3, <1>4, <1>5, <1>6, <1>7, <1>8 DEF Grown
<1> QED
  BY <1>9 DEF k2

LEMMA Popping ==
  ASSUME NEW k \in [Task -> Seq(FrameT)], NEW t \in Task, k[t] # <<>>
  PROVE  [k EXCEPT ![t] = Tail(@)] \in [Task -> Seq(FrameT)] /\ Grown([k EXCEPT ![t] = Tail(@)], k, t, Head(k[t]))
<1> DEFINE s == k[t]
           r == Tail(s)
           k2 == [k EXCEPT ![t] = Tail(@)]
<1>1. s \in Seq(FrameT) /\ s # <<>>
  OBVIOUS
<1>2. r \in Seq(FrameT) /\ Len(r) = Len(s) - 1 /\ Len(s) \in Nat /\ Len(s) > 0
  BY <1>1
<1>3. Head(s) = s[1] /\ \A i \in 1..Len(r) : r[i] = s[i + 1]
  BY <1>1, <1>2
<1>4. DOMAIN s = 1..Len(s) /\ DOMAIN r = 1..Len(r)
  BY <1>1, <1>2
<1>5. k2[t] = r /\ \A u \in Task : u # t => k2[u] = k[u]
  BY <1>2
<1>8. s = k[t]
  OBVIOUS
<1> HIDE DEF s, r, k2
<1>6. \A i \in DOMAIN s : i # 1 => i - 1 \in DOMAIN r /\ s[i] = r[i - 1]
  BY <1>2, <1>3, <1>4
<1>7. 1 \in DOMAIN s /\ \A i \in DOMAIN r : i + 1 \in DOMAIN s
  BY <1>2, <1>4
<1>9. Grown(k2, k, t, Head(s))
  BY <1>3, <1>4, <1>5, <1>6, <1>7, <1>8 DEF Grown
<1>a. k2 \in [Task -> Seq(FrameT)]
  BY <1>2 DEF k2, r, s
<1> QED
  BY <1>9, <1>a DEF k2, s

-----------------------------------------------------------------------------
(* Sequences *)

\* s2 is s with e as its n-th, after all others; s2 is s with another e as its n-th.
Extended(s, s2, n, e) ==
  /\ n = Len(s) + 1 /\ n \in Nat \ {0} /\ n \notin DOMAIN s
  /\ DOMAIN s2 = DOMAIN s \cup {n} /\ s2[n] = e /\ \A i \in DOMAIN s : s2[i] = s[i]

Changed(s, s2, n, e) ==
  /\ n \in DOMAIN s /\ Len(s2) = Len(s) /\ DOMAIN s2 = DOMAIN s
  /\ s2[n] = e /\ \A i \in DOMAIN s : i # n => s2[i] = s[i]

LEMMA Lengths ==
  ASSUME NEW S, NEW s \in Seq(S)
  PROVE  Len(s) \in Nat /\ DOMAIN s = 1..Len(s) /\ \A i \in DOMAIN s : s[i] \in S
OBVIOUS

LEMMA Extending ==
  ASSUME NEW S, NEW s \in Seq(S), NEW e \in S
  PROVE  Append(s, e) \in Seq(S) /\ Len(Append(s, e)) = Len(s) + 1 /\ Extended(s, Append(s, e), Len(s) + 1, e)
<1> DEFINE r == Append(s, e)
<1>1. r \in Seq(S) /\ Len(r) = Len(s) + 1 /\ Len(s) \in Nat
  OBVIOUS
<1>2. r[Len(s) + 1] = e /\ \A i \in 1..Len(s) : r[i] = s[i]
  OBVIOUS
<1>3. DOMAIN s = 1..Len(s) /\ DOMAIN r = 1..(Len(s) + 1)
  BY <1>1
<1> HIDE DEF r
<1>4. DOMAIN r = DOMAIN s \cup {Len(s) + 1} /\ Len(s) + 1 \notin DOMAIN s /\ Len(s) + 1 \in Nat \ {0}
  BY <1>1, <1>3
<1>5. Extended(s, r, Len(s) + 1, e)
  BY <1>2, <1>3, <1>4 DEF Extended
<1> QED
  BY <1>1, <1>5 DEF r

LEMMA Changing ==
  ASSUME NEW S, NEW s \in Seq(S), NEW n \in DOMAIN s, NEW e \in S
  PROVE  [s EXCEPT ![n] = e] \in Seq(S) /\ Changed(s, [s EXCEPT ![n] = e], n, e)
BY DEF Changed

\* The context of t is of entry e, call o and attempt h.
Moved(x, x2, t, e, o, h) ==
  /\ x2 \in [Task -> CtxT] /\ x2[t].scope = e /\ x2[t].observed = o /\ x2[t].held = h
  /\ \A u \in Task : u # t => x2[u] = x[u]

Scoping(x, t, n)  == [x EXCEPT ![t].scope = n]
Watching(x, t, n) == [x EXCEPT ![t].observed = n]
Keeping(x, t, n)  == [x EXCEPT ![t].held = n]

LEMMA Context ==
  ASSUME NEW x \in [Task -> CtxT], NEW t \in Task, NEW n \in Nat
  PROVE  /\ Moved(x, Scoping(x, t, n), t, n, x[t].observed, x[t].held)
         /\ Moved(x, Watching(x, t, n), t, x[t].scope, n, x[t].held)
         /\ Moved(x, Keeping(x, t, n), t, x[t].scope, x[t].observed, n)
<1> DEFINE e == [x[t] EXCEPT !.scope = n]
           o == [x[t] EXCEPT !.observed = n]
           h == [x[t] EXCEPT !.held = n]
<1>1. x[t] \in CtxT
  OBVIOUS
<1>2. e \in CtxT /\ e.scope = n /\ e.observed = x[t].observed /\ e.held = x[t].held
  BY <1>1 DEF CtxT
<1>3. o \in CtxT /\ o.observed = n /\ o.scope = x[t].scope /\ o.held = x[t].held
  BY <1>1 DEF CtxT
<1>4. h \in CtxT /\ h.held = n /\ h.scope = x[t].scope /\ h.observed = x[t].observed
  BY <1>1 DEF CtxT
<1>5. Scoping(x, t, n) = [x EXCEPT ![t] = e] /\ Watching(x, t, n) = [x EXCEPT ![t] = o]
      /\ Keeping(x, t, n) = [x EXCEPT ![t] = h]
  BY DEF Scoping, Watching, Keeping
<1> HIDE DEF e, o, h
<1>6. Moved(x, Scoping(x, t, n), t, n, x[t].observed, x[t].held)
  BY <1>2, <1>5 DEF Moved
<1>7. Moved(x, Watching(x, t, n), t, x[t].scope, n, x[t].held)
  BY <1>3, <1>5 DEF Moved
<1>8. Moved(x, Keeping(x, t, n), t, x[t].scope, x[t].observed, n)
  BY <1>4, <1>5 DEF Moved
<1> QED
  BY <1>6, <1>7, <1>8

-----------------------------------------------------------------------------
(* A frame more and a frame less *)

\* Where frame i of u is once t has one more.
Shift(u, t, i) == IF u = t THEN i + 1 ELSE i

Shifted(k, k2, t, f) ==
  /\ \A u \in Task : \A i \in DOMAIN k[u] :
       i \in Nat /\ i > 0 /\ Shift(u, t, i) \in DOMAIN k2[u] /\ k2[u][Shift(u, t, i)] = k[u][i]
  /\ \A u \in Task : \A i \in DOMAIN k2[u] :
       /\ i \in Nat /\ i > 0
       /\ \/ u = t /\ i = 1 /\ k2[u][i] = f
          \/ \E j \in DOMAIN k[u] : i = Shift(u, t, j) /\ k2[u][i] = k[u][j]

LEMMA Positions ==
  ASSUME NEW k \in [Task -> Seq(FrameT)], NEW k2, NEW t \in Task, NEW f, Grown(k, k2, t, f)
  PROVE  Shifted(k, k2, t, f)
<1>1. \A u \in Task : \A i \in DOMAIN k[u] : i \in Nat /\ i > 0
  BY Lengths
<1>2. k2 \in [Task -> Seq(FrameT)]
  BY DEF Grown
<1>3. \A u \in Task : \A i \in DOMAIN k2[u] : i \in Nat /\ i > 0
  BY <1>2, Lengths
<1>4. ASSUME NEW u \in Task, NEW i \in DOMAIN k2[u]
      PROVE  \/ u = t /\ i = 1 /\ k2[u][i] = f
             \/ \E j \in DOMAIN k[u] : i = Shift(u, t, j) /\ k2[u][i] = k[u][j]
  <2>1. CASE u = t /\ i # 1
    <3>1. i - 1 \in DOMAIN k[u] /\ k2[u][i] = k[u][i - 1]
      BY <2>1 DEF Grown
    <3>2. i = Shift(u, t, i - 1)
      BY <2>1, <1>3 DEF Shift
    <3> QED
      BY <3>1, <3>2
  <2>2. CASE u = t /\ i = 1
    BY <2>2 DEF Grown
  <2>3. CASE u # t
    BY <2>3 DEF Grown, Shift
  <2> QED
    BY <2>1, <2>2, <2>3
<1>5. \A u \in Task : \A i \in DOMAIN k[u] : Shift(u, t, i) \in DOMAIN k2[u] /\ k2[u][Shift(u, t, i)] = k[u][i]
  BY DEF Grown, Shift
<1> QED
  BY <1>1, <1>3, <1>4, <1>5 DEF Shifted

LEMMA Shifting ==
  ASSUME NEW u, NEW v, NEW t, NEW i \in Nat, NEW j \in Nat
  PROVE  /\ Shift(u, t, i) < Shift(u, t, j) <=> i < j
         /\ Shift(u, t, i) <= Shift(u, t, j) <=> i <= j
         /\ Shift(u, t, i) = Shift(u, t, j) <=> i = j
BY DEF Shift

\* What stacks name is on the smaller of the two, or on the frame.
LEMMA Names ==
  ASSUME NEW k \in [Task -> Seq(FrameT)], NEW k2, NEW t \in Task, NEW f, Grown(k, k2, t, f), NEW kinds, NEW id
  PROVE  On(k2, kinds, id) <=> On(k, kinds, id) \/ (f.kind \in kinds /\ f.id = id)
<1>1. ASSUME On(k2, kinds, id) PROVE On(k, kinds, id) \/ (f.kind \in kinds /\ f.id = id)
  <2>1. PICK u \in Task : \E i \in DOMAIN k2[u] : k2[u][i].kind \in kinds /\ k2[u][i].id = id
    BY <1>1 DEF On
  <2>2. PICK i \in DOMAIN k2[u] : k2[u][i].kind \in kinds /\ k2[u][i].id = id
    BY <2>1
  <2>3. \/ k2[u][i] = f
        \/ \E j \in DOMAIN k[u] : k2[u][i] = k[u][j]
    BY Positions DEF Shifted
  <2> QED
    BY <2>2, <2>3 DEF On
<1>2. ASSUME On(k, kinds, id) PROVE On(k2, kinds, id)
  <2>1. PICK u \in Task : \E i \in DOMAIN k[u] : k[u][i].kind \in kinds /\ k[u][i].id = id
    BY <1>2 DEF On
  <2>2. PICK i \in DOMAIN k[u] : k[u][i].kind \in kinds /\ k[u][i].id = id
    BY <2>1
  <2>3. Shift(u, t, i) \in DOMAIN k2[u] /\ k2[u][Shift(u, t, i)] = k[u][i]
    BY Positions DEF Shifted
  <2> QED
    BY <2>2, <2>3 DEF On
<1>3. ASSUME f.kind \in kinds, f.id = id PROVE On(k2, kinds, id)
  BY <1>3 DEF On, Grown
<1> QED
  BY <1>1, <1>2, <1>3

\* A frame of a new call or attempt is alike none.
LEMMA Adding ==
  ASSUME NEW k \in [Task -> Seq(FrameT)], NEW k2, NEW t \in Task, NEW f, Grown(k, k2, t, f), Single(k),
         \A u \in Task : \A i \in DOMAIN k[u] : ~Alike(f, k[u][i]) /\ ~Alike(k[u][i], f)
  PROVE  Single(k2)
<1>1. Shifted(k, k2, t, f)
  BY Positions
<1>2. ASSUME NEW u \in Task, NEW v \in Task, NEW i \in DOMAIN k2[u], NEW j \in DOMAIN k2[v], Alike(k2[u][i], k2[v][j])
      PROVE  u = v /\ i = j
  <2>1. CASE u = t /\ i = 1 /\ k2[u][i] = f
    BY <2>1, <1>1, <1>2 DEF Shifted
  <2>2. CASE v = t /\ j = 1 /\ k2[v][j] = f
    BY <2>2, <1>1, <1>2 DEF Shifted
  <2>3. CASE ~(u = t /\ i = 1 /\ k2[u][i] = f) /\ ~(v = t /\ j = 1 /\ k2[v][j] = f)
    <3>1. PICK i2 \in DOMAIN k[u] : i = Shift(u, t, i2) /\ k2[u][i] = k[u][i2]
      BY <2>3, <1>1 DEF Shifted
    <3>2. PICK j2 \in DOMAIN k[v] : j = Shift(v, t, j2) /\ k2[v][j] = k[v][j2]
      BY <2>3, <1>1 DEF Shifted
    <3>3. u = v /\ i2 = j2
      BY <3>1, <3>2, <1>2 DEF Single
    <3> QED
      BY <3>1, <3>2, <3>3
  <2> QED
    BY <2>1, <2>2, <2>3
<1> QED
  BY <1>2 DEF Single

\* What a frame waits for and what a call depends on is where it was.
LEMMA Covering ==
  ASSUME NEW k \in [Task -> Seq(FrameT)], NEW k2, NEW t \in Task, NEW f, Grown(k, k2, t, f), NEW u \in Task
  PROVE  /\ \A i \in DOMAIN k[u] : \A y, hs : Awaited(y, u, i, k, hs) => Awaited(y, u, Shift(u, t, i), k2, hs)
         /\ \A c, es, cs, hs : Depends(c, u, k, es, cs, hs) => Depends(c, u, k2, es, cs, hs)
<1>1. Shifted(k, k2, t, f)
  BY Positions
<1>2. ASSUME NEW i \in DOMAIN k[u], NEW y, NEW hs, Awaited(y, u, i, k, hs)
      PROVE  Awaited(y, u, Shift(u, t, i), k2, hs)
  <2>1. ASSUME NEW j \in DOMAIN k[u], i <= j, k[u][j].kind = "attempt", k[u][j].id = y
        PROVE  Awaited(y, u, Shift(u, t, i), k2, hs)
    <3>1. Shift(u, t, j) \in DOMAIN k2[u] /\ k2[u][Shift(u, t, j)] = k[u][j] /\ i \in Nat /\ j \in Nat
      BY <1>1 DEF Shifted
    <3>2. Shift(u, t, i) <= Shift(u, t, j)
      BY <3>1, <2>1, Shifting
    <3> QED
      BY <3>1, <3>2, <2>1 DEF Awaited
  <2> QED
    BY <2>1, <1>2 DEF Awaited
<1>3. ASSUME NEW c, NEW es, NEW cs, NEW hs, Depends(c, u, k, es, cs, hs)
      PROVE  Depends(c, u, k2, es, cs, hs)
  <2>1. ASSUME NEW y \in cs[c].under PROVE \E j \in DOMAIN k2[u] : k2[u][j].kind = "attempt" /\ k2[u][j].id = y
    <3>1. PICK j \in DOMAIN k[u] : k[u][j].kind = "attempt" /\ k[u][j].id = y
      BY <1>3 DEF Depends, Leans
    <3>2. Shift(u, t, j) \in DOMAIN k2[u] /\ k2[u][Shift(u, t, j)] = k[u][j]
      BY <1>1 DEF Shifted
    <3> QED
      BY <3>1, <3>2
  <2> QED
    BY <2>1, <1>3 DEF Depends, Leans
<1> QED
  BY <1>2, <1>3

\* All that is so of stacks, but for what the context of t observes.
InOrder(k, x, t, cs, hs) ==
  /\ Single(k) /\ Nested(k, hs) /\ FrameNames(k, cs, hs)
  /\ \A u \in Task : Shaped(k[u]) /\ Handed(k[u], x[u])
  /\ \A u \in Task : u # t => Watched(k[u], x[u])

\* The innermost frame of t is gone, and the context is what it was.
LEMMA Removing ==
  ASSUME NEW k \in [Task -> Seq(FrameT)], NEW k2 \in [Task -> Seq(FrameT)], NEW x, NEW x2, NEW t \in Task,
         NEW f, NEW cs, NEW hs, Grown(k, k2, t, f),
         Stacked(k2, x2), Single(k2), Nested(k2, hs), FrameNames(k2, cs, hs),
         x[t].held = IF f.kind \in Marks THEN x2[t].held ELSE f.old,
         \A u \in Task : u # t => x[u] = x2[u]
  PROVE  InOrder(k, x, t, cs, hs)
<1>1. \A u \in Task : \A i \in DOMAIN k[u] :
        i \in Nat /\ i > 0 /\ Shift(u, t, i) \in DOMAIN k2[u] /\ k2[u][Shift(u, t, i)] = k[u][i]
  <2>1. Shifted(k, k2, t, f)
    BY Positions
  <2> QED
    BY <2>1 DEF Shifted
<1>2. Single(k)
  <2>1. ASSUME NEW u \in Task, NEW v \in Task, NEW i \in DOMAIN k[u], NEW j \in DOMAIN k[v], Alike(k[u][i], k[v][j])
        PROVE  u = v /\ i = j
    <3>1. u = v /\ Shift(u, t, i) = Shift(v, t, j)
      BY <1>1, <2>1 DEF Single
    <3> QED
      BY <3>1, <1>1, Shifting
  <2> QED
    BY <2>1 DEF Single
<1>3. Nested(k, hs)
  <2>1. ASSUME NEW u \in Task, NEW i \in DOMAIN k[u], NEW j \in DOMAIN k[u],
               k[u][i].kind \in Polls, k[u][j].kind \in Polls, i < j
        PROVE  hs[k[u][j].id].born < hs[k[u][i].id].born
    <3>1. Shift(u, t, i) < Shift(u, t, j)
      BY <1>1, <2>1, Shifting
    <3> QED
      BY <3>1, <1>1, <2>1 DEF Nested
  <2> QED
    BY <2>1 DEF Nested
<1>4. FrameNames(k, cs, hs)
  <2>1. ASSUME NEW u \in Task, NEW i \in DOMAIN k[u]
        PROVE  /\ k[u][i].kind \in Marks => k[u][i].id \in DOMAIN cs /\ k[u][i].old \in OrNone(cs)
               /\ k[u][i].kind \in Polls => k[u][i].id \in DOMAIN hs /\ k[u][i].old \in OrNone(hs)
    <3>1. k[u][i] = k2[u][Shift(u, t, i)] /\ Shift(u, t, i) \in DOMAIN k2[u]
      BY <1>1
    <3> QED
      BY <3>1 DEF FrameNames
  <2> QED
    BY <2>1 DEF FrameNames
<1>5. ASSUME NEW u \in Task, u # t PROVE Shaped(k[u]) /\ Handed(k[u], x[u]) /\ Watched(k[u], x[u])
  BY <1>5 DEF Stacked, Grown
<1>6. Shaped(k2[t]) /\ Handed(k2[t], x2[t])
  BY DEF Stacked
<1>7. 1 \in DOMAIN k2[t] /\ k2[t][1] = f
  BY DEF Grown
<1>8. ASSUME NEW i \in DOMAIN k[t] PROVE i + 1 \in DOMAIN k2[t] /\ k2[t][i + 1] = k[t][i] /\ i \in Nat /\ i > 0
  BY <1>1 DEF Grown
<1>9. Shaped(k[t])
  <2>1. ASSUME NEW i \in DOMAIN k[t]
        PROVE  k[t][i].kind # "tell" /\ (k[t][i].kind \in {"call", "flush"} => i = 1)
    BY <1>6, <1>8 DEF Shaped
  <2> QED
    BY <2>1 DEF Shaped
<1>a. ASSUME NEW i \in DOMAIN k[t], f.kind \notin Marks PROVE k[t][i].kind = "attempt"
  <2>1. i + 1 # 1 /\ k2[t][1].kind # "tell"
    BY <1>7, <1>8, <1>a DEF Marks
  <2>2. k2[t][i + 1].kind \notin {"tell", "call", "flush"}
    BY <2>1, <1>6, <1>8 DEF Shaped
  <2>3. k2[t][i + 1] \in FrameT
    BY <1>8, Lengths
  <2> QED
    BY <2>2, <2>3, <1>8 DEF FrameT, Marks, Polls
<1>b. ASSUME NEW i \in DOMAIN k[t]
      PROVE  /\ k[t][i].kind \in Polls /\ i + 1 \in DOMAIN k[t] => k[t][i].old = k[t][i + 1].id
             /\ k[t][i].kind = "flush" => x[t].held = k[t][i].old
             /\ k[t][i].kind = "attempt" /\ (i = 1 \/ k[t][i - 1].kind \in Marks) => x[t].held = k[t][i].id
  <2>1. i + 1 \in DOMAIN k2[t] /\ k2[t][i + 1] = k[t][i] /\ i \in Nat /\ i > 0
    BY <1>8
  <2>2. i + 1 \in DOMAIN k[t] => i + 1 + 1 \in DOMAIN k2[t] /\ k2[t][i + 1 + 1] = k[t][i + 1]
    BY <1>8
  <2>3. k[t][i].kind \in Polls /\ i + 1 \in DOMAIN k[t] => k[t][i].old = k[t][i + 1].id
    BY <2>1, <2>2, <1>6 DEF Handed
  <2>4. CASE f.kind \in Marks
    <3>1. x[t].held = x2[t].held
      BY <2>4
    <3>2. k[t][i].kind = "flush" => x[t].held = k[t][i].old
      BY <3>1, <2>1, <1>6 DEF Handed
    <3>3. i # 1 /\ k[t][i].kind = "attempt" /\ k[t][i - 1].kind \in Marks => x[t].held = k[t][i].id
      <4> SUFFICES ASSUME i # 1, k[t][i].kind = "attempt", k[t][i - 1].kind \in Marks PROVE x[t].held = k[t][i].id
        OBVIOUS
      <4>1. i - 1 \in DOMAIN k[t]
        BY <2>1, Lengths
      <4> DEFINE j == i + 1
      <4>2. k2[t][j - 1].kind \in Marks
        BY <4>1, <1>8, <2>1
      <4>3. j \in DOMAIN k2[t] /\ k2[t][j].kind = "attempt" /\ k2[t][j].id = k[t][i].id
        BY <2>1
      <4> HIDE DEF j
      <4>4. x2[t].held = k2[t][j].id
        BY <4>2, <4>3, <1>6 DEF Handed
      <4> QED
        BY <4>3, <4>4, <3>1
    <3>4. i = 1 /\ k[t][i].kind = "attempt" => x[t].held = k[t][i].id
      BY <3>1, <2>1, <2>4, <1>6, <1>7 DEF Handed
    <3> QED
      BY <2>3, <3>2, <3>3, <3>4
  <2>5. CASE f.kind \notin Marks
    <3>1. f \in FrameT
      BY <1>7, Lengths
    <3>2. x[t].held = f.old /\ f.kind \in Polls
      BY <2>5, <3>1 DEF FrameT
    <3>3. k[t][i].kind = "attempt" /\ (i # 1 => k[t][i - 1].kind = "attempt")
      <4>1. i # 1 => i - 1 \in DOMAIN k[t]
        BY <2>1, Lengths
      <4> QED
        BY <4>1, <1>a, <2>5
    <3>4. i = 1 => f.old = k[t][i].id
      BY <2>1, <3>2, <1>6, <1>7 DEF Handed
    <3> QED
      BY <2>3, <3>2, <3>3, <3>4 DEF Marks
  <2> QED
    BY <2>4, <2>5
<1>c. Handed(k[t], x[t])
  BY <1>b DEF Handed
<1> QED
  BY <1>2, <1>3, <1>4, <1>5, <1>9, <1>c DEF InOrder

\* A call that runs still has its attempts around it, a pass held back still waits for those it waited for.
LEMMA Remaining ==
  ASSUME NEW k \in [Task -> Seq(FrameT)], NEW k2, NEW t \in Task, NEW f,
         NEW es, NEW cs, NEW hs, Grown(k, k2, t, f), Running(k2, es, cs, hs), Settled(k2, cs, hs),
         f.kind = "attempt" => \A i \in DOMAIN k[t] : k[t][i].kind = "attempt"
  PROVE  Running(k, es, cs, hs) /\ Settled(k, cs, hs)
<1>1. Shifted(k, k2, t, f)
  BY Positions
<1>2. ASSUME NEW u \in Task, NEW i \in DOMAIN k[u], k[u][i].kind = "call"
      PROVE  Depends(k[u][i].id, u, k, es, cs, hs)
  <2>1. Depends(k[u][i].id, u, k2, es, cs, hs)
    <3>1. Shift(u, t, i) \in DOMAIN k2[u] /\ k2[u][Shift(u, t, i)] = k[u][i]
      BY <1>1 DEF Shifted
    <3> QED
      BY <3>1, <1>2 DEF Running
  <2>2. ASSUME NEW j \in DOMAIN k2[u], k2[u][j].kind = "attempt"
        PROVE  \E j2 \in DOMAIN k[u] : k[u][j2] = k2[u][j]
    <3>1. k2[u][j] = f /\ u = t => FALSE
      BY <1>2, <2>2
    <3> QED
      BY <3>1, <1>1 DEF Shifted
  <2>3. ASSUME NEW y \in cs[k[u][i].id].under
        PROVE  \E j \in DOMAIN k[u] : k[u][j].kind = "attempt" /\ k[u][j].id = y
    <3>1. PICK j \in DOMAIN k2[u] : k2[u][j].kind = "attempt" /\ k2[u][j].id = y
      BY <2>1 DEF Depends, Leans
    <3> QED
      BY <3>1, <2>2
  <2> QED
    BY <2>1, <2>3 DEF Depends, Leans
<1>3. ASSUME NEW u \in Task, NEW i \in DOMAIN k[u], k[u][i].kind \in Polls,
             NEW m \in DOMAIN hs[k[u][i].id].records, NEW y \in cs[hs[k[u][i].id].records[m].call].under
      PROVE  Awaited(y, u, i, k, hs)
  <2>1. /\ Shift(u, t, i) \in DOMAIN k2[u] /\ k2[u][Shift(u, t, i)] = k[u][i] /\ i \in Nat /\ i > 0
        /\ \A j \in DOMAIN k[u] : j \in Nat
    BY <1>1 DEF Shifted
  <2>2. Awaited(y, u, Shift(u, t, i), k2, hs)
    BY <2>1, <1>3 DEF Settled
  <2>3. ASSUME NEW j \in DOMAIN k2[u], Shift(u, t, i) <= j, k2[u][j].kind = "attempt", k2[u][j].id = y
        PROVE  Awaited(y, u, i, k, hs)
    <3>1. ~ (u = t /\ j = 1)
      BY <2>1, <2>3 DEF Shift
    <3>2. PICK j2 \in DOMAIN k[u] : j = Shift(u, t, j2) /\ k2[u][j] = k[u][j2]
      BY <3>1, <1>1 DEF Shifted
    <3>3. i <= j2
      BY <3>2, <2>1, <2>3, Shifting
    <3> QED
      BY <3>2, <3>3, <2>3 DEF Awaited
  <2> QED
    BY <2>2, <2>3 DEF Awaited
<1> QED
  BY <1>2, <1>3 DEF Running, Settled

-----------------------------------------------------------------------------
(* The flags of a call *)

\* The calls are the same but for their flags.
Reflagged(cs, cs2) ==
  /\ cs2 \in Seq(CallT) /\ Len(cs2) = Len(cs) /\ DOMAIN cs2 = DOMAIN cs
  /\ \A c \in DOMAIN cs : cs2[c].entry = cs[c].entry /\ cs2[c].by = cs[c].by /\ cs2[c].under = cs[c].under

Silenced(cs, c) == [cs EXCEPT ![c].alive = FALSE]
Succeeded(cs, c) == [cs EXCEPT ![c].passed = TRUE]
Blamed(cs, c) == [cs EXCEPT ![c].failed = TRUE]

LEMMA Flags ==
  ASSUME NEW cs \in Seq(CallT), NEW c \in DOMAIN cs
  PROVE  /\ Reflagged(cs, Silenced(cs, c)) /\ Reflagged(cs, Succeeded(cs, c)) /\ Reflagged(cs, Blamed(cs, c))
         /\ ~Silenced(cs, c)[c].alive /\ Succeeded(cs, c)[c].passed /\ Blamed(cs, c)[c].failed
         /\ \A d \in DOMAIN cs :
              /\ Silenced(cs, c)[d].failed = cs[d].failed /\ Silenced(cs, c)[d].passed = cs[d].passed
              /\ Succeeded(cs, c)[d].failed = cs[d].failed /\ Succeeded(cs, c)[d].alive = cs[d].alive
              /\ Blamed(cs, c)[d].alive = cs[d].alive /\ Blamed(cs, c)[d].passed = cs[d].passed
              /\ d # c => /\ Silenced(cs, c)[d].alive = cs[d].alive
                          /\ Succeeded(cs, c)[d].passed = cs[d].passed
                          /\ Blamed(cs, c)[d].failed = cs[d].failed
<1> DEFINE d1 == [cs[c] EXCEPT !.alive = FALSE]
           d2 == [cs[c] EXCEPT !.passed = TRUE]
           d3 == [cs[c] EXCEPT !.failed = TRUE]
<1>1. cs[c] \in CallT
  BY Lengths
<1>2. d1 \in CallT /\ d1.alive = FALSE /\ d1.failed = cs[c].failed /\ d1.passed = cs[c].passed
      /\ d1.entry = cs[c].entry /\ d1.by = cs[c].by /\ d1.under = cs[c].under
  BY <1>1 DEF CallT
<1>3. d2 \in CallT /\ d2.passed = TRUE /\ d2.failed = cs[c].failed /\ d2.alive = cs[c].alive
      /\ d2.entry = cs[c].entry /\ d2.by = cs[c].by /\ d2.under = cs[c].under
  BY <1>1 DEF CallT
<1>4. d3 \in CallT /\ d3.failed = TRUE /\ d3.alive = cs[c].alive /\ d3.passed = cs[c].passed
      /\ d3.entry = cs[c].entry /\ d3.by = cs[c].by /\ d3.under = cs[c].under
  BY <1>1 DEF CallT
<1>5. Silenced(cs, c) = [cs EXCEPT ![c] = d1] /\ Succeeded(cs, c) = [cs EXCEPT ![c] = d2]
      /\ Blamed(cs, c) = [cs EXCEPT ![c] = d3]
  BY DEF Silenced, Succeeded, Blamed
<1> HIDE DEF d1, d2, d3
<1>6. /\ Silenced(cs, c) \in Seq(CallT) /\ Succeeded(cs, c) \in Seq(CallT) /\ Blamed(cs, c) \in Seq(CallT)
      /\ Changed(cs, Silenced(cs, c), c, d1) /\ Changed(cs, Succeeded(cs, c), c, d2)
      /\ Changed(cs, Blamed(cs, c), c, d3)
  <2>1. Silenced(cs, c) \in Seq(CallT) /\ Changed(cs, Silenced(cs, c), c, d1)
    <3>1. [cs EXCEPT ![c] = d1] \in Seq(CallT) /\ Changed(cs, [cs EXCEPT ![c] = d1], c, d1)
      BY <1>2, Changing
    <3> QED
      BY <3>1, <1>5
  <2>2. Succeeded(cs, c) \in Seq(CallT) /\ Changed(cs, Succeeded(cs, c), c, d2)
    <3>1. [cs EXCEPT ![c] = d2] \in Seq(CallT) /\ Changed(cs, [cs EXCEPT ![c] = d2], c, d2)
      BY <1>3, Changing
    <3> QED
      BY <3>1, <1>5
  <2>3. Blamed(cs, c) \in Seq(CallT) /\ Changed(cs, Blamed(cs, c), c, d3)
    <3>1. [cs EXCEPT ![c] = d3] \in Seq(CallT) /\ Changed(cs, [cs EXCEPT ![c] = d3], c, d3)
      BY <1>4, Changing
    <3> QED
      BY <3>1, <1>5
  <2> QED
    BY <2>1, <2>2, <2>3
<1>7. ASSUME NEW d \in DOMAIN cs, d # c
      PROVE  Silenced(cs, c)[d] = cs[d] /\ Succeeded(cs, c)[d] = cs[d] /\ Blamed(cs, c)[d] = cs[d]
  BY <1>6, <1>7 DEF Changed
<1>8. Silenced(cs, c)[c] = d1 /\ Succeeded(cs, c)[c] = d2 /\ Blamed(cs, c)[c] = d3
  BY <1>6 DEF Changed
<1>9. Reflagged(cs, Silenced(cs, c))
  BY <1>2, <1>6, <1>7, <1>8 DEF Changed, Reflagged
<1>a. Reflagged(cs, Succeeded(cs, c))
  BY <1>3, <1>6, <1>7, <1>8 DEF Changed, Reflagged
<1>b. Reflagged(cs, Blamed(cs, c))
  BY <1>4, <1>6, <1>7, <1>8 DEF Changed, Reflagged
<1>c. ASSUME NEW d \in DOMAIN cs
      PROVE  /\ Silenced(cs, c)[d].failed = cs[d].failed /\ Silenced(cs, c)[d].passed = cs[d].passed
             /\ Succeeded(cs, c)[d].failed = cs[d].failed /\ Succeeded(cs, c)[d].alive = cs[d].alive
             /\ Blamed(cs, c)[d].alive = cs[d].alive /\ Blamed(cs, c)[d].passed = cs[d].passed
  BY <1>2, <1>3, <1>4, <1>7, <1>8
<1> QED
  BY <1>2, <1>3, <1>4, <1>7, <1>8, <1>9, <1>a, <1>b, <1>c

\* What does not look at the flags.
LEMMA Unflagged ==
  ASSUME NEW k, NEW x, NEW es, NEW cs, NEW hs, NEW cs2, Reflagged(cs, cs2), Inv(k, x, es, cs, hs)
  PROVE  /\ Typed(k, x, es, cs2, hs) /\ Named(k, x, es, cs2, hs) /\ Births(es, hs)
         /\ Running(k, es, cs2, hs) /\ Settled(k, cs2, hs)
<1>1. Typed(k, x, es, cs2, hs) /\ Births(es, hs)
  BY DEF Inv, Typed, Reflagged
<1>2. Named(k, x, es, cs2, hs)
  <2>1. ContextNames(x, es, cs2, hs) /\ FrameNames(k, cs2, hs) /\ RecordNames(cs2, hs)
    BY DEF Inv, Named, ContextNames, FrameNames, RecordNames, Reflagged, OrNone
  <2>2. CallNames(es, cs2, hs)
    BY DEF Inv, Named, CallNames, Reflagged
  <2> QED
    BY <2>1, <2>2 DEF Inv, Named
<1>3. Running(k, es, cs2, hs)
  <2>1. FrameNames(k, cs, hs) /\ Running(k, es, cs, hs)
    BY DEF Inv, Named, Data
  <2>2. ASSUME NEW u \in Task, NEW i \in DOMAIN k[u], k[u][i].kind = "call"
        PROVE  Depends(k[u][i].id, u, k, es, cs2, hs)
    <3>1. k[u][i].id \in DOMAIN cs /\ Depends(k[u][i].id, u, k, es, cs, hs)
      BY <2>1, <2>2 DEF FrameNames, Running, Marks
    <3> QED
      BY <3>1 DEF Depends, Leans, Reflagged
  <2> QED
    BY <2>2 DEF Running
<1>4. Settled(k, cs2, hs)
  <2>1. FrameNames(k, cs, hs) /\ RecordNames(cs, hs) /\ Settled(k, cs, hs)
    BY DEF Inv, Named, Data
  <2>2. ASSUME NEW u \in Task, NEW i \in DOMAIN k[u], k[u][i].kind \in Polls, NEW m \in DOMAIN hs[k[u][i].id].records
        PROVE  cs2[hs[k[u][i].id].records[m].call].under = cs[hs[k[u][i].id].records[m].call].under
    BY <2>1, <2>2 DEF FrameNames, RecordNames, Reflagged
  <2> QED
    BY <2>1, <2>2 DEF Settled
<1> QED
  BY <1>1, <1>2, <1>3, <1>4

-----------------------------------------------------------------------------
(* A call or a callback begins *)

\* The marker is of t and may be put on its stack.
Markable(t, kind, mark, k, es, hs) ==
  /\ mark \in CallT /\ mark.alive /\ ~mark.passed
  /\ mark.entry \in OrNone(es) /\ mark.under \subseteq DOMAIN hs
  /\ mark.entry = None => mark.under = {}
  /\ \/ /\ kind = "call"
        /\ \A i \in DOMAIN k[t] : k[t][i].kind = "attempt"
        /\ Leans(mark, t, k, es, hs)
     \/ /\ kind = "tell" /\ 1 \in DOMAIN k[t] /\ k[t][1].kind \in {"call", "flush"}

LEMMA BeginMark ==
  ASSUME NEW k, NEW x, NEW es, NEW cs, NEW hs, Inv(k, x, es, cs, hs),
         NEW t \in Task, NEW kind, NEW mark, Markable(t, kind, mark, k, es, hs)
  PROVE  Inv([k EXCEPT ![t] = <<[kind |-> kind, id |-> Len(cs) + 1, old |-> x[t].observed]>> \o @],
             Watching(x, t, Len(cs) + 1), es, Append(cs, mark), hs)
<1> DEFINE n  == Len(cs) + 1
           f  == [kind |-> kind, id |-> n, old |-> x[t].observed]
           k2 == [k EXCEPT ![t] = <<f>> \o @]
           x2 == Watching(x, t, n)
           cs2 == Append(cs, mark)
<1>1. /\ k \in [Task -> Seq(FrameT)] /\ x \in [Task -> CtxT]
      /\ es \in Seq(EntryT) /\ cs \in Seq(CallT) /\ hs \in Seq(AttemptT) /\ mark \in CallT
  BY DEF Inv, Typed, Markable
<1>2. cs2 \in Seq(CallT) /\ Extended(cs, cs2, n, mark)
  BY <1>1, Extending
<1>3. n \in Nat
  BY <1>2 DEF Extended
<1>4. x[t] \in CtxT /\ x[t].observed \in Nat
  BY <1>1 DEF CtxT
<1>5. f \in FrameT /\ f.kind = kind /\ f.id = n /\ f.old = x[t].observed /\ kind \in Marks /\ kind \notin Polls
  BY <1>3, <1>4 DEF FrameT, Marks, Polls, Markable
<1>6. Grown(k, k2, t, f)
  BY <1>1, <1>5, Pushing
<1>7. /\ x2 \in [Task -> CtxT] /\ x2[t].observed = n /\ x2[t].scope = x[t].scope /\ x2[t].held = x[t].held
      /\ \A u \in Task : u # t => x2[u] = x[u]
  <2>1. Moved(x, x2, t, x[t].scope, n, x[t].held)
    BY <1>1, <1>3, Context
  <2> QED
    BY <2>1 DEF Moved
<1> HIDE DEF n, f, k2, x2, cs2
<1>8. \A u \in Task : DOMAIN k2[u] = 1..Len(k2[u]) /\ Len(k2[u]) \in Nat
  BY <1>6, Lengths DEF Grown
<1>a. ASSUME NEW u \in Task, NEW i \in DOMAIN k2[u]
      PROVE  \/ u = t /\ i = 1 /\ k2[u][i] = f
             \/ u = t /\ i # 1 /\ i - 1 \in DOMAIN k[u] /\ k2[u][i] = k[u][i - 1]
             \/ u # t /\ i \in DOMAIN k[u] /\ k2[u][i] = k[u][i]
  BY <1>6 DEF Grown
<1>b. Typed(k2, x2, es, cs2, hs)
  BY <1>1, <1>2, <1>6, <1>7 DEF Typed, Grown
<1>c. Named(k2, x2, es, cs2, hs)
  <2>0. Named(k, x, es, cs, hs)
    BY DEF Inv
  <2>1. ContextNames(x2, es, cs2, hs)
    BY <2>0, <1>2, <1>7 DEF Named, ContextNames, Extended, OrNone
  <2>2. FrameNames(k2, cs2, hs)
    <3>1. FrameNames(k, cs, hs) /\ x[t].observed \in OrNone(cs)
      BY <2>0 DEF Named, ContextNames
    <3>2. ASSUME NEW g, NEW u \in Task, NEW j \in DOMAIN k[u], g = k[u][j]
          PROVE  /\ g.kind \in Marks => g.id \in DOMAIN cs2 /\ g.old \in OrNone(cs2)
                 /\ g.kind \in Polls => g.id \in DOMAIN hs /\ g.old \in OrNone(hs)
      BY <3>1, <3>2, <1>2 DEF FrameNames, Extended, OrNone
    <3>3. /\ f.kind \in Marks => f.id \in DOMAIN cs2 /\ f.old \in OrNone(cs2)
          /\ f.kind \in Polls => f.id \in DOMAIN hs /\ f.old \in OrNone(hs)
      BY <3>1, <1>5, <1>2 DEF Extended, OrNone
    <3> QED
      BY <3>2, <3>3, <1>a DEF FrameNames
  <2>3. CallNames(es, cs2, hs)
    BY <2>0, <1>2 DEF Named, CallNames, Markable, Extended, OrNone
  <2>4. RecordNames(cs2, hs)
    BY <2>0, <1>2 DEF Named, RecordNames, Extended
  <2> QED
    BY <2>0, <2>1, <2>2, <2>3, <2>4 DEF Named
<1>d. Births(es, hs)
  BY DEF Inv
<1>e. Stacked(k2, x2)
  <2>0. Stacked(k, x)
    BY DEF Inv, Struct
  <2>1. ASSUME NEW u \in Task, u # t PROVE Shaped(k2[u]) /\ Handed(k2[u], x2[u]) /\ Watched(k2[u], x2[u])
    BY <2>0, <2>1, <1>6, <1>7 DEF Grown, Stacked
  <2>a. Shaped(k[t]) /\ Handed(k[t], x[t])
    BY <2>0 DEF Stacked
  <2>b. ASSUME NEW i \in DOMAIN k2[t], i # 1
        PROVE  i \in Nat /\ i - 1 \in Nat /\ i - 1 \in DOMAIN k[t] /\ k2[t][i] = k[t][i - 1] /\ i - 1 + 1 = i
    BY <2>b, <1>8, <1>a
  <2>c. 1 \in DOMAIN k2[t] /\ k2[t][1] = f /\ \A i \in DOMAIN k[t] : i + 1 \in DOMAIN k2[t] /\ k2[t][i + 1] = k[t][i]
    BY <1>6 DEF Grown
  <2>2. Shaped(k2[t])
    <3>1. CASE kind = "call"
      <4>1. \A i \in DOMAIN k[t] : k[t][i].kind = "attempt"
        BY <3>1 DEF Markable
      <4> QED
        BY <3>1, <4>1, <2>b, <2>c, <1>5 DEF Shaped
    <3>2. CASE kind = "tell"
      <4>1. 1 \in DOMAIN k[t] /\ k[t][1].kind \in {"call", "flush"}
        BY <3>2 DEF Markable
      <4>2. 2 \in DOMAIN k2[t] /\ k2[t][2] = k[t][1]
        BY <4>1, <2>c
      <4>3. \A i \in DOMAIN k[t] : k[t][i].kind \in {"call", "tell", "flush"} => i = 1 /\ k[t][i].kind # "tell"
        BY <4>1, <2>a DEF Shaped
      <4> QED
        BY <3>2, <4>1, <4>2, <4>3, <2>b, <2>c, <1>5 DEF Shaped
    <3> QED
      BY <3>1, <3>2 DEF Markable
  <2>3. Handed(k2[t], x2[t])
    <3>1. ASSUME NEW i \in DOMAIN k2[t]
          PROVE  /\ k2[t][i].kind \in Polls /\ i + 1 \in DOMAIN k2[t] => k2[t][i].old = k2[t][i + 1].id
                 /\ k2[t][i].kind = "flush" => x2[t].held = k2[t][i].old
                 /\ k2[t][i].kind = "attempt" /\ (i = 1 \/ k2[t][i - 1].kind \in Marks) => x2[t].held = k2[t][i].id
      <4>1. CASE i = 1
        BY <4>1, <2>c, <1>5 DEF Polls
      <4>2. CASE i # 1
        <5>1. i + 1 \in DOMAIN k2[t] => i \in DOMAIN k[t] /\ k2[t][i + 1] = k[t][i]
          <6>1. i + 1 # 1 /\ i + 1 - 1 = i
            BY <2>b, <4>2
          <6> QED
            BY <6>1, <2>b
        <5>2. k2[t][i - 1].kind \in Marks => i - 1 = 1 \/ (i - 1 - 1 \in DOMAIN k[t] /\ k[t][i - 1 - 1].kind \in Marks)
          <6>1. i - 1 \in DOMAIN k2[t]
            BY <2>b, <4>2, <1>8
          <6> QED
            BY <6>1, <2>b, <4>2
        <5> DEFINE j == i - 1
        <5>3. j \in DOMAIN k[t] /\ k2[t][i] = k[t][j] /\ i = j + 1
          BY <2>b, <4>2
        <5>4. k2[t][i - 1].kind \in Marks => j = 1 \/ (k[t][j - 1].kind \in Marks)
          BY <5>2
        <5> HIDE DEF j
        <5> QED
          BY <5>1, <5>3, <5>4, <4>2, <2>a, <1>7 DEF Handed
      <4> QED
        BY <4>1, <4>2
    <3> QED
      BY <3>1 DEF Handed
  <2>4. Watched(k2[t], x2[t])
    BY <1>5, <1>6, <1>7 DEF Watched, Grown
  <2> QED
    BY <2>1, <2>2, <2>3, <2>4 DEF Stacked
<1>f. Single(k2)
  <2>0. Single(k) /\ FrameNames(k, cs, hs)
    BY DEF Inv, Struct, Named
  <2>1. ASSUME NEW u \in Task, NEW i \in DOMAIN k[u] PROVE ~Alike(f, k[u][i]) /\ ~Alike(k[u][i], f)
    BY <2>0, <1>2, <1>5 DEF FrameNames, Alike, Extended
  <2> QED
    BY <2>0, <2>1, <1>1, <1>6, Adding
<1>g. Marked(k2, cs2)
  <2>1. \A c : On(k2, Marks, c) <=> On(k, Marks, c) \/ n = c
    BY <1>1, <1>5, <1>6, Names
  <2>2. cs2[n].alive
    BY <1>2 DEF Extended, Markable
  <2> QED
    BY <2>1, <2>2, <1>2 DEF Inv, Struct, Marked, Extended
<1>h. Holds(k2, hs)
  <2>1. \A a : On(k2, {"attempt"}, a) <=> On(k, {"attempt"}, a)
    BY <1>1, <1>5, <1>6, Names DEF Marks
  <2> QED
    BY <2>1 DEF Inv, Struct, Holds
<1>i. Ends(k2, hs)
  <2>1. f.kind # "attempt" /\ f.kind # "flush"
    BY <1>5 DEF Marks
  <2>2. Ends(k, hs)
    BY DEF Inv, Struct
  <2>3. ASSUME NEW u \in Task, NEW i \in DOMAIN k2[u]
        PROVE  /\ k2[u][i].kind = "attempt" => hs[k2[u][i].id].end = "open"
               /\ k2[u][i].kind = "flush" => hs[k2[u][i].id].end = "passed"
    <3>1. CASE k2[u][i] = f
      BY <3>1, <2>1
    <3>2. ASSUME NEW j \in DOMAIN k[u], k2[u][i] = k[u][j]
          PROVE  /\ k2[u][i].kind = "attempt" => hs[k2[u][i].id].end = "open"
                 /\ k2[u][i].kind = "flush" => hs[k2[u][i].id].end = "passed"
      BY <3>2, <2>2 DEF Ends
    <3> QED
      BY <3>1, <3>2, <1>a
  <2> QED
    BY <2>3 DEF Ends
<1>j. Nested(k2, hs)
  <2>0. Nested(k, hs)
    BY DEF Inv, Struct
  <2>1. ASSUME NEW u \in Task, NEW i \in DOMAIN k2[u], NEW j \in DOMAIN k2[u],
               k2[u][i].kind \in Polls, k2[u][j].kind \in Polls, i < j
        PROVE  hs[k2[u][j].id].born < hs[k2[u][i].id].born
    <3>0. i \in Nat /\ j \in Nat
      BY <1>8
    <3>1. PICK i2 \in DOMAIN k[u] : k2[u][i] = k[u][i2] /\ i2 = IF u = t THEN i - 1 ELSE i
      BY <2>1, <1>a, <1>5
    <3>2. PICK j2 \in DOMAIN k[u] : k2[u][j] = k[u][j2] /\ j2 = IF u = t THEN j - 1 ELSE j
      BY <2>1, <1>a, <1>5
    <3>3. i2 < j2
      BY <3>0, <3>1, <3>2, <2>1
    <3> QED
      BY <3>1, <3>2, <3>3, <2>0, <2>1 DEF Nested
  <2> QED
    BY <2>1 DEF Nested
<1>k. Running(k2, es, cs2, hs)
  <2>0. Running(k, es, cs, hs) /\ FrameNames(k, cs, hs)
    BY DEF Inv, Data, Named
  <2>1. ASSUME NEW u \in Task, NEW i \in DOMAIN k2[u], k2[u][i].kind = "call"
        PROVE  Depends(k2[u][i].id, u, k2, es, cs2, hs)
    <3>0. \A c : Depends(c, u, k, es, cs2, hs) => Depends(c, u, k2, es, cs2, hs)
      BY <1>1, <1>6, Covering
    <3>1. CASE k2[u][i] = f /\ u = t
      <4>1. cs2[k2[u][i].id] = mark
        BY <3>1, <1>2, <1>5 DEF Extended
      <4>2. kind = "call"
        BY <3>1, <2>1, <1>5
      <4>3. Leans(mark, t, k, es, hs)
        BY <4>2 DEF Markable
      <4>4. Depends(k2[u][i].id, u, k, es, cs2, hs)
        BY <4>1, <4>3, <3>1 DEF Depends
      <4> QED
        BY <4>4, <3>0
    <3>2. ASSUME NEW i2 \in DOMAIN k[u], k2[u][i] = k[u][i2]
          PROVE  Depends(k2[u][i].id, u, k2, es, cs2, hs)
      <4>1. cs2[k2[u][i].id] = cs[k[u][i2].id]
        BY <3>2, <2>0, <2>1, <1>2 DEF Extended, FrameNames, Marks
      <4>2. Depends(k[u][i2].id, u, k, es, cs, hs)
        BY <3>2, <2>0, <2>1 DEF Running
      <4>3. Depends(k2[u][i].id, u, k, es, cs2, hs)
        BY <4>1, <4>2, <3>2 DEF Depends, Leans
      <4> QED
        BY <4>3, <3>0
    <3> QED
      BY <3>1, <3>2, <1>a
  <2> QED
    BY <2>1 DEF Running
<1>l. Recorded(es, cs2, hs)
  <2>1. Recorded(es, cs, hs) /\ RecordNames(cs, hs)
    BY DEF Inv, Data, Named
  <2>2. \A a \in DOMAIN hs : \A i \in DOMAIN hs[a].records : cs2[hs[a].records[i].call] = cs[hs[a].records[i].call]
    BY <2>1, <1>2 DEF RecordNames, Extended
  <2> QED
    BY <2>1, <2>2 DEF Recorded, Fit
<1>m. Wanted(es, hs)
  BY DEF Inv, Data
<1>n. Settled(k2, cs2, hs)
  <2>0. Settled(k, cs, hs) /\ RecordNames(cs, hs) /\ FrameNames(k, cs, hs)
    BY DEF Inv, Data, Named
  <2>1. ASSUME NEW u \in Task, NEW i \in DOMAIN k2[u], k2[u][i].kind \in Polls,
               NEW m \in DOMAIN hs[k2[u][i].id].records,
               NEW y \in cs2[hs[k2[u][i].id].records[m].call].under
        PROVE  Awaited(y, u, i, k2, hs)
    <3>1. PICK i2 \in DOMAIN k[u] : i = Shift(u, t, i2) /\ k2[u][i] = k[u][i2]
      <4>1. Shifted(k, k2, t, f)
        BY <1>1, <1>6, Positions
      <4> QED
        BY <4>1, <2>1, <1>5 DEF Shifted
    <3>2. cs2[hs[k2[u][i].id].records[m].call] = cs[hs[k[u][i2].id].records[m].call]
      BY <3>1, <2>0, <2>1, <1>2 DEF RecordNames, FrameNames, Extended
    <3>3. Awaited(y, u, i2, k, hs)
      BY <3>1, <3>2, <2>0, <2>1 DEF Settled
    <3> QED
      BY <3>1, <3>3, <1>1, <1>6, Covering
  <2> QED
    BY <2>1 DEF Settled
<1>o. Reportable(cs2)
  BY <1>2 DEF Inv, Data, Reportable, Extended, Markable
<1>z. Inv(k2, x2, es, cs2, hs)
  BY <1>b, <1>c, <1>d, <1>e, <1>f, <1>g, <1>h, <1>i, <1>j, <1>k, <1>l, <1>m, <1>n, <1>o DEF Inv, Struct, Data
<1> QED
  BY <1>z DEF n, f, k2, x2, cs2
-----------------------------------------------------------------------------
(* A call or a callback ends *)

LEMMA EndMark ==
  ASSUME NEW k, NEW x, NEW es, NEW cs, NEW hs, Inv(k, x, es, cs, hs),
         NEW t \in Task, NEW o, o \in OrNone(cs), 1 \in DOMAIN k[t], k[t][1].kind \in Marks,
         2 \in DOMAIN k[t] /\ k[t][2].kind \in Marks => o = k[t][2].id
  PROVE  Inv([k EXCEPT ![t] = Tail(@)], Watching(x, t, o), es, Silenced(cs, k[t][1].id), hs)
<1> DEFINE f   == k[t][1]
           k2  == [k EXCEPT ![t] = Tail(@)]
           x2  == Watching(x, t, o)
           cs2 == Silenced(cs, f.id)
<1>1. k \in [Task -> Seq(FrameT)] /\ x \in [Task -> CtxT] /\ cs \in Seq(CallT)
  BY DEF Inv, Typed
<1>2. k[t] \in Seq(FrameT) /\ k[t] # <<>> /\ Head(k[t]) = f
  BY <1>1
<1>3. k2 \in [Task -> Seq(FrameT)] /\ Grown(k2, k, t, f)
  <2> HIDE DEF f, x2, cs2
  <2> QED
    BY <1>1, <1>2, Popping
<1>4. f.id \in DOMAIN cs /\ f.kind \in Marks /\ f.kind \notin Polls
  BY DEF Inv, Named, FrameNames, Marks, Polls
<1>5. o \in Nat
  BY <1>1, Lengths DEF OrNone, None
<1>6. /\ x2 \in [Task -> CtxT] /\ x2[t].observed = o /\ x2[t].scope = x[t].scope /\ x2[t].held = x[t].held
      /\ \A u \in Task : u # t => x2[u] = x[u]
  <2>1. Moved(x, x2, t, x[t].scope, o, x[t].held)
    BY <1>1, <1>5, Context
  <2> QED
    BY <2>1 DEF Moved
<1>7. Reflagged(cs, cs2) /\ ~cs2[f.id].alive
  BY <1>1, <1>4, Flags
<1>8. \A d \in DOMAIN cs : /\ cs2[d].failed = cs[d].failed /\ cs2[d].passed = cs[d].passed
                           /\ d # f.id => cs2[d].alive = cs[d].alive
  BY <1>1, <1>4, Flags
<1> HIDE DEF f, k2, x2, cs2
<1>9. /\ Typed(k, x, es, cs2, hs) /\ Named(k, x, es, cs2, hs) /\ Births(es, hs)
      /\ Running(k, es, cs2, hs) /\ Settled(k, cs2, hs)
  BY <1>7, Unflagged
<1>a. Stacked(k, x) /\ Single(k) /\ Nested(k, hs) /\ FrameNames(k, cs2, hs)
  BY <1>9 DEF Inv, Struct, Named
<1>b. InOrder(k2, x2, t, cs2, hs)
  <2>1. x2[t].held = IF f.kind \in Marks THEN x[t].held ELSE f.old
    BY <1>4, <1>6
  <2>2. k \in [Task -> Seq(FrameT)] /\ k2 \in [Task -> Seq(FrameT)] /\ Grown(k2, k, t, f)
    BY <1>1, <1>3
  <2>3. \A u \in Task : u # t => x2[u] = x[u]
    BY <1>6
  <2> QED
    BY <2>1, <2>2, <2>3, <1>a, Removing
<1>c. Running(k2, es, cs2, hs) /\ Settled(k2, cs2, hs)
  BY <1>3, <1>4, <1>9, Remaining DEF Marks
<1>d. Typed(k2, x2, es, cs2, hs)
  BY <1>3, <1>6, <1>9 DEF Typed
<1>e. Named(k2, x2, es, cs2, hs)
  <2>1. ContextNames(x2, es, cs2, hs)
    BY <1>6, <1>7, <1>9 DEF Named, ContextNames, OrNone, Reflagged
  <2> QED
    BY <2>1, <1>9, <1>b DEF Named, InOrder
<1>f. Stacked(k2, x2)
  <2>1. Watched(k2[t], x2[t])
    <3>1. 1 \in DOMAIN k2[t] => 2 \in DOMAIN k[t] /\ k[t][2] = k2[t][1]
      <4>1. \A i \in DOMAIN k2[t] : i + 1 \in DOMAIN k[t] /\ k[t][i + 1] = k2[t][i]
        BY <1>3 DEF Grown
      <4> QED
        BY <4>1
    <3> QED
      BY <3>1, <1>6 DEF Watched
  <2> QED
    BY <2>1, <1>b DEF Stacked, InOrder
<1>g. Marked(k2, cs2)
  <2>1. \A c : On(k, Marks, c) <=> On(k2, Marks, c) \/ f.id = c
    BY <1>3, <1>4, Names
  <2>2. ~On(k2, Marks, f.id)
    <3>1. SUFFICES ASSUME NEW u \in Task, NEW i \in DOMAIN k2[u], k2[u][i].kind \in Marks, k2[u][i].id = f.id
                   PROVE FALSE
      BY DEF On
    <3>2. Shift(u, t, i) \in DOMAIN k[u] /\ k[u][Shift(u, t, i)] = k2[u][i] /\ i \in Nat /\ i > 0
      <4>1. Shifted(k2, k, t, f)
        BY <1>3, Positions
      <4> QED
        BY <4>1 DEF Shifted
    <3>3. Alike(k[u][Shift(u, t, i)], k[t][1])
      BY <3>1, <3>2, <1>4 DEF Alike, f
    <3>4. u = t /\ Shift(u, t, i) = 1
      BY <3>2, <3>3, <1>a DEF Single
    <3> QED
      BY <3>2, <3>4 DEF Shift
  <2> QED
    BY <2>1, <2>2, <1>7, <1>8 DEF Inv, Struct, Marked, Reflagged
<1>h. Holds(k2, hs)
  <2>1. \A a : On(k, {"attempt"}, a) <=> On(k2, {"attempt"}, a)
    BY <1>3, <1>4, Names DEF Marks
  <2> QED
    BY <2>1 DEF Inv, Struct, Holds
<1>i. Ends(k2, hs)
  <2>1. ASSUME NEW u \in Task, NEW i \in DOMAIN k2[u] PROVE \E j \in DOMAIN k[u] : k2[u][i] = k[u][j]
    BY <1>3, Positions DEF Shifted
  <2>2. Ends(k, hs)
    BY DEF Inv, Struct
  <2>3. ASSUME NEW u \in Task, NEW i \in DOMAIN k2[u]
        PROVE  /\ k2[u][i].kind = "attempt" => hs[k2[u][i].id].end = "open"
               /\ k2[u][i].kind = "flush" => hs[k2[u][i].id].end = "passed"
    <3>1. PICK j \in DOMAIN k[u] : k2[u][i] = k[u][j]
      BY <2>1
    <3> QED
      BY <3>1, <2>2 DEF Ends
  <2> QED
    BY <2>3 DEF Ends
<1>j. Recorded(es, cs2, hs)
  <2>1. Recorded(es, cs, hs) /\ RecordNames(cs, hs)
    BY DEF Inv, Named, Data
  <2>2. ASSUME NEW a \in DOMAIN hs, NEW i \in DOMAIN hs[a].records
        PROVE  Fit(hs[a].records[i], a, es, cs2, hs)
    <3>1. hs[a].records[i].call \in DOMAIN cs /\ Fit(hs[a].records[i], a, es, cs, hs)
      BY <2>1 DEF RecordNames, Recorded
    <3>2. ~cs2[hs[a].records[i].call].alive
      BY <3>1, <1>7, <1>8 DEF Fit
    <3> QED
      BY <3>1, <3>2, <1>7, <1>8 DEF Fit, Reflagged
  <2> QED
    BY <2>2 DEF Recorded
<1>k. Wanted(es, hs) /\ Reportable(cs2)
  BY <1>7, <1>8 DEF Inv, Data, Reportable, Reflagged
<1>l. Inv(k2, x2, es, cs2, hs)
  BY <1>9, <1>b, <1>c, <1>d, <1>e, <1>f, <1>g, <1>h, <1>i, <1>j, <1>k DEF Inv, Struct, Data, InOrder
<1> QED
  BY <1>l DEF k2, x2, cs2, f

-----------------------------------------------------------------------------
(* An attempt begins *)

OnlyAttempts(s) == \A i \in DOMAIN s : s[i].kind = "attempt"

\* The attempt is new.
Holdable(a, es, hs) ==
  /\ a \in AttemptT /\ a.alive /\ a.end = "open" /\ a.records = <<>> /\ a.born = Moment(es, hs) + 1
  /\ a.scope \in OrNone(es)
  /\ a.scope # None /\ a.wanted => es[a.scope].wants

LEMMA BeginHolding ==
  ASSUME NEW k, NEW x, NEW es, NEW cs, NEW hs, Inv(k, x, es, cs, hs), NEW t \in Task, NEW a,
         Holdable(a, es, hs), OnlyAttempts(k[t])
  PROVE  Inv([k EXCEPT ![t] = <<[kind |-> "attempt", id |-> Len(hs) + 1, old |-> x[t].held]>> \o @],
             Keeping(x, t, Len(hs) + 1), es, cs, Append(hs, a))
<1> DEFINE n   == Len(hs) + 1
           f   == [kind |-> "attempt", id |-> n, old |-> x[t].held]
           k2  == [k EXCEPT ![t] = <<f>> \o @]
           x2  == Keeping(x, t, n)
           hs2 == Append(hs, a)
<1>1. /\ k \in [Task -> Seq(FrameT)] /\ x \in [Task -> CtxT]
      /\ es \in Seq(EntryT) /\ cs \in Seq(CallT) /\ hs \in Seq(AttemptT)
  BY DEF Inv, Typed
<1>0. a \in AttemptT /\ a.alive /\ a.end = "open" /\ DOMAIN a.records = {} /\ a.born = Moment(es, hs) + 1
  BY DEF Holdable
<1>2. hs2 \in Seq(AttemptT) /\ Extended(hs, hs2, n, a) /\ Len(hs2) = Len(hs) + 1
  BY <1>0, <1>1, Extending
<1>3. n \in Nat
  BY <1>2 DEF Extended
<1>4. x[t] \in CtxT /\ x[t].held \in Nat
  BY <1>1 DEF CtxT
<1>5. f \in FrameT /\ f.kind = "attempt" /\ f.id = n /\ f.old = x[t].held /\ f.kind \in Polls /\ f.kind \notin Marks
  BY <1>3, <1>4 DEF FrameT, Marks, Polls
<1>6. Grown(k, k2, t, f)
  BY <1>1, <1>5, Pushing
<1>7. Moved(x, x2, t, x[t].scope, x[t].observed, n)
  BY <1>1, <1>3, Context
<1> HIDE DEF n, f, k2, x2, hs2
<1>8. Shifted(k, k2, t, f)
  BY <1>1, <1>6, Positions
<1>9. Named(k, x, es, cs, hs) /\ Stacked(k, x) /\ Single(k) /\ Nested(k, hs) /\ Births(es, hs)
  BY DEF Inv, Struct
<1>a. ASSUME NEW u \in Task, NEW i \in DOMAIN k2[u]
      PROVE  \/ u = t /\ i = 1 /\ k2[u][i] = f
             \/ \E j \in DOMAIN k[u] : i = Shift(u, t, j) /\ k2[u][i] = k[u][j]
  BY <1>8 DEF Shifted
<1>b. Typed(k2, x2, es, cs, hs2)
  BY <1>1, <1>2, <1>6, <1>7 DEF Typed, Grown, Moved
<1>c. Named(k2, x2, es, cs, hs2)
  <2>1. ContextNames(x2, es, cs, hs2)
    BY <1>9, <1>2, <1>7 DEF Named, ContextNames, Extended, OrNone, Moved
  <2>2. FrameNames(k2, cs, hs2)
    <3>1. FrameNames(k, cs, hs) /\ x[t].held \in OrNone(hs)
      BY <1>9 DEF Named, ContextNames
    <3>2. ASSUME NEW g, NEW u \in Task, NEW j \in DOMAIN k[u], g = k[u][j]
          PROVE  /\ g.kind \in Marks => g.id \in DOMAIN cs /\ g.old \in OrNone(cs)
                 /\ g.kind \in Polls => g.id \in DOMAIN hs2 /\ g.old \in OrNone(hs2)
      BY <3>1, <3>2, <1>2 DEF FrameNames, Extended, OrNone
    <3>3. /\ f.kind \in Marks => f.id \in DOMAIN cs /\ f.old \in OrNone(cs)
          /\ f.kind \in Polls => f.id \in DOMAIN hs2 /\ f.old \in OrNone(hs2)
      BY <3>1, <1>5, <1>2 DEF Extended, OrNone
    <3> QED
      BY <3>2, <3>3, <1>a DEF FrameNames
  <2>3. CallNames(es, cs, hs2)
    BY <1>9, <1>2 DEF Named, CallNames, Extended
  <2>4. RecordNames(cs, hs2)
    <3> QED
      BY <1>0, <1>9, <1>2 DEF Named, RecordNames, Extended
  <2>5. AttemptNames(es, hs2)
    BY <1>9, <1>2 DEF Named, AttemptNames, Extended, Holdable
  <2> QED
    BY <1>9, <2>1, <2>2, <2>3, <2>4, <2>5 DEF Named
<1>d. Births(es, hs2)
  <2>1. Moment(es, hs2) = Moment(es, hs) + 1 /\ Moment(es, hs) \in Nat
    <3>1. Len(hs2) = Len(hs) + 1 /\ Len(hs) \in Nat /\ Len(es) \in Nat
      BY <1>1, <1>2, Lengths
    <3> QED
      BY <3>1 DEF Moment
  <2>2. ASSUME NEW e \in DOMAIN es PROVE es[e].born <= Moment(es, hs2)
    <3>1. es[e] \in EntryT
      BY <1>1, Lengths
    <3>2. es[e].born \in Nat /\ es[e].born <= Moment(es, hs)
      BY <3>1, <1>9 DEF EntryT, Births
    <3> QED
      BY <3>2, <2>1
  <2>3. ASSUME NEW b \in DOMAIN hs2 PROVE hs2[b].born <= Moment(es, hs2)
    <3>1. CASE b = n
      BY <3>1, <2>1, <1>0, <1>2 DEF Extended
    <3>2. CASE b # n
      <4>1. b \in DOMAIN hs /\ hs2[b] = hs[b]
        BY <3>2, <1>2 DEF Extended
      <4>2. hs[b] \in AttemptT
        BY <4>1, <1>1, Lengths
      <4>3. hs[b].born \in Nat /\ hs[b].born <= Moment(es, hs)
        BY <4>1, <4>2, <1>9 DEF AttemptT, Births
      <4> QED
        BY <4>1, <4>3, <2>1
    <3> QED
      BY <3>1, <3>2
  <2>4. ASSUME NEW e \in DOMAIN es, NEW b \in DOMAIN hs2 PROVE es[e].born # hs2[b].born
    <3>1. CASE b = n
      <4>1. es[e] \in EntryT
        BY <1>1, Lengths
      <4>2. es[e].born \in Nat /\ es[e].born <= Moment(es, hs)
        BY <4>1, <1>9 DEF EntryT, Births
      <4> QED
        BY <4>2, <3>1, <2>1, <1>0, <1>2 DEF Extended
    <3>2. CASE b # n
      BY <3>2, <1>2, <1>9 DEF Extended, Births
    <3> QED
      BY <3>1, <3>2
  <2> QED
    BY <2>2, <2>3, <2>4 DEF Births
<1>e. Stacked(k2, x2)
  <2>1. ASSUME NEW u \in Task, u # t PROVE Shaped(k2[u]) /\ Handed(k2[u], x2[u]) /\ Watched(k2[u], x2[u])
    BY <2>1, <1>9, <1>6, <1>7 DEF Grown, Stacked, Moved
  <2>2. ASSUME NEW i \in DOMAIN k2[t] PROVE k2[t][i].kind = "attempt"
    BY <1>5, <1>a DEF OnlyAttempts
  <2>3. Shaped(k2[t])
    BY <2>2 DEF Shaped
  <2>4. Watched(k2[t], x2[t])
    BY <2>2 DEF Watched, Marks
  <2>5. 1 \in DOMAIN k2[t] /\ k2[t][1] = f /\ \A i \in DOMAIN k[t] : k2[t][i + 1] = k[t][i]
    BY <1>6 DEF Grown
  <2>6. \A i \in DOMAIN k2[t] : i # 1 => i - 1 \in DOMAIN k[t] /\ k2[t][i] = k[t][i - 1]
    BY <1>6 DEF Grown
  <2>7. \A i \in DOMAIN k2[t] : i \in Nat /\ i > 0
    BY <1>8 DEF Shifted
  <2>8. Handed(k[t], x[t])
    BY <1>9 DEF Stacked
  <2>9. ASSUME NEW i \in DOMAIN k2[t], i + 1 \in DOMAIN k2[t] PROVE k2[t][i].old = k2[t][i + 1].id
    <3>1. i \in Nat /\ i > 0 /\ i + 1 # 1 /\ i + 1 - 1 = i
      BY <2>7
    <3>2. i \in DOMAIN k[t] /\ k2[t][i + 1] = k[t][i]
      BY <3>1, <2>6, <2>9
    <3>3. CASE i = 1
      <4>1. 1 \in DOMAIN k[t] /\ k[t][1].kind = "attempt" /\ k2[t][2] = k[t][1] /\ k2[t][1] = f
        <5>1. 1 \in DOMAIN k[t] /\ k2[t][1 + 1] = k[t][1] /\ 1 + 1 = 2
          BY <3>2, <3>3
        <5>2. k[t][1].kind = "attempt"
          BY <5>1 DEF OnlyAttempts
        <5> QED
          BY <5>1, <5>2, <2>5
      <4>2. x[t].held = k[t][1].id
        BY <4>1, <2>8 DEF Handed
      <4> QED
        BY <4>1, <4>2, <3>3, <1>5
    <3>4. CASE i # 1
      <4> DEFINE j == i - 1
      <4>1. j \in DOMAIN k[t] /\ k2[t][i] = k[t][j] /\ j + 1 = i
        BY <3>1, <3>4, <2>6
      <4>2. k[t][j].kind \in Polls
        BY <4>1, <2>2 DEF Polls
      <4> HIDE DEF j
      <4>3. k[t][j].old = k[t][i].id
        BY <4>1, <4>2, <3>2, <2>8 DEF Handed
      <4> QED
        BY <4>1, <4>3, <3>2
    <3> QED
      BY <3>3, <3>4
  <2>10. ASSUME NEW i \in DOMAIN k2[t], i = 1 \/ k2[t][i - 1].kind \in Marks PROVE x2[t].held = k2[t][i].id
    <3>1. i # 1 => i - 1 \in DOMAIN k2[t]
      <4>1. k2[t] \in Seq(FrameT)
        BY <1>6 DEF Grown
      <4> QED
        BY <4>1, <2>7, Lengths
    <3>2. i = 1
      BY <3>1, <2>10, <2>2 DEF Marks
    <3> QED
      BY <3>2, <2>5, <1>5, <1>7 DEF Moved
  <2>11. Handed(k2[t], x2[t])
    BY <2>2, <2>9, <2>10 DEF Handed
  <2> QED
    BY <2>1, <2>3, <2>4, <2>11 DEF Stacked
<1>f. Single(k2)
  <2>1. ASSUME NEW u \in Task, NEW i \in DOMAIN k[u] PROVE ~Alike(f, k[u][i]) /\ ~Alike(k[u][i], f)
    <3>1. k[u][i] \in FrameT
      BY <1>1, Lengths
    <3>2. k[u][i].kind \in Polls => k[u][i].id \in DOMAIN hs
      BY <1>9 DEF Named, FrameNames
    <3> QED
      BY <3>1, <3>2, <1>2, <1>5 DEF Alike, Extended, FrameT
  <2> QED
    BY <2>1, <1>1, <1>6, <1>9, Adding
<1>g. Marked(k2, cs)
  <2>1. \A c : On(k2, Marks, c) <=> On(k, Marks, c)
    BY <1>1, <1>5, <1>6, Names
  <2> QED
    BY <2>1 DEF Inv, Struct, Marked
<1>h. Holds(k2, hs2)
  <2>1. \A b : On(k2, {"attempt"}, b) <=> On(k, {"attempt"}, b) \/ n = b
    <3>1. f.kind \in {"attempt"} /\ f.id = n
      BY <1>5
    <3> QED
      BY <3>1, <1>1, <1>6, Names
  <2>2. hs2[n].alive
    BY <1>0, <1>2 DEF Extended
  <2> QED
    BY <2>1, <2>2, <1>2 DEF Inv, Struct, Holds, Extended
<1>i. Ends(k2, hs2)
  <2>1. Ends(k, hs) /\ FrameNames(k, cs, hs)
    BY <1>9 DEF Inv, Struct, Named
  <2>2. ASSUME NEW u \in Task, NEW i \in DOMAIN k2[u]
        PROVE  /\ k2[u][i].kind = "attempt" => hs2[k2[u][i].id].end = "open"
               /\ k2[u][i].kind = "flush" => hs2[k2[u][i].id].end = "passed"
    <3>1. CASE k2[u][i] = f
      BY <3>1, <1>0, <1>2, <1>5 DEF Extended
    <3>2. ASSUME NEW j \in DOMAIN k[u], k2[u][i] = k[u][j]
          PROVE  /\ k2[u][i].kind = "attempt" => hs2[k2[u][i].id].end = "open"
                 /\ k2[u][i].kind = "flush" => hs2[k2[u][i].id].end = "passed"
      <4>1. k[u][j].kind \in Polls => hs2[k[u][j].id] = hs[k[u][j].id]
        BY <2>1, <1>2 DEF FrameNames, Extended
      <4>2. /\ k[u][j].kind = "attempt" => hs[k[u][j].id].end = "open"
            /\ k[u][j].kind = "flush" => hs[k[u][j].id].end = "passed"
        BY <2>1 DEF Ends
      <4> QED
        BY <4>1, <4>2, <3>2 DEF Polls
    <3> QED
      BY <3>1, <3>2, <1>a
  <2> QED
    BY <2>2 DEF Ends
<1>j. Nested(k2, hs2)
  <2>1. FrameNames(k, cs, hs)
    BY <1>9 DEF Named
  <2>2. \A u \in Task : \A j \in DOMAIN k[u] : k[u][j].kind \in Polls => 
          k[u][j].id \in DOMAIN hs /\ hs2[k[u][j].id] = hs[k[u][j].id]
    BY <2>1, <1>2 DEF FrameNames, Extended
  <2>3. ASSUME NEW u \in Task, NEW i \in DOMAIN k2[u], NEW j \in DOMAIN k2[u],
               k2[u][i].kind \in Polls, k2[u][j].kind \in Polls, i < j
        PROVE  hs2[k2[u][j].id].born < hs2[k2[u][i].id].born
    <3>1. i \in Nat /\ i > 0 /\ j \in Nat /\ j > 0
      BY <1>8 DEF Shifted
    <3>2. CASE u = t /\ i = 1 /\ k2[u][i] = f
      <4>1. PICK j2 \in DOMAIN k[u] : k2[u][j] = k[u][j2]
        BY <3>1, <3>2, <2>3, <1>a
      <4>2. hs[k[u][j2].id].born <= Moment(es, hs) /\ hs[k[u][j2].id].born \in Nat
        <5>1. k[u][j2].id \in DOMAIN hs
          BY <4>1, <2>2, <2>3
        <5>2. hs[k[u][j2].id] \in AttemptT
          BY <5>1, <1>1, Lengths
        <5> QED
          BY <5>1, <5>2, <1>9 DEF Births, AttemptT
      <4>3. hs2[k2[u][i].id].born = Moment(es, hs) + 1
        BY <3>2, <1>0, <1>2, <1>5 DEF Extended
      <4>4. Moment(es, hs) \in Nat
        <5>1. Len(es) \in Nat /\ Len(hs) \in Nat
          BY <1>1, Lengths
        <5> QED
          BY <5>1 DEF Moment
      <4>5. hs2[k2[u][j].id].born = hs[k[u][j2].id].born
        BY <4>1, <2>2, <2>3
      <4> QED
        BY <4>2, <4>3, <4>4, <4>5
    <3>3. CASE ~(u = t /\ i = 1 /\ k2[u][i] = f)
      <4>1. PICK i2 \in DOMAIN k[u] : i = Shift(u, t, i2) /\ k2[u][i] = k[u][i2]
        BY <3>3, <1>a
      <4>2. j # 1
        BY <3>1, <2>3
      <4>3. PICK j2 \in DOMAIN k[u] : j = Shift(u, t, j2) /\ k2[u][j] = k[u][j2]
        BY <4>2, <1>a
      <4>4. i2 \in Nat /\ j2 \in Nat
        BY <1>8 DEF Shifted
      <4>5. i2 < j2
        BY <4>1, <4>3, <4>4, <2>3, Shifting
      <4>6. hs[k[u][j2].id].born < hs[k[u][i2].id].born
        BY <4>1, <4>3, <4>5, <2>3, <1>9 DEF Nested
      <4>7. hs2[k2[u][j].id] = hs[k[u][j2].id] /\ hs2[k2[u][i].id] = hs[k[u][i2].id]
        BY <4>1, <4>3, <2>2, <2>3
      <4> QED
        BY <4>6, <4>7
    <3> QED
      BY <3>2, <3>3
  <2> QED
    BY <2>3 DEF Nested
<1>k. Running(k2, es, cs, hs2)
  <2>0. Running(k, es, cs, hs) /\ FrameNames(k, cs, hs) /\ CallNames(es, cs, hs)
    BY <1>9 DEF Inv, Data, Named
  <2>1. ASSUME NEW u \in Task, NEW i \in DOMAIN k2[u], k2[u][i].kind = "call"
        PROVE  Depends(k2[u][i].id, u, k2, es, cs, hs2)
    <3>1. PICK i2 \in DOMAIN k[u] : k2[u][i] = k[u][i2]
      BY <2>1, <1>5, <1>a
    <3>2. Depends(k2[u][i].id, u, k, es, cs, hs)
      BY <3>1, <2>0, <2>1 DEF Running
    <3>3. k2[u][i].id \in DOMAIN cs
      BY <3>1, <2>0, <2>1 DEF FrameNames, Marks
    <3>4. \A y \in cs[k2[u][i].id].under : hs2[y] = hs[y]
      BY <3>3, <2>0, <1>2 DEF CallNames, Extended
    <3>5. Depends(k2[u][i].id, u, k, es, cs, hs2)
      BY <3>2, <3>4 DEF Depends, Leans
    <3> QED
      BY <3>5, <1>1, <1>6, Covering
  <2> QED
    BY <2>1 DEF Running
<1>l. Recorded(es, cs, hs2)
  <2>0. Recorded(es, cs, hs) /\ RecordNames(cs, hs) /\ CallNames(es, cs, hs)
    BY <1>9 DEF Inv, Data, Named
  <2>1. ASSUME NEW b \in DOMAIN hs2, NEW i \in DOMAIN hs2[b].records
        PROVE  Fit(hs2[b].records[i], b, es, cs, hs2)
    <3>1. b \in DOMAIN hs /\ hs2[b] = hs[b]
      <4> QED
        BY <1>0, <1>2 DEF Extended
    <3>2. Fit(hs[b].records[i], b, es, cs, hs) /\ hs[b].records[i].call \in DOMAIN cs
      BY <3>1, <2>0 DEF Recorded, RecordNames
    <3>3. \A y \in cs[hs[b].records[i].call].under : hs2[y] = hs[y]
      BY <3>2, <2>0, <1>2 DEF CallNames, Extended
    <3> QED
      BY <3>1, <3>2, <3>3 DEF Fit
  <2> QED
    BY <2>1 DEF Recorded
<1>m. Wanted(es, hs2)
  BY <1>2 DEF Inv, Data, Wanted, Extended, Holdable
<1>n. Settled(k2, cs, hs2)
  <2>0. Settled(k, cs, hs) /\ RecordNames(cs, hs) /\ FrameNames(k, cs, hs) /\ CallNames(es, cs, hs)
    BY <1>9 DEF Inv, Data, Named
  <2>1. ASSUME NEW u \in Task, NEW i \in DOMAIN k2[u], k2[u][i].kind \in Polls,
               NEW m \in DOMAIN hs2[k2[u][i].id].records,
               NEW y \in cs[hs2[k2[u][i].id].records[m].call].under
        PROVE  Awaited(y, u, i, k2, hs2)
    <3>1. k2[u][i] # f
      <4> QED
        BY <1>0, <1>2, <1>5 DEF Extended
    <3>2. PICK i2 \in DOMAIN k[u] : i = Shift(u, t, i2) /\ k2[u][i] = k[u][i2]
      BY <3>1, <1>a
    <3>3. k[u][i2].id \in DOMAIN hs /\ hs2[k[u][i2].id] = hs[k[u][i2].id]
      BY <3>2, <2>0, <2>1, <1>2 DEF FrameNames, Extended
    <3>4. hs[k[u][i2].id].records[m].call \in DOMAIN cs
      BY <3>2, <3>3, <2>0 DEF RecordNames
    <3>5. hs2[y] = hs[y]
      BY <3>2, <3>3, <3>4, <2>0, <1>2 DEF CallNames, Extended
    <3>6. Awaited(y, u, i2, k, hs)
      BY <3>2, <3>3, <2>0, <2>1 DEF Settled
    <3>7. Awaited(y, u, i2, k, hs2)
      BY <3>5, <3>6 DEF Awaited
    <3> QED
      BY <3>2, <3>7, <1>1, <1>6, Covering
  <2> QED
    BY <2>1 DEF Settled
<1>o. Reportable(cs)
  BY DEF Inv, Data
<1>z. Inv(k2, x2, es, cs, hs2)
  BY <1>b, <1>c, <1>d, <1>e, <1>f, <1>g, <1>h, <1>i, <1>j, <1>k, <1>l, <1>m, <1>n, <1>o DEF Inv, Struct, Data
<1> QED
  BY <1>z DEF n, f, k2, x2, hs2

-----------------------------------------------------------------------------
(* An attempt ends *)

\* Attempt a has another flag and another end, and is otherwise what it was.
Closed(hs, hs2, a, alive, end) ==
  /\ hs2 \in Seq(AttemptT) /\ Len(hs2) = Len(hs) /\ DOMAIN hs2 = DOMAIN hs
  /\ \A b \in DOMAIN hs : /\ hs2[b].scope = hs[b].scope /\ hs2[b].wanted = hs[b].wanted
                          /\ hs2[b].born = hs[b].born /\ hs2[b].records = hs[b].records
                          /\ b # a => hs2[b].alive = hs[b].alive /\ hs2[b].end = hs[b].end
  /\ hs2[a].alive = alive /\ hs2[a].end = end

Ended(hs, a, end) == [hs EXCEPT ![a].alive = FALSE, ![a].end = end]
CutShort(hs, a) == [hs EXCEPT ![a].end = "cut"]

LEMMA Closing ==
  ASSUME NEW hs \in Seq(AttemptT), NEW a \in DOMAIN hs, NEW end, end \in {"open", "passed", "failed", "cut"}
  PROVE  Closed(hs, Ended(hs, a, end), a, FALSE, end) /\ Closed(hs, CutShort(hs, a), a, hs[a].alive, "cut")
<1> DEFINE d1 == [hs[a] EXCEPT !.alive = FALSE, !.end = end]
           d2 == [hs[a] EXCEPT !.end = "cut"]
<1>1. hs[a] \in AttemptT
  BY Lengths
<1>2. /\ d1 \in AttemptT /\ d1.alive = FALSE /\ d1.end = end /\ d1.scope = hs[a].scope
      /\ d1.wanted = hs[a].wanted /\ d1.born = hs[a].born /\ d1.records = hs[a].records
  BY <1>1 DEF AttemptT
<1>3. /\ d2 \in AttemptT /\ d2.alive = hs[a].alive /\ d2.end = "cut" /\ d2.scope = hs[a].scope
      /\ d2.wanted = hs[a].wanted /\ d2.born = hs[a].born /\ d2.records = hs[a].records
  BY <1>1 DEF AttemptT
<1>4. Ended(hs, a, end) = [hs EXCEPT ![a] = d1] /\ CutShort(hs, a) = [hs EXCEPT ![a] = d2]
  BY DEF Ended, CutShort
<1> HIDE DEF d1, d2
<1>5. [hs EXCEPT ![a] = d1] \in Seq(AttemptT) /\ Changed(hs, [hs EXCEPT ![a] = d1], a, d1)
  BY <1>2, Changing
<1>6. [hs EXCEPT ![a] = d2] \in Seq(AttemptT) /\ Changed(hs, [hs EXCEPT ![a] = d2], a, d2)
  BY <1>3, Changing
<1>7. Ended(hs, a, end) \in Seq(AttemptT) /\ Changed(hs, Ended(hs, a, end), a, d1)
  BY <1>4, <1>5
<1>8. CutShort(hs, a) \in Seq(AttemptT) /\ Changed(hs, CutShort(hs, a), a, d2)
  BY <1>4, <1>6
<1>9. Closed(hs, Ended(hs, a, end), a, FALSE, end)
  BY <1>2, <1>7 DEF Changed, Closed
<1>a. Closed(hs, CutShort(hs, a), a, hs[a].alive, "cut")
  BY <1>3, <1>8 DEF Changed, Closed
<1> QED
  BY <1>9, <1>a

\* What does not look at an attempt's flag, and looks at its end for one thing only.
LEMMA Unclosed ==
  ASSUME NEW k, NEW x, NEW es, NEW cs, NEW hs, NEW hs2, NEW a \in DOMAIN hs, NEW alive, NEW end,
         Closed(hs, hs2, a, alive, end), Inv(k, x, es, cs, hs)
  PROVE  /\ Typed(k, x, es, cs, hs2) /\ Named(k, x, es, cs, hs2) /\ Births(es, hs2) /\ Nested(k, hs2)
         /\ Running(k, es, cs, hs2) /\ Recorded(es, cs, hs2) /\ Wanted(es, hs2)
         /\ end \in {"passed", "cut"} \/ hs[a].end \notin {"passed", "cut"} => Settled(k, cs, hs2)
<1>1. Typed(k, x, es, cs, hs2) /\ Births(es, hs2)
  BY DEF Inv, Typed, Births, Moment, Closed
<1>2. Named(k, x, es, cs, hs2)
  <2>1. Named(k, x, es, cs, hs)
    BY DEF Inv
  <2>2. ContextNames(x, es, cs, hs2) /\ FrameNames(k, cs, hs2) /\ CallNames(es, cs, hs2)
    BY <2>1 DEF Named, ContextNames, FrameNames, CallNames, Closed, OrNone
  <2>3. AttemptNames(es, hs2) /\ RecordNames(cs, hs2)
    BY <2>1 DEF Named, AttemptNames, RecordNames, Closed
  <2> QED
    BY <2>1, <2>2, <2>3 DEF Named
<1>3. FrameNames(k, cs, hs) /\ CallNames(es, cs, hs) /\ RecordNames(cs, hs)
  BY DEF Inv, Named
<1>4. Nested(k, hs2)
  <2>1. ASSUME NEW u \in Task, NEW i \in DOMAIN k[u], k[u][i].kind \in Polls
        PROVE  hs2[k[u][i].id].born = hs[k[u][i].id].born
    BY <2>1, <1>3 DEF FrameNames, Closed
  <2>2. Nested(k, hs)
    BY DEF Inv, Struct
  <2> QED
    BY <2>1, <2>2 DEF Nested
<1>5. ASSUME NEW c \in DOMAIN cs, NEW y \in cs[c].under PROVE hs2[y].born = hs[y].born /\ y \in DOMAIN hs
  BY <1>3 DEF CallNames, Closed
<1>6. Running(k, es, cs, hs2)
  <2>1. ASSUME NEW u \in Task, NEW i \in DOMAIN k[u], k[u][i].kind = "call"
        PROVE  Depends(k[u][i].id, u, k, es, cs, hs2)
    <3>1. Depends(k[u][i].id, u, k, es, cs, hs)
      BY <2>1 DEF Inv, Data, Running
    <3>2. k[u][i].id \in DOMAIN cs
      BY <2>1, <1>3 DEF FrameNames, Marks
    <3> QED
      BY <3>1, <3>2, <1>5 DEF Depends, Leans
  <2> QED
    BY <2>1 DEF Running
<1>7. Recorded(es, cs, hs2)
  <2>1. ASSUME NEW b \in DOMAIN hs2, NEW i \in DOMAIN hs2[b].records PROVE Fit(hs2[b].records[i], b, es, cs, hs2)
    <3>1. b \in DOMAIN hs /\ hs2[b].records = hs[b].records /\ hs2[b].born = hs[b].born
      BY DEF Closed
    <3>2. Fit(hs[b].records[i], b, es, cs, hs) /\ hs[b].records[i].call \in DOMAIN cs
      BY <3>1, <1>3 DEF Inv, Data, Recorded, RecordNames
    <3> QED
      BY <3>1, <3>2, <1>5 DEF Fit
  <2> QED
    BY <2>1 DEF Recorded
<1>8. Wanted(es, hs2)
  BY DEF Inv, Data, Wanted, Closed
<1>9. ASSUME end \in {"passed", "cut"} \/ hs[a].end \notin {"passed", "cut"} PROVE Settled(k, cs, hs2)
  <2>1. ASSUME NEW u \in Task, NEW i \in DOMAIN k[u], k[u][i].kind \in Polls,
               NEW m \in DOMAIN hs2[k[u][i].id].records, NEW y \in cs[hs2[k[u][i].id].records[m].call].under
        PROVE  Awaited(y, u, i, k, hs2)
    <3>1. k[u][i].id \in DOMAIN hs /\ hs2[k[u][i].id].records = hs[k[u][i].id].records
      BY <2>1, <1>3 DEF FrameNames, Closed
    <3>2. Awaited(y, u, i, k, hs)
      BY <2>1, <3>1 DEF Inv, Data, Settled
    <3>3. y \in DOMAIN hs
      <4>1. hs[k[u][i].id].records[m].call \in DOMAIN cs
        BY <3>1, <1>3 DEF RecordNames
      <4> QED
        BY <3>1, <4>1, <1>5
    <3>4. hs[y].end \in {"passed", "cut"} => hs2[y].end \in {"passed", "cut"}
      BY <3>3, <1>9 DEF Closed
    <3> QED
      BY <3>2, <3>4 DEF Awaited
  <2> QED
    BY <2>1 DEF Settled
<1> QED
  BY <1>1, <1>2, <1>4, <1>6, <1>7, <1>8, <1>9

\* Under an attempt or a flush there are attempts only.
LEMMA Beneath ==
  ASSUME NEW s \in Seq(FrameT), Shaped(s), 1 \in DOMAIN s, s[1].kind \notin Marks, NEW i \in DOMAIN s, i # 1
  PROVE  s[i].kind = "attempt"
<1>1. s[i] \in FrameT
  BY Lengths
<1>2. s[i].kind \notin {"tell", "call", "flush"}
  BY DEF Shaped, Marks
<1> QED
  BY <1>1, <1>2 DEF FrameT, Marks, Polls

\* The attempt or the flush on top of t is over.
Over(f, hs, alive, end) ==
  \/ f.kind = "attempt" /\ alive = FALSE /\ end = "failed"
  \/ f.kind = "flush" /\ alive = hs[f.id].alive /\ end \in {"passed", "cut"}

LEMMA EndPoll ==
  ASSUME NEW k, NEW x, NEW es, NEW cs, NEW hs, Inv(k, x, es, cs, hs),
         NEW t \in Task, NEW x2, NEW hs2, NEW alive, NEW end, 1 \in DOMAIN k[t],
         Moved(x, x2, t, x[t].scope, x[t].observed, k[t][1].old),
         Closed(hs, hs2, k[t][1].id, alive, end), Over(k[t][1], hs, alive, end)
  PROVE  Inv([k EXCEPT ![t] = Tail(@)], x2, es, cs, hs2)
<1> DEFINE f  == k[t][1]
           k2 == [k EXCEPT ![t] = Tail(@)]
<1>1. k \in [Task -> Seq(FrameT)] /\ x \in [Task -> CtxT] /\ hs \in Seq(AttemptT)
  BY DEF Inv, Typed
<1>2. k[t] \in Seq(FrameT) /\ k[t] # <<>> /\ Head(k[t]) = f
  BY <1>1
<1>3. k2 \in [Task -> Seq(FrameT)] /\ Grown(k2, k, t, f)
  <2> HIDE DEF f
  <2> QED
    BY <1>1, <1>2, Popping
<1>4. f.id \in DOMAIN hs /\ f.old \in OrNone(hs) /\ f.kind \in Polls /\ f.kind \notin Marks
  BY DEF Inv, Named, FrameNames, Marks, Polls, Over
<1> HIDE DEF f, k2
<1>5. k[t][1] = f
  BY DEF f
<1>6. Moved(x, x2, t, x[t].scope, x[t].observed, f.old) /\ Closed(hs, hs2, f.id, alive, end) /\ Over(f, hs, alive, end)
  BY <1>5
<1>7. Shifted(k2, k, t, f)
  BY <1>3, Positions
<1>8. Stacked(k, x) /\ Single(k) /\ Ends(k, hs)
  BY DEF Inv, Struct
<1>9. end \in {"passed", "cut"} \/ hs[f.id].end \notin {"passed", "cut"}
  BY <1>5, <1>6, <1>8 DEF Over, Ends
<1>a. /\ Typed(k, x, es, cs, hs2) /\ Named(k, x, es, cs, hs2) /\ Births(es, hs2) /\ Nested(k, hs2)
      /\ Running(k, es, cs, hs2) /\ Recorded(es, cs, hs2) /\ Wanted(es, hs2) /\ Settled(k, cs, hs2)
  BY <1>4, <1>6, <1>9, Unclosed
<1>b. InOrder(k2, x2, t, cs, hs2)
  <2>1. x2[t].held = IF f.kind \in Marks THEN x[t].held ELSE f.old
    BY <1>4, <1>6 DEF Moved
  <2>2. \A u \in Task : u # t => x2[u] = x[u]
    BY <1>6 DEF Moved
  <2>3. FrameNames(k, cs, hs2)
    BY <1>a DEF Named
  <2> QED
    BY <2>1, <2>2, <2>3, <1>1, <1>3, <1>8, <1>a, Removing
<1>c. ASSUME NEW i \in DOMAIN k2[t] PROVE k2[t][i].kind = "attempt"
  <2>1. i + 1 \in DOMAIN k[t] /\ k[t][i + 1] = k2[t][i]
    BY <1>3 DEF Grown
  <2>2. i + 1 # 1
    BY <1>7 DEF Shifted
  <2>3. Shaped(k[t])
    BY <1>8 DEF Stacked
  <2> QED
    BY <2>1, <2>2, <2>3, <1>2, <1>4, <1>5, Beneath
<1>d. Running(k2, es, cs, hs2) /\ Settled(k2, cs, hs2)
  BY <1>3, <1>a, <1>c, Remaining
<1>e. Typed(k2, x2, es, cs, hs2)
  BY <1>3, <1>6, <1>a DEF Typed, Moved
<1>f. Named(k2, x2, es, cs, hs2)
  <2>1. ContextNames(x2, es, cs, hs2)
    BY <1>4, <1>6, <1>a DEF Named, ContextNames, OrNone, Moved, Closed
  <2> QED
    BY <2>1, <1>a, <1>b DEF Named, InOrder
<1>g. Stacked(k2, x2)
  <2>1. Watched(k2[t], x2[t])
    BY <1>c DEF Watched, Marks
  <2> QED
    BY <2>1, <1>b DEF Stacked, InOrder
<1>h. ASSUME NEW u \in Task, NEW i \in DOMAIN k2[u]
      PROVE  /\ \E j \in DOMAIN k[u] : k2[u][i] = k[u][j]
             /\ k2[u][i].kind \in Polls => k2[u][i].id # f.id
  <2>1. Shift(u, t, i) \in DOMAIN k[u] /\ k[u][Shift(u, t, i)] = k2[u][i] /\ i \in Nat /\ i > 0
    BY <1>7 DEF Shifted
  <2>2. ASSUME k2[u][i].kind \in Polls, k2[u][i].id = f.id PROVE FALSE
    <3>1. Alike(k[u][Shift(u, t, i)], k[t][1])
      BY <2>1, <2>2, <1>4, <1>5 DEF Alike, Marks, Polls
    <3>2. u = t /\ Shift(u, t, i) = 1
      BY <2>1, <3>1, <1>8 DEF Single
    <3> QED
      BY <2>1, <3>2 DEF Shift
  <2> QED
    BY <2>1, <2>2
<1>i. Marked(k2, cs)
  <2>1. \A c : On(k, Marks, c) <=> On(k2, Marks, c)
    BY <1>3, <1>4, Names
  <2> QED
    BY <2>1 DEF Inv, Struct, Marked
<1>j. Holds(k2, hs2)
  <2>1. \A b : On(k, {"attempt"}, b) <=> On(k2, {"attempt"}, b) \/ (f.kind \in {"attempt"} /\ f.id = b)
    BY <1>3, Names
  <2>2. ~On(k2, {"attempt"}, f.id)
    BY <1>h DEF On, Polls
  <2>3. ASSUME NEW b \in DOMAIN hs2 PROVE hs2[b].alive <=> On(k2, {"attempt"}, b)
    <3>1. b \in DOMAIN hs /\ (hs[b].alive <=> On(k, {"attempt"}, b))
      BY <1>6 DEF Inv, Struct, Holds, Closed
    <3>2. CASE b = f.id
      <4>1. CASE f.kind = "attempt"
        BY <4>1, <3>2, <2>2, <1>6 DEF Over, Closed
      <4>2. CASE f.kind = "flush"
        BY <4>2, <3>1, <3>2, <2>1, <1>6 DEF Over, Closed
      <4> QED
        BY <4>1, <4>2, <1>4 DEF Polls
    <3>3. CASE b # f.id
      BY <3>1, <3>3, <2>1, <1>6 DEF Closed
    <3> QED
      BY <3>2, <3>3
  <2> QED
    BY <2>3 DEF Holds
<1>k. Ends(k2, hs2)
  <2>1. ASSUME NEW u \in Task, NEW i \in DOMAIN k2[u]
        PROVE  /\ k2[u][i].kind = "attempt" => hs2[k2[u][i].id].end = "open"
               /\ k2[u][i].kind = "flush" => hs2[k2[u][i].id].end = "passed"
    <3>1. PICK j \in DOMAIN k[u] : k2[u][i] = k[u][j]
      BY <1>h
    <3>2. k2[u][i].kind \in Polls => k2[u][i].id \in DOMAIN hs /\ k2[u][i].id # f.id
      BY <3>1, <1>h, <1>6, <1>a DEF Named, FrameNames, Closed
    <3>3. k2[u][i].kind \in Polls => hs2[k2[u][i].id].end = hs[k2[u][i].id].end
      BY <3>2, <1>6 DEF Closed
    <3>4. /\ k[u][j].kind = "attempt" => hs[k[u][j].id].end = "open"
          /\ k[u][j].kind = "flush" => hs[k[u][j].id].end = "passed"
      BY <1>8 DEF Ends
    <3> QED
      BY <3>1, <3>3, <3>4 DEF Polls
  <2> QED
    BY <2>1 DEF Ends
<1>l. Reportable(cs)
  BY DEF Inv, Data
<1>m. Inv(k2, x2, es, cs, hs2)
  BY <1>a, <1>b, <1>d, <1>e, <1>f, <1>g, <1>i, <1>j, <1>k, <1>l DEF Inv, Struct, Data, InOrder
<1> QED
  BY <1>m DEF k2

-----------------------------------------------------------------------------
(* An attempt holds *)

\* The innermost frame of t is another.
Replaced(k, k2, t, g) ==
  /\ k2 \in [Task -> Seq(FrameT)] /\ \A u \in Task : DOMAIN k2[u] = DOMAIN k[u]
  /\ k2[t][1] = g /\ \A i \in DOMAIN k[t] : i # 1 => k2[t][i] = k[t][i]
  /\ \A u \in Task : u # t => k2[u] = k[u]

LEMMA Replacing ==
  ASSUME NEW k \in [Task -> Seq(FrameT)], NEW t \in Task, k[t] # <<>>, NEW g \in FrameT
  PROVE  Replaced(k, [k EXCEPT ![t] = <<g>> \o Tail(@)], t, g)
<1> DEFINE s == k[t]
           r == <<g>> \o Tail(s)
           k2 == [k EXCEPT ![t] = <<g>> \o Tail(@)]
<1>1. s \in Seq(FrameT) /\ s # <<>>
  OBVIOUS
<1>2. Tail(s) \in Seq(FrameT) /\ Len(Tail(s)) = Len(s) - 1 /\ Len(s) \in Nat /\ Len(s) > 0
  BY <1>1
<1>3. \A i \in 1..Len(Tail(s)) : Tail(s)[i] = s[i + 1]
  BY <1>1, <1>2
<1>4. r \in Seq(FrameT) /\ Len(r) = 1 + Len(Tail(s)) /\ r[1] = g /\ \A i \in 1..Len(Tail(s)) : r[i + 1] = Tail(s)[i]
  BY <1>2
<1>5. DOMAIN s = 1..Len(s) /\ DOMAIN r = 1..Len(r)
  BY <1>1, <1>4
<1>6. k2[t] = r /\ k2 \in [Task -> Seq(FrameT)] /\ \A u \in Task : u # t => k2[u] = k[u]
  BY <1>4
<1>7. s = k[t]
  OBVIOUS
<1> HIDE DEF r, k2, s
<1>8. \A i \in DOMAIN s : i # 1 => r[i] = s[i]
  <2>1. ASSUME NEW i \in DOMAIN s, i # 1 PROVE r[i] = s[i]
    <3> DEFINE j == i - 1
    <3>1. j \in 1..Len(Tail(s)) /\ j + 1 = i
      BY <2>1, <1>2, <1>5
    <3> HIDE DEF j
    <3>2. r[j + 1] = Tail(s)[j] /\ Tail(s)[j] = s[j + 1]
      BY <3>1, <1>3, <1>4
    <3> QED
      BY <3>1, <3>2
  <2> QED
    BY <2>1
<1>9. DOMAIN r = DOMAIN s
  BY <1>2, <1>4, <1>5
<1>a. Replaced(k, k2, t, g)
  BY <1>4, <1>6, <1>7, <1>8, <1>9 DEF Replaced
<1> QED
  BY <1>a DEF k2

LEMMA Passing ==
  ASSUME NEW k, NEW x, NEW es, NEW cs, NEW hs, Inv(k, x, es, cs, hs),
         NEW t \in Task, 1 \in DOMAIN k[t], k[t][1].kind = "attempt"
  PROVE  Inv([k EXCEPT ![t] = <<[kind |-> "flush", id |-> k[t][1].id, old |-> k[t][1].old]>> \o Tail(@)],
             Keeping(x, t, k[t][1].old), es, cs, Ended(hs, k[t][1].id, "passed"))
<1> DEFINE f   == k[t][1]
           g   == [kind |-> "flush", id |-> f.id, old |-> f.old]
           k2  == [k EXCEPT ![t] = <<g>> \o Tail(@)]
           x2  == Keeping(x, t, f.old)
           hs2 == Ended(hs, f.id, "passed")
<1>1. k \in [Task -> Seq(FrameT)] /\ x \in [Task -> CtxT] /\ hs \in Seq(AttemptT)
  BY DEF Inv, Typed
<1>2. k[t] \in Seq(FrameT) /\ k[t] # <<>> /\ f \in FrameT
  BY <1>1, Lengths
<1>3. f.id \in DOMAIN hs /\ f.old \in OrNone(hs) /\ f.kind = "attempt"
  BY DEF Inv, Named, FrameNames, Polls
<1>4. g \in FrameT /\ g.kind = "flush" /\ g.id = f.id /\ g.old = f.old /\ f.old \in Nat
  BY <1>2 DEF FrameT, Polls
<1>5. Replaced(k, k2, t, g)
  <2> HIDE DEF f, g
  <2> QED
    BY <1>1, <1>2, <1>4, Replacing
<1>6. Moved(x, x2, t, x[t].scope, x[t].observed, f.old)
  BY <1>1, <1>4, Context
<1>7. Closed(hs, hs2, f.id, FALSE, "passed")
  BY <1>1, <1>3, Closing
<1> HIDE DEF g, k2, x2, hs2
<1>8. /\ Typed(k, x, es, cs, hs2) /\ Named(k, x, es, cs, hs2) /\ Births(es, hs2) /\ Nested(k, hs2)
      /\ Running(k, es, cs, hs2) /\ Recorded(es, cs, hs2) /\ Wanted(es, hs2) /\ Settled(k, cs, hs2)
  BY <1>3, <1>7, Unclosed
<1>9. Stacked(k, x) /\ Single(k) /\ Ends(k, hs)
  BY DEF Inv, Struct
<1>a. ASSUME NEW i \in DOMAIN k[t] PROVE k[t][i].kind = "attempt"
  <2>1. Shaped(k[t])
    BY <1>9 DEF Stacked
  <2>2. f.kind \notin Marks
    BY <1>3 DEF Marks
  <2> QED
    BY <2>1, <2>2, <1>2, <1>3, Beneath
<1>b. \A u \in Task : DOMAIN k2[u] = DOMAIN k[u]
  BY <1>5 DEF Replaced
<1>c. ASSUME NEW u \in Task, NEW i \in DOMAIN k[u]
      PROVE  /\ k2[u][i].id = k[u][i].id /\ k2[u][i].old = k[u][i].old
             /\ k2[u][i].kind \in Marks <=> k[u][i].kind \in Marks
             /\ k2[u][i].kind \in Polls <=> k[u][i].kind \in Polls
             /\ u = t /\ i = 1 => k2[u][i].kind = "flush"
             /\ ~(u = t /\ i = 1) => k2[u][i] = k[u][i]
  <2>1. CASE u = t /\ i = 1
    <3>1. k2[u][i] = g /\ k[u][i] = f
      BY <2>1, <1>5 DEF Replaced
    <3> QED
      BY <2>1, <3>1, <1>3, <1>4 DEF Marks, Polls
  <2>2. CASE ~(u = t /\ i = 1)
    <3>1. k2[u][i] = k[u][i]
      BY <2>2, <1>5 DEF Replaced
    <3> QED
      BY <3>1, <2>2
  <2> QED
    BY <2>1, <2>2
<1>d. Typed(k2, x2, es, cs, hs2)
  BY <1>5, <1>6, <1>8 DEF Typed, Moved, Replaced
<1>e. Named(k2, x2, es, cs, hs2)
  <2>1. ContextNames(x2, es, cs, hs2)
    BY <1>3, <1>6, <1>7, <1>8 DEF Named, ContextNames, OrNone, Moved, Closed
  <2>2. FrameNames(k2, cs, hs2)
    BY <1>8, <1>b, <1>c DEF Named, FrameNames
  <2> QED
    BY <2>1, <2>2, <1>8 DEF Named
<1>f. Stacked(k2, x2)
  <2>1. ASSUME NEW u \in Task, u # t PROVE Shaped(k2[u]) /\ Handed(k2[u], x2[u]) /\ Watched(k2[u], x2[u])
    BY <2>1, <1>5, <1>6, <1>9 DEF Replaced, Moved, Stacked
  <2>2. ASSUME NEW i \in DOMAIN k2[t] PROVE k2[t][i].kind = IF i = 1 THEN "flush" ELSE "attempt"
    BY <1>a, <1>b, <1>c
  <2>3. Shaped(k2[t])
    BY <2>2 DEF Shaped
  <2>4. Watched(k2[t], x2[t])
    BY <2>2 DEF Watched, Marks
  <2>5. ASSUME NEW i \in DOMAIN k2[t], i + 1 \in DOMAIN k2[t] PROVE k2[t][i].old = k2[t][i + 1].id
    <3>1. Handed(k[t], x[t])
      BY <1>9 DEF Stacked
    <3>2. i \in DOMAIN k[t] /\ i + 1 \in DOMAIN k[t] /\ k[t][i].kind \in Polls
      BY <2>5, <1>a, <1>b DEF Polls
    <3>3. k[t][i].old = k[t][i + 1].id
      BY <3>1, <3>2 DEF Handed
    <3>4. k2[t][i].old = k[t][i].old /\ k2[t][i + 1].id = k[t][i + 1].id
      BY <3>2, <1>c
    <3> QED
      BY <3>3, <3>4
  <2>6. ASSUME NEW i \in DOMAIN k2[t], k2[t][i].kind = "flush" PROVE x2[t].held = k2[t][i].old
    <3>1. i = 1
      BY <2>2, <2>6
    <3>2. k2[t][i].old = f.old
      BY <3>1, <1>b, <1>c
    <3> QED
      BY <3>2, <1>6 DEF Moved
  <2>7. ASSUME NEW i \in DOMAIN k2[t], k2[t][i].kind = "attempt", i = 1 \/ k2[t][i - 1].kind \in Marks PROVE FALSE
    <3>1. k2[t] \in Seq(FrameT) /\ i # 1
      BY <2>2, <2>7, <1>5 DEF Replaced
    <3>2. i - 1 \in DOMAIN k2[t]
      BY <3>1, Lengths
    <3> QED
      BY <3>1, <3>2, <2>2, <2>7 DEF Marks
  <2>8. Handed(k2[t], x2[t])
    BY <2>5, <2>6, <2>7 DEF Handed
  <2> QED
    BY <2>1, <2>3, <2>4, <2>8 DEF Stacked
<1>g. Single(k2)
  <2>1. ASSUME NEW u \in Task, NEW v \in Task, NEW i \in DOMAIN k2[u], NEW j \in DOMAIN k2[v], Alike(k2[u][i], k2[v][j])
        PROVE  u = v /\ i = j
    <3>1. i \in DOMAIN k[u] /\ j \in DOMAIN k[v]
      BY <1>b
    <3>2. Alike(k[u][i], k[v][j])
      BY <3>1, <2>1, <1>c DEF Alike
    <3> QED
      BY <3>1, <3>2, <1>9 DEF Single
  <2> QED
    BY <2>1 DEF Single
<1>h. ASSUME NEW u \in Task, NEW i \in DOMAIN k[u], k[u][i].kind \in Polls, k[u][i].id = f.id PROVE u = t /\ i = 1
  <2>1. Alike(k[u][i], k[t][1])
    BY <1>h, <1>3 DEF Alike, Marks, Polls
  <2> QED
    BY <2>1, <1>9 DEF Single
<1>i. Marked(k2, cs)
  <2>1. ASSUME NEW c PROVE On(k2, Marks, c) <=> On(k, Marks, c)
    BY <1>b, <1>c DEF On
  <2> QED
    BY <2>1 DEF Inv, Struct, Marked
<1>j. Holds(k2, hs2)
  <2>1. ASSUME NEW b PROVE On(k2, {"attempt"}, b) => On(k, {"attempt"}, b) /\ b # f.id
    <3>1. ASSUME NEW u \in Task, NEW i \in DOMAIN k2[u], k2[u][i].kind = "attempt", k2[u][i].id = b
          PROVE  On(k, {"attempt"}, b) /\ b # f.id
      <4>1. ~(u = t /\ i = 1) /\ k[u][i] = k2[u][i] /\ i \in DOMAIN k[u]
        BY <3>1, <1>b, <1>c
      <4> QED
        BY <4>1, <3>1, <1>h DEF On, Polls
    <3> QED
      BY <3>1 DEF On
  <2>2. ASSUME NEW b, b # f.id, On(k, {"attempt"}, b) PROVE On(k2, {"attempt"}, b)
    <3>1. PICK u \in Task : \E i \in DOMAIN k[u] : k[u][i].kind \in {"attempt"} /\ k[u][i].id = b
      BY <2>2 DEF On
    <3>2. PICK i \in DOMAIN k[u] : k[u][i].kind \in {"attempt"} /\ k[u][i].id = b
      BY <3>1
    <3>3. k2[u][i] = k[u][i] /\ i \in DOMAIN k2[u]
      BY <3>2, <2>2, <1>b, <1>c
    <3> QED
      BY <3>2, <3>3 DEF On
  <2>3. ASSUME NEW b \in DOMAIN hs2 PROVE hs2[b].alive <=> On(k2, {"attempt"}, b)
    <3>1. b \in DOMAIN hs /\ (hs[b].alive <=> On(k, {"attempt"}, b))
      BY <1>7 DEF Inv, Struct, Holds, Closed
    <3>2. CASE b = f.id
      BY <3>2, <2>1, <1>7 DEF Closed
    <3>3. CASE b # f.id
      BY <3>1, <3>3, <2>1, <2>2, <1>7 DEF Closed
    <3> QED
      BY <3>2, <3>3
  <2> QED
    BY <2>3 DEF Holds
<1>k. Ends(k2, hs2)
  <2>1. ASSUME NEW u \in Task, NEW i \in DOMAIN k2[u]
        PROVE  /\ k2[u][i].kind = "attempt" => hs2[k2[u][i].id].end = "open"
               /\ k2[u][i].kind = "flush" => hs2[k2[u][i].id].end = "passed"
    <3>1. i \in DOMAIN k[u]
      BY <1>b
    <3>2. CASE u = t /\ i = 1
      <4>1. k2[u][i].id = f.id /\ k2[u][i].kind = "flush"
        BY <3>1, <3>2, <1>c
      <4> QED
        BY <4>1, <1>7 DEF Closed
    <3>3. CASE ~(u = t /\ i = 1)
      <4>1. k2[u][i] = k[u][i]
        BY <3>1, <3>3, <1>c
      <4>2. k[u][i].kind \in Polls => k[u][i].id \in DOMAIN hs /\ k[u][i].id # f.id
        BY <3>1, <3>3, <1>7, <1>8, <1>h DEF Named, FrameNames, Closed
      <4>3. k[u][i].kind \in Polls => hs2[k[u][i].id].end = hs[k[u][i].id].end
        BY <4>2, <1>7 DEF Closed
      <4>4. /\ k[u][i].kind = "attempt" => hs[k[u][i].id].end = "open"
            /\ k[u][i].kind = "flush" => hs[k[u][i].id].end = "passed"
        BY <3>1, <1>9 DEF Ends
      <4> QED
        BY <4>1, <4>3, <4>4 DEF Polls
    <3> QED
      BY <3>2, <3>3
  <2> QED
    BY <2>1 DEF Ends
<1>l. Nested(k2, hs2)
  <2>1. ASSUME NEW u \in Task, NEW i \in DOMAIN k2[u], NEW j \in DOMAIN k2[u],
               k2[u][i].kind \in Polls, k2[u][j].kind \in Polls, i < j
        PROVE  hs2[k2[u][j].id].born < hs2[k2[u][i].id].born
    <3>1. i \in DOMAIN k[u] /\ j \in DOMAIN k[u]
      BY <1>b
    <3>2. k[u][i].kind \in Polls /\ k[u][j].kind \in Polls /\ k2[u][i].id = k[u][i].id /\ k2[u][j].id = k[u][j].id
      BY <3>1, <2>1, <1>c
    <3> QED
      BY <3>1, <3>2, <2>1, <1>8 DEF Nested
  <2> QED
    BY <2>1 DEF Nested
<1>m. Running(k2, es, cs, hs2)
  <2>1. ASSUME NEW u \in Task, NEW i \in DOMAIN k2[u], k2[u][i].kind = "call"
        PROVE  Depends(k2[u][i].id, u, k2, es, cs, hs2)
    <3>1. u # t
      BY <2>1, <1>a, <1>b, <1>c
    <3>2. k2[u] = k[u]
      BY <3>1, <1>5 DEF Replaced
    <3> QED
      BY <3>2, <2>1, <1>8 DEF Running, Depends, Leans
  <2> QED
    BY <2>1 DEF Running
<1>n. Settled(k2, cs, hs2)
  <2>1. ASSUME NEW u \in Task, NEW i \in DOMAIN k2[u], k2[u][i].kind \in Polls,
               NEW m \in DOMAIN hs2[k2[u][i].id].records, NEW y \in cs[hs2[k2[u][i].id].records[m].call].under
        PROVE  Awaited(y, u, i, k2, hs2)
    <3>1. i \in DOMAIN k[u] /\ k2[u][i].id = k[u][i].id /\ k[u][i].kind \in Polls
      BY <2>1, <1>b, <1>c
    <3>2. Awaited(y, u, i, k, hs2)
      BY <3>1, <2>1, <1>8 DEF Settled
    <3>3. ASSUME NEW j \in DOMAIN k[u], i <= j, k[u][j].kind = "attempt", k[u][j].id = y
          PROVE  Awaited(y, u, i, k2, hs2)
      <4>1. CASE u = t /\ j = 1
        BY <4>1, <3>3, <1>7 DEF Awaited, Closed
      <4>2. CASE ~(u = t /\ j = 1)
        BY <4>2, <3>3, <1>b, <1>c DEF Awaited
      <4> QED
        BY <4>1, <4>2
    <3> QED
      BY <3>2, <3>3 DEF Awaited
  <2> QED
    BY <2>1 DEF Settled
<1>o. Reportable(cs)
  BY DEF Inv, Data
<1>z. Inv(k2, x2, es, cs, hs2)
  BY <1>8, <1>d, <1>e, <1>f, <1>g, <1>i, <1>j, <1>k, <1>l, <1>m, <1>n, <1>o DEF Inv, Struct, Data
<1> QED
  BY <1>z DEF g, k2, x2, hs2, f

-----------------------------------------------------------------------------
(* What an attempt holds back *)

\* Attempt a holds rs, and is otherwise what it was.
Refiled(hs, hs2, a, rs) ==
  /\ hs2 \in Seq(AttemptT) /\ Len(hs2) = Len(hs) /\ DOMAIN hs2 = DOMAIN hs
  /\ \A b \in DOMAIN hs : /\ hs2[b].scope = hs[b].scope /\ hs2[b].wanted = hs[b].wanted
                          /\ hs2[b].born = hs[b].born /\ hs2[b].alive = hs[b].alive /\ hs2[b].end = hs[b].end
                          /\ b # a => hs2[b].records = hs[b].records
  /\ hs2[a].records = rs

Filed(hs, a, rs) == [hs EXCEPT ![a].records = rs]

LEMMA Refiling ==
  ASSUME NEW hs \in Seq(AttemptT), NEW a \in DOMAIN hs, NEW rs \in Seq(RecordT)
  PROVE  Refiled(hs, Filed(hs, a, rs), a, rs)
<1> DEFINE d == [hs[a] EXCEPT !.records = rs]
<1>1. hs[a] \in AttemptT
  BY Lengths
<1>2. /\ d \in AttemptT /\ d.alive = hs[a].alive /\ d.end = hs[a].end /\ d.scope = hs[a].scope
      /\ d.wanted = hs[a].wanted /\ d.born = hs[a].born /\ d.records = rs
  BY <1>1 DEF AttemptT
<1>3. Filed(hs, a, rs) = [hs EXCEPT ![a] = d]
  BY DEF Filed
<1> HIDE DEF d
<1>4. [hs EXCEPT ![a] = d] \in Seq(AttemptT) /\ Changed(hs, [hs EXCEPT ![a] = d], a, d)
  BY <1>2, Changing
<1>5. Filed(hs, a, rs) \in Seq(AttemptT) /\ Changed(hs, Filed(hs, a, rs), a, d)
  BY <1>3, <1>4
<1> QED
  BY <1>2, <1>5 DEF Changed, Refiled

\* Attempt a may hold r back.
Fileable(r, a, k, es, cs, hs) ==
  /\ r.call \in DOMAIN cs /\ Fit(r, a, es, cs, hs)
  /\ \A u \in Task : \A i \in DOMAIN k[u] : k[u][i].kind \in Polls /\ k[u][i].id = a =>
       \A y \in cs[r.call].under : Awaited(y, u, i, k, hs)

LEMMA Filing ==
  ASSUME NEW k, NEW x, NEW es, NEW cs, NEW hs, Inv(k, x, es, cs, hs), NEW a \in DOMAIN hs, NEW rs, NEW hs2,
         Refiled(hs, hs2, a, rs), \A m \in DOMAIN rs : Fileable(rs[m], a, k, es, cs, hs)
  PROVE  Inv(k, x, es, cs, hs2)
<1>1. Typed(k, x, es, cs, hs2) /\ Births(es, hs2)
  <2>1. Typed(k, x, es, cs, hs2) /\ Moment(es, hs2) = Moment(es, hs)
    BY DEF Inv, Typed, Moment, Refiled
  <2>2. Births(es, hs2)
    BY <2>1 DEF Inv, Births, Refiled
  <2> QED
    BY <2>1, <2>2
<1>2. Named(k, x, es, cs, hs2)
  <2>1. Named(k, x, es, cs, hs)
    BY DEF Inv
  <2>2. ContextNames(x, es, cs, hs2) /\ FrameNames(k, cs, hs2) /\ CallNames(es, cs, hs2)
    BY <2>1 DEF Named, ContextNames, FrameNames, CallNames, Refiled, OrNone
  <2>3. AttemptNames(es, hs2)
    BY <2>1 DEF Named, AttemptNames, Refiled
  <2>4. RecordNames(cs, hs2)
    BY <2>1 DEF Named, RecordNames, Refiled, Fileable
  <2> QED
    BY <2>1, <2>2, <2>3, <2>4 DEF Named
<1>3. FrameNames(k, cs, hs) /\ CallNames(es, cs, hs) /\ RecordNames(cs, hs)
  BY DEF Inv, Named
<1>4. ASSUME NEW u \in Task, NEW i \in DOMAIN k[u], k[u][i].kind \in Polls
      PROVE  /\ hs2[k[u][i].id].born = hs[k[u][i].id].born /\ hs2[k[u][i].id].end = hs[k[u][i].id].end
             /\ k[u][i].id \in DOMAIN hs
  BY <1>3, <1>4 DEF FrameNames, Refiled
<1>5. Struct(k, x, cs, hs2)
  <2>1. Struct(k, x, cs, hs)
    BY DEF Inv
  <2>2. Nested(k, hs2)
    BY <2>1, <1>4 DEF Struct, Nested
  <2>3. Ends(k, hs2)
    BY <2>1, <1>4 DEF Struct, Ends, Polls
  <2>4. Holds(k, hs2)
    BY <2>1 DEF Struct, Holds, Refiled
  <2> QED
    BY <2>1, <2>2, <2>3, <2>4 DEF Struct
<1>6. ASSUME NEW c \in DOMAIN cs, NEW y \in cs[c].under
      PROVE  hs2[y].born = hs[y].born /\ hs2[y].end = hs[y].end
  BY <1>3 DEF CallNames, Refiled
<1>7. Running(k, es, cs, hs2)
  <2>1. ASSUME NEW u \in Task, NEW i \in DOMAIN k[u], k[u][i].kind = "call"
        PROVE  Depends(k[u][i].id, u, k, es, cs, hs2)
    <3>1. Depends(k[u][i].id, u, k, es, cs, hs)
      BY <2>1 DEF Inv, Data, Running
    <3>2. k[u][i].id \in DOMAIN cs
      BY <2>1, <1>3 DEF FrameNames, Marks
    <3> QED
      BY <3>1, <3>2, <1>6 DEF Depends, Leans
  <2> QED
    BY <2>1 DEF Running
<1>8. Recorded(es, cs, hs2)
  <2>1. ASSUME NEW b \in DOMAIN hs2, NEW i \in DOMAIN hs2[b].records PROVE Fit(hs2[b].records[i], b, es, cs, hs2)
    <3>1. Fit(hs2[b].records[i], b, es, cs, hs) /\ hs2[b].records[i].call \in DOMAIN cs
      <4>1. CASE b = a
        BY <4>1 DEF Refiled, Fileable
      <4>2. CASE b # a
        <5>1. b \in DOMAIN hs /\ hs2[b].records = hs[b].records
          BY <4>2 DEF Refiled
        <5> QED
          BY <5>1, <1>3 DEF Inv, Data, Recorded, RecordNames
      <4> QED
        BY <4>1, <4>2
    <3>2. hs2[b].born = hs[b].born
      BY DEF Refiled
    <3> QED
      BY <3>1, <3>2, <1>6 DEF Fit
  <2> QED
    BY <2>1 DEF Recorded
<1>9. Wanted(es, hs2) /\ Reportable(cs)
  BY DEF Inv, Data, Wanted, Refiled
<1>a. Settled(k, cs, hs2)
  <2>1. ASSUME NEW u \in Task, NEW i \in DOMAIN k[u], k[u][i].kind \in Polls,
               NEW m \in DOMAIN hs2[k[u][i].id].records, NEW y \in cs[hs2[k[u][i].id].records[m].call].under
        PROVE  Awaited(y, u, i, k, hs2)
    <3>1. /\ hs2[k[u][i].id].records[m].call \in DOMAIN cs
          /\ Awaited(y, u, i, k, hs)
      <4>1. CASE k[u][i].id = a
        BY <4>1, <2>1 DEF Refiled, Fileable
      <4>2. CASE k[u][i].id # a
        <5>1. k[u][i].id \in DOMAIN hs /\ hs2[k[u][i].id].records = hs[k[u][i].id].records
          BY <4>2, <2>1, <1>4 DEF Refiled
        <5> QED
          BY <5>1, <2>1, <1>3 DEF Inv, Data, Settled, RecordNames
      <4> QED
        BY <4>1, <4>2
    <3>2. hs2[y].end = hs[y].end
      BY <3>1, <1>6
    <3> QED
      BY <3>1, <3>2 DEF Awaited
  <2> QED
    BY <2>1 DEF Settled
<1> QED
  BY <1>1, <1>2, <1>5, <1>7, <1>8, <1>9, <1>a DEF Inv, Data

\* What is held back may be.
LEMMA Held ==
  ASSUME NEW k, NEW x, NEW es, NEW cs, NEW hs, Inv(k, x, es, cs, hs), NEW a \in DOMAIN hs, NEW m \in DOMAIN hs[a].records
  PROVE  Fileable(hs[a].records[m], a, k, es, cs, hs)
<1>1. hs[a].records[m].call \in DOMAIN cs /\ Fit(hs[a].records[m], a, es, cs, hs)
  BY DEF Inv, Named, RecordNames, Data, Recorded
<1>2. Settled(k, cs, hs)
  BY DEF Inv, Data
<1> QED
  BY <1>1, <1>2 DEF Fileable, Settled

LEMMA Taking ==
  ASSUME NEW k, NEW x, NEW es, NEW cs, NEW hs, Inv(k, x, es, cs, hs), NEW a \in DOMAIN hs, hs[a].records # <<>>
  PROVE  Inv(k, x, es, cs, Filed(hs, a, Tail(hs[a].records)))
<1> DEFINE rs == hs[a].records
           ts == Tail(rs)
<1>1. hs \in Seq(AttemptT)
  BY DEF Inv, Typed
<1>2. rs \in Seq(RecordT) /\ rs # <<>>
  <2>1. hs[a] \in AttemptT
    BY <1>1, Lengths
  <2> QED
    BY <2>1 DEF AttemptT
<1>3. ts \in Seq(RecordT) /\ \A i \in DOMAIN ts : i + 1 \in DOMAIN rs /\ ts[i] = rs[i + 1]
  <2> HIDE DEF rs
  <2>1. Len(ts) = Len(rs) - 1 /\ Len(rs) \in Nat /\ \A i \in 1..Len(ts) : ts[i] = rs[i + 1]
    BY <1>2
  <2>2. DOMAIN ts = 1..Len(ts) /\ DOMAIN rs = 1..Len(rs) /\ ts \in Seq(RecordT)
    BY <1>2
  <2> HIDE DEF ts
  <2> QED
    BY <2>1, <2>2
<1> HIDE DEF ts
<1>4. Refiled(hs, Filed(hs, a, ts), a, ts)
  BY <1>1, <1>3, Refiling
<1>5. ASSUME NEW m \in DOMAIN ts PROVE Fileable(ts[m], a, k, es, cs, hs)
  BY <1>3, Held
<1>6. Inv(k, x, es, cs, Filed(hs, a, ts))
  BY <1>4, <1>5, Filing
<1> QED
  BY <1>6 DEF ts

LEMMA Keepsake ==
  ASSUME NEW k, NEW x, NEW es, NEW cs, NEW hs, Inv(k, x, es, cs, hs), NEW a \in DOMAIN hs,
         NEW r \in RecordT, Fileable(r, a, k, es, cs, hs)
  PROVE  Inv(k, x, es, cs, Filed(hs, a, Append(hs[a].records, r)))
<1> DEFINE rs == hs[a].records
           ts == Append(rs, r)
<1>1. hs \in Seq(AttemptT)
  BY DEF Inv, Typed
<1>2. rs \in Seq(RecordT)
  <2>1. hs[a] \in AttemptT
    BY <1>1, Lengths
  <2> QED
    BY <2>1 DEF AttemptT
<1>3. ts \in Seq(RecordT) /\ Extended(rs, ts, Len(rs) + 1, r)
  BY <1>2, Extending
<1> HIDE DEF ts
<1>4. Refiled(hs, Filed(hs, a, ts), a, ts)
  BY <1>1, <1>3, Refiling
<1>5. ASSUME NEW m \in DOMAIN ts PROVE Fileable(ts[m], a, k, es, cs, hs)
  <2>1. CASE m \in DOMAIN rs
    BY <2>1, <1>3, Held DEF Extended
  <2>2. CASE m \notin DOMAIN rs
    BY <2>2, <1>3 DEF Extended
  <2> QED
    BY <2>1, <2>2
<1>6. Inv(k, x, es, cs, Filed(hs, a, ts))
  BY <1>4, <1>5, Filing
<1> QED
  BY <1>6 DEF ts

-----------------------------------------------------------------------------
(* An assertion is found to have passed, or to have failed *)

LEMMA Succeeding ==
  ASSUME NEW k, NEW x, NEW es, NEW cs, NEW hs, Inv(k, x, es, cs, hs), NEW c \in DOMAIN cs, cs[c].entry # None
  PROVE  Inv(k, x, es, Succeeded(cs, c), hs)
<1> DEFINE cs2 == Succeeded(cs, c)
<1>1. cs \in Seq(CallT)
  BY DEF Inv, Typed
<1>2. Reflagged(cs, cs2)
  BY <1>1, Flags
<1>3. \A d \in DOMAIN cs : /\ cs2[d].failed = cs[d].failed /\ cs2[d].alive = cs[d].alive
                           /\ d # c => cs2[d].passed = cs[d].passed
  BY <1>1, Flags
<1> HIDE DEF cs2
<1>4. /\ Typed(k, x, es, cs2, hs) /\ Named(k, x, es, cs2, hs) /\ Births(es, hs)
      /\ Running(k, es, cs2, hs) /\ Settled(k, cs2, hs)
  BY <1>2, Unflagged
<1>5. Struct(k, x, cs2, hs)
  BY <1>2, <1>3 DEF Inv, Struct, Marked, Reflagged
<1>6. Recorded(es, cs2, hs)
  <2>1. Recorded(es, cs, hs) /\ RecordNames(cs, hs)
    BY DEF Inv, Data, Named
  <2>2. ASSUME NEW a \in DOMAIN hs, NEW i \in DOMAIN hs[a].records PROVE Fit(hs[a].records[i], a, es, cs2, hs)
    <3> DEFINE r == hs[a].records[i]
    <3>1. Fit(r, a, es, cs, hs) /\ r.call \in DOMAIN cs
      BY <2>1 DEF Recorded, RecordNames
    <3> HIDE DEF r
    <3>2. /\ cs2[r.call].entry = cs[r.call].entry /\ cs2[r.call].under = cs[r.call].under
          /\ cs2[r.call].failed = cs[r.call].failed /\ cs2[r.call].alive = cs[r.call].alive
      BY <3>1, <1>2, <1>3 DEF Reflagged
    <3> QED
      BY <3>1, <3>2 DEF Fit, r
  <2> QED
    BY <2>2 DEF Recorded
<1>7. Reportable(cs2) /\ Wanted(es, hs)
  BY <1>2, <1>3 DEF Inv, Data, Reportable, Reflagged
<1>8. Inv(k, x, es, cs2, hs)
  BY <1>4, <1>5, <1>6, <1>7 DEF Inv, Data
<1> QED
  BY <1>8 DEF cs2

LEMMA Blaming ==
  ASSUME NEW k, NEW x, NEW es, NEW cs, NEW hs, Inv(k, x, es, cs, hs), NEW c \in DOMAIN cs, cs[c].alive
  PROVE  Inv(k, x, es, Blamed(cs, c), hs)
<1> DEFINE cs2 == Blamed(cs, c)
<1>1. cs \in Seq(CallT)
  BY DEF Inv, Typed
<1>2. Reflagged(cs, cs2)
  BY <1>1, Flags
<1>3. \A d \in DOMAIN cs : /\ cs2[d].passed = cs[d].passed /\ cs2[d].alive = cs[d].alive
                           /\ d # c => cs2[d].failed = cs[d].failed
  BY <1>1, Flags
<1> HIDE DEF cs2
<1>4. /\ Typed(k, x, es, cs2, hs) /\ Named(k, x, es, cs2, hs) /\ Births(es, hs)
      /\ Running(k, es, cs2, hs) /\ Settled(k, cs2, hs)
  BY <1>2, Unflagged
<1>5. Struct(k, x, cs2, hs)
  BY <1>2, <1>3 DEF Inv, Struct, Marked, Reflagged
<1>6. Recorded(es, cs2, hs)
  <2>1. Recorded(es, cs, hs) /\ RecordNames(cs, hs)
    BY DEF Inv, Data, Named
  <2>2. ASSUME NEW b \in DOMAIN hs, NEW i \in DOMAIN hs[b].records PROVE Fit(hs[b].records[i], b, es, cs2, hs)
    <3>1. Fit(hs[b].records[i], b, es, cs, hs) /\ hs[b].records[i].call \in DOMAIN cs
      BY <2>1 DEF Recorded, RecordNames
    <3>2. hs[b].records[i].call # c
      BY <3>1 DEF Fit
    <3> QED
      BY <3>1, <3>2, <1>2, <1>3 DEF Fit, Reflagged
  <2> QED
    BY <2>2 DEF Recorded
<1>7. Reportable(cs2) /\ Wanted(es, hs)
  BY <1>2, <1>3 DEF Inv, Data, Reportable, Reflagged
<1>8. Inv(k, x, es, cs2, hs)
  BY <1>4, <1>5, <1>6, <1>7 DEF Inv, Data
<1> QED
  BY <1>8 DEF cs2

-----------------------------------------------------------------------------
(* Blocks and tasks *)

\* Every entry is still there, with the same say; one may be new, and they may be open or not.
Reentered(es, es2, hs) ==
  /\ es2 \in Seq(EntryT) /\ Moment(es, hs) <= Moment(es2, hs) /\ DOMAIN es \subseteq DOMAIN es2
  /\ \A e \in DOMAIN es : es2[e].born = es[e].born /\ es2[e].wants = es[e].wants
  /\ \A e \in DOMAIN es2 : /\ es2[e].previous \in OrNone(es2) /\ es2[e].born <= Moment(es2, hs)
                            /\ \A a \in DOMAIN hs : es2[e].born # hs[a].born

LEMMA Reentering ==
  ASSUME NEW k, NEW x, NEW es, NEW cs, NEW hs, Inv(k, x, es, cs, hs), NEW es2, NEW x2, NEW t \in Task, NEW n,
         n \in OrNone(es2), Moved(x, x2, t, n, x[t].observed, x[t].held), Reentered(es, es2, hs)
  PROVE  Inv(k, x2, es2, cs, hs)
<1>1. Typed(k, x2, es2, cs, hs)
  BY DEF Inv, Typed, Moved, Reentered
<1>2. \A e \in OrNone(es) : e \in OrNone(es2)
  BY DEF OrNone, Reentered
<1>3. Named(k, x2, es2, cs, hs)
  <2>1. Named(k, x, es, cs, hs)
    BY DEF Inv
  <2>2. ContextNames(x2, es2, cs, hs)
    <3>1. ASSUME NEW u \in Task
          PROVE  x2[u].scope \in OrNone(es2) /\ x2[u].observed \in OrNone(cs) /\ x2[u].held \in OrNone(hs)
      <4>1. x[u].scope \in OrNone(es) /\ x[u].observed \in OrNone(cs) /\ x[u].held \in OrNone(hs)
        BY <2>1 DEF Named, ContextNames
      <4>2. CASE u = t
        BY <4>1, <4>2 DEF Moved
      <4>3. CASE u # t
        BY <4>1, <4>3, <1>2 DEF Moved
      <4> QED
        BY <4>2, <4>3
    <3> QED
      BY <3>1 DEF ContextNames
  <2>3. EntryNames(es2)
    BY DEF EntryNames, Reentered
  <2>4. CallNames(es2, cs, hs) /\ AttemptNames(es2, hs)
    BY <2>1, <1>2 DEF Named, CallNames, AttemptNames
  <2> QED
    BY <2>1, <2>2, <2>3, <2>4 DEF Named
<1>4. Births(es2, hs)
  <2>1. ASSUME NEW a \in DOMAIN hs PROVE hs[a].born <= Moment(es2, hs)
    <3>1. hs \in Seq(AttemptT) /\ hs[a].born <= Moment(es, hs) /\ es \in Seq(EntryT) /\ es2 \in Seq(EntryT)
      BY DEF Inv, Typed, Births, Reentered
    <3>2. hs[a] \in AttemptT /\ Len(es) \in Nat /\ Len(es2) \in Nat /\ Len(hs) \in Nat
      BY <3>1, Lengths
    <3>3. hs[a].born \in Nat
      BY <3>2 DEF AttemptT
    <3>4. Moment(es, hs) \in Nat /\ Moment(es2, hs) \in Nat /\ Moment(es, hs) <= Moment(es2, hs)
      BY <3>2 DEF Moment, Reentered
    <3> QED
      BY <3>1, <3>3, <3>4
  <2> QED
    BY <2>1 DEF Births, Reentered
<1>5. Struct(k, x2, cs, hs)
  <2>1. \A u \in Task : x2[u].held = x[u].held /\ x2[u].observed = x[u].observed
    BY DEF Moved
  <2>2. Struct(k, x, cs, hs)
    BY DEF Inv
  <2>3. ASSUME NEW u \in Task PROVE Handed(k[u], x2[u]) /\ Watched(k[u], x2[u]) /\ Shaped(k[u])
    <3>1. Handed(k[u], x[u]) /\ Watched(k[u], x[u]) /\ Shaped(k[u])
      BY <2>2 DEF Struct, Stacked
    <3> QED
      BY <2>1, <3>1 DEF Handed, Watched
  <2> QED
    BY <2>2, <2>3 DEF Struct, Stacked
<1>6. Running(k, es2, cs, hs)
  <2>1. ASSUME NEW u \in Task, NEW i \in DOMAIN k[u], k[u][i].kind = "call"
        PROVE  Depends(k[u][i].id, u, k, es2, cs, hs)
    <3> DEFINE c == k[u][i].id
    <3>1. Depends(c, u, k, es, cs, hs)
      BY <2>1 DEF Inv, Data, Running
    <3>2. c \in DOMAIN cs
      BY <2>1 DEF Inv, Named, FrameNames, Marks
    <3>3. cs[c].entry \in OrNone(es) /\ (cs[c].entry = None => cs[c].under = {})
      BY <3>2 DEF Inv, Named, CallNames
    <3>4. cs[c].under # {} => es2[cs[c].entry].born = es[cs[c].entry].born
      BY <3>3 DEF OrNone, Reentered
    <3> QED
      BY <3>1, <3>4 DEF Depends, Leans
  <2> QED
    BY <2>1 DEF Running
<1>7. Recorded(es2, cs, hs)
  <2>1. ASSUME NEW a \in DOMAIN hs, NEW i \in DOMAIN hs[a].records PROVE Fit(hs[a].records[i], a, es2, cs, hs)
    <3> DEFINE r == hs[a].records[i]
    <3>1. Fit(r, a, es, cs, hs) /\ r.call \in DOMAIN cs
      BY DEF Inv, Data, Named, Recorded, RecordNames
    <3>2. cs[r.call].entry \in DOMAIN es
      BY <3>1 DEF Inv, Named, CallNames, Fit, OrNone
    <3>3. es2[cs[r.call].entry].born = es[cs[r.call].entry].born /\ es2[cs[r.call].entry].wants = es[cs[r.call].entry].wants
      BY <3>2 DEF Reentered
    <3> QED
      BY <3>1, <3>3 DEF Fit
  <2> QED
    BY <2>1 DEF Recorded
<1>8. Wanted(es2, hs)
  <2>1. \A a \in DOMAIN hs : hs[a].scope # None => hs[a].scope \in DOMAIN es
    BY DEF Inv, Named, AttemptNames, OrNone
  <2> QED
    BY <2>1 DEF Inv, Data, Wanted, Reentered
<1>9. Settled(k, cs, hs) /\ Reportable(cs)
  BY DEF Inv, Data
<1> QED
  BY <1>1, <1>3, <1>4, <1>5, <1>6, <1>7, <1>8, <1>9 DEF Inv, Data

Shut(es, e) == [es EXCEPT ![e].active = FALSE]

LEMMA Shutting ==
  ASSUME NEW es \in Seq(EntryT), NEW e \in DOMAIN es
  PROVE  /\ Shut(es, e) \in Seq(EntryT) /\ Len(Shut(es, e)) = Len(es) /\ DOMAIN Shut(es, e) = DOMAIN es
         /\ ~Shut(es, e)[e].active /\ \A d \in DOMAIN es : d # e => Shut(es, e)[d] = es[d]
         /\ \A d \in DOMAIN es : /\ Shut(es, e)[d].born = es[d].born /\ Shut(es, e)[d].wants = es[d].wants
                                 /\ Shut(es, e)[d].previous = es[d].previous
<1> DEFINE d1 == [es[e] EXCEPT !.active = FALSE]
<1>1. es[e] \in EntryT
  BY Lengths
<1>2. d1 \in EntryT /\ d1.active = FALSE /\ d1.wants = es[e].wants /\ d1.born = es[e].born /\ d1.previous = es[e].previous
  BY <1>1 DEF EntryT
<1>3. Shut(es, e) = [es EXCEPT ![e] = d1]
  BY DEF Shut
<1> HIDE DEF d1
<1>4. [es EXCEPT ![e] = d1] \in Seq(EntryT) /\ Changed(es, [es EXCEPT ![e] = d1], e, d1)
  BY <1>2, Changing
<1>5. Shut(es, e) \in Seq(EntryT) /\ Changed(es, Shut(es, e), e, d1)
  BY <1>3, <1>4
<1> QED
  BY <1>2, <1>5 DEF Changed

LEMMA Entering ==
  ASSUME NEW k, NEW x, NEW es, NEW cs, NEW hs, Inv(k, x, es, cs, hs), NEW t \in Task, NEW e \in EntryT,
         e.born = Moment(es, hs) + 1, e.previous \in OrNone(es)
  PROVE  Inv(k, Scoping(x, t, Len(es) + 1), Append(es, e), cs, hs)
<1> DEFINE n == Len(es) + 1
           es2 == Append(es, e)
<1>1. es \in Seq(EntryT) /\ hs \in Seq(AttemptT) /\ x \in [Task -> CtxT]
  BY DEF Inv, Typed
<1>2. es2 \in Seq(EntryT) /\ Extended(es, es2, n, e) /\ Len(es2) = Len(es) + 1
  BY <1>1, Extending
<1>3. Len(es) \in Nat /\ Len(hs) \in Nat
  BY <1>1, Lengths
<1> HIDE DEF n, es2
<1>4. Moment(es2, hs) = Moment(es, hs) + 1 /\ Moment(es, hs) \in Nat
  BY <1>2, <1>3 DEF Moment
<1>5. ASSUME NEW d \in DOMAIN es2
      PROVE  /\ es2[d].previous \in OrNone(es2) /\ es2[d].born <= Moment(es2, hs)
             /\ \A a \in DOMAIN hs : es2[d].born # hs[a].born
  <2>1. CASE d = n
    <3>1. es2[d] = e
      BY <2>1, <1>2 DEF Extended
    <3>2. ASSUME NEW a \in DOMAIN hs PROVE e.born # hs[a].born
      <4>1. hs[a] \in AttemptT /\ hs[a].born <= Moment(es, hs)
        BY <1>1, Lengths DEF Inv, Births
      <4>2. hs[a].born \in Nat
        BY <4>1 DEF AttemptT
      <4> QED
        BY <4>1, <4>2, <1>4
    <3> QED
      BY <3>1, <3>2, <1>2, <1>4 DEF Extended, OrNone
  <2>2. CASE d # n
    <3>1. d \in DOMAIN es /\ es2[d] = es[d]
      BY <2>2, <1>2 DEF Extended
    <3>2. es[d] \in EntryT /\ es[d].previous \in OrNone(es) /\ es[d].born <= Moment(es, hs)
      BY <3>1, <1>1, Lengths DEF Inv, Named, EntryNames, Births
    <3>3. es[d].born \in Nat
      BY <3>2 DEF EntryT
    <3>4. es[d].born <= Moment(es2, hs)
      BY <3>2, <3>3, <1>4
    <3>5. \A a \in DOMAIN hs : es[d].born # hs[a].born
      BY <3>1 DEF Inv, Births
    <3> QED
      BY <3>1, <3>2, <3>4, <3>5, <1>2 DEF Extended, OrNone
  <2> QED
    BY <2>1, <2>2
<1>6. Reentered(es, es2, hs)
  BY <1>2, <1>4, <1>5 DEF Reentered, Extended
<1>7. n \in OrNone(es2) /\ n \in Nat
  BY <1>2 DEF Extended, OrNone
<1>8. Moved(x, Scoping(x, t, n), t, n, x[t].observed, x[t].held)
  BY <1>1, <1>7, Context
<1>9. Inv(k, Scoping(x, t, n), es2, cs, hs)
  BY <1>6, <1>7, <1>8, Reentering
<1> QED
  BY <1>9 DEF n, es2

LEMMA Leaving ==
  ASSUME NEW k, NEW x, NEW es, NEW cs, NEW hs, Inv(k, x, es, cs, hs), NEW t \in Task, x[t].scope \in DOMAIN es
  PROVE  Inv(k, Scoping(x, t, es[x[t].scope].previous), Shut(es, x[t].scope), cs, hs)
<1> DEFINE e == x[t].scope
           n == es[e].previous
           es2 == Shut(es, e)
<1>1. es \in Seq(EntryT) /\ x \in [Task -> CtxT] /\ hs \in Seq(AttemptT)
  BY DEF Inv, Typed
<1>2. /\ es2 \in Seq(EntryT) /\ Len(es2) = Len(es) /\ DOMAIN es2 = DOMAIN es
      /\ \A d \in DOMAIN es : es2[d].born = es[d].born /\ es2[d].wants = es[d].wants /\ es2[d].previous = es[d].previous
  BY <1>1, Shutting
<1>3. /\ n \in OrNone(es) /\ EntryNames(es) /\ \A d \in DOMAIN es : es[d].born <= Moment(es, hs)
      /\ \A d \in DOMAIN es : \A a \in DOMAIN hs : es[d].born # hs[a].born
  BY DEF Inv, Named, EntryNames, Births
<1>4. n \in Nat
  BY <1>1, <1>3, Lengths DEF OrNone, None
<1> HIDE DEF n, es2, e
<1>5. Moment(es2, hs) = Moment(es, hs) /\ Moment(es, hs) \in Nat
  BY <1>1, <1>2, Lengths DEF Moment
<1>6. Reentered(es, es2, hs)
  BY <1>2, <1>3, <1>5 DEF Reentered, EntryNames, OrNone
<1>7. Moved(x, Scoping(x, t, n), t, n, x[t].observed, x[t].held)
  BY <1>1, <1>4, Context
<1>8. n \in OrNone(es2)
  BY <1>2, <1>3 DEF OrNone
<1>9. Inv(k, Scoping(x, t, n), es2, cs, hs)
  BY <1>6, <1>7, <1>8, Reentering
<1> QED
  BY <1>9 DEF n, es2, e

\* A task that has done nothing yet starts in the context of another.
LEMMA Forking ==
  ASSUME NEW k, NEW x, NEW es, NEW cs, NEW hs, Inv(k, x, es, cs, hs), NEW t \in Task, NEW u \in Task, k[u] = <<>>
  PROVE  Inv(k, [x EXCEPT ![u] = x[t]], es, cs, hs)
<1> DEFINE x2 == [x EXCEPT ![u] = x[t]]
<1>1. /\ x2 \in [Task -> CtxT] /\ x2[u] = x[t] /\ \A v \in Task : v # u => x2[v] = x[v]
  BY DEF Inv, Typed
<1> HIDE DEF x2
<1>2. Typed(k, x2, es, cs, hs)
  BY <1>1 DEF Inv, Typed
<1>3. Named(k, x2, es, cs, hs)
  BY <1>1 DEF Inv, Named, ContextNames
<1>4. Stacked(k, x2)
  <2>1. DOMAIN k[u] = {}
    OBVIOUS
  <2>2. Shaped(k[u]) /\ Handed(k[u], x2[u]) /\ Watched(k[u], x2[u])
    BY <2>1 DEF Shaped, Handed, Watched
  <2> QED
    BY <2>2, <1>1 DEF Inv, Struct, Stacked
<1>5. Inv(k, x2, es, cs, hs)
  BY <1>2, <1>3, <1>4 DEF Inv, Struct
<1> QED
  BY <1>5 DEF x2

-----------------------------------------------------------------------------
(* The blocks tasks are in *)

\* The i-th block that t has entered and not left, when c tells of each task.
At(c, t, i) == c[t][i]
Chains == [Task -> [Nat -> Nat]]

LEMMA Chaining ==
  ASSUME NEW c \in Chains, NEW t \in Task, NEW m \in Nat, NEW n \in Nat
  PROVE  \E d \in Chains : /\ At(d, t, m) = n
                           /\ \A u \in Task : \A i \in Nat : u # t \/ i # m => At(d, u, i) = At(c, u, i)
<1> DEFINE f == [c[t] EXCEPT ![m] = n]
<1>1. c[t] \in [Nat -> Nat]
  BY DEF Chains
<1>2. f \in [Nat -> Nat] /\ f[m] = n /\ \A i \in Nat : i # m => f[i] = c[t][i]
  BY <1>1
<1> HIDE DEF f
<1> DEFINE d == [c EXCEPT ![t] = f]
<1>3. d \in Chains /\ d[t] = f /\ \A u \in Task : u # t => d[u] = c[u]
  BY <1>2 DEF Chains
<1> HIDE DEF d
<1>4. At(d, t, m) = n
  BY <1>2, <1>3 DEF At
<1>5. ASSUME NEW u \in Task, NEW i \in Nat, u # t \/ i # m PROVE At(d, u, i) = At(c, u, i)
  BY <1>2, <1>3, <1>5 DEF At
<1> QED
  BY <1>3, <1>4, <1>5

\* The innermost is the one in its context.
Chained(c, o, x, es) ==
  \A t \in Task :
    /\ o[t] > 0 => At(c, t, o[t]) = x[t].scope
    /\ \A i \in 1..o[t] :
         /\ At(c, t, i) \in DOMAIN es /\ es[At(c, t, i)].active
         /\ i > 1 => es[At(c, t, i)].previous = At(c, t, i - 1)
         /\ \A u \in Task : \A j \in 1..o[u] : At(c, u, j) = At(c, t, i) => u = t /\ j = i

Blocks(o, x, es) == \E c \in Chains : Chained(c, o, x, es)

LEMMA Counts ==
  ASSUME NEW n \in Nat, NEW i \in 1..n
  PROVE  /\ i \in Nat /\ i > 0 /\ i # n + 1 /\ i \in 1..(n + 1)
         /\ i > 1 => i - 1 \in Nat /\ i - 1 # n /\ i - 1 # n + 1 /\ i - 1 \in 1..n
OBVIOUS

LEMMA Counted ==
  ASSUME NEW n \in Nat, NEW i \in 1..(n + 1)
  PROVE  i \in 1..n \/ (i = n + 1 /\ (i > 1 => n > 0 /\ i - 1 = n))
OBVIOUS

More(o, t) == [o EXCEPT ![t] = @ + 1]
Less(o, t) == [o EXCEPT ![t] = @ - 1]

LEMMA OneMore ==
  ASSUME NEW o \in [Task -> Nat], NEW x, NEW x2, NEW es \in Seq(EntryT), NEW t \in Task, NEW e \in EntryT,
         Blocks(o, x, es), e.active, e.previous = x[t].scope,
         Moved(x, x2, t, Len(es) + 1, x[t].observed, x[t].held)
  PROVE  Blocks(More(o, t), x2, Append(es, e)) /\ More(o, t) \in [Task -> Nat]
<1> DEFINE n == Len(es) + 1
           m == o[t] + 1
           es2 == Append(es, e)
           o2 == More(o, t)
<1>0. \A u \in Task : o[u] \in Nat
  OBVIOUS
<1>1. PICK c \in Chains : Chained(c, o, x, es)
  BY DEF Blocks
<1>2. Extended(es, es2, n, e)
  BY Extending
<1>3. m = o[t] + 1 /\ m \in Nat
  BY <1>0
<1>5. o2 \in [Task -> Nat] /\ o2[t] = m /\ \A u \in Task : u # t => o2[u] = o[u]
  BY <1>3 DEF More
<1>6. x2[t].scope = n /\ \A u \in Task : u # t => x2[u] = x[u]
  BY DEF Moved
<1> HIDE DEF n, m, es2, o2
<1>7. PICK d \in Chains : /\ At(d, t, m) = n
                          /\ \A u \in Task : \A i \in Nat : u # t \/ i # m => At(d, u, i) = At(c, u, i)
  <2>1. n \in Nat
    BY <1>2 DEF Extended
  <2> QED
    BY <2>1, <1>3, Chaining
<1>8. ASSUME NEW u \in Task, NEW i \in 1..o[u] 
      PROVE  /\ At(d, u, i) = At(c, u, i) /\ (i > 1 => At(d, u, i - 1) = At(c, u, i - 1))
             /\ At(c, u, i) \in DOMAIN es /\ At(c, u, i) # n /\ es2[At(c, u, i)] = es[At(c, u, i)]
  <2>1. i \in Nat /\ i # o[u] + 1 /\ (i > 1 => i - 1 \in Nat /\ i - 1 # o[u] + 1)
    BY <1>0, Counts
  <2>2. At(c, u, i) \in DOMAIN es
    BY <1>1 DEF Chained
  <2> QED
    BY <2>1, <2>2, <1>2, <1>3, <1>7 DEF Extended
<1>9. ASSUME NEW u \in Task, NEW i \in 1..o2[u]
      PROVE  \/ i \in 1..o[u]
             \/ u = t /\ i = m /\ (i > 1 => o[t] > 0 /\ i - 1 = o[t])
  <2>1. CASE u = t
    BY <2>1, <1>0, <1>3, <1>5, Counted
  <2>2. CASE u # t
    BY <2>2, <1>5
  <2> QED
    BY <2>1, <2>2
<1>a. ASSUME NEW u \in Task, o2[u] > 0 PROVE At(d, u, o2[u]) = x2[u].scope
  <2>1. CASE u = t
    BY <2>1, <1>5, <1>6, <1>7
  <2>2. CASE u # t
    <3>1. o[u] > 0 /\ o2[u] = o[u] /\ o[u] \in Nat
      BY <2>2, <1>a, <1>0, <1>5
    <3>2. At(c, u, o[u]) = x[u].scope
      BY <3>1, <1>1 DEF Chained
    <3> QED
      BY <3>1, <3>2, <2>2, <1>6, <1>7
  <2> QED
    BY <2>1, <2>2
<1>b. ASSUME NEW u \in Task, NEW i \in 1..o2[u]
      PROVE  At(d, u, i) \in DOMAIN es2 /\ es2[At(d, u, i)].active /\ (i > 1 => es2[At(d, u, i)].previous = At(d, u, i - 1))
  <2>1. CASE u = t /\ i = m /\ (i > 1 => o[t] > 0 /\ i - 1 = o[t])
    <3>1. At(d, u, i) = n /\ es2[n] = e /\ n \in DOMAIN es2
      BY <2>1, <1>2, <1>7 DEF Extended
    <3>2. i > 1 => At(d, u, i - 1) = x[t].scope
      <4>1. o[t] \in Nat /\ o[t] # m
        BY <1>0, <1>3
      <4>2. At(d, t, o[t]) = At(c, t, o[t])
        BY <4>1, <1>7
      <4>3. o[t] > 0 => At(c, t, o[t]) = x[t].scope
        BY <1>1 DEF Chained
      <4> QED
        BY <4>2, <4>3, <2>1
    <3> QED
      BY <3>1, <3>2
  <2>2. CASE i \in 1..o[u]
    <3>1. At(c, u, i) \in DOMAIN es /\ es[At(c, u, i)].active /\ (i > 1 => es[At(c, u, i)].previous = At(c, u, i - 1))
      BY <2>2, <1>1 DEF Chained
    <3>2. At(c, u, i) \in DOMAIN es2
      BY <3>1, <1>2 DEF Extended
    <3> QED
      BY <3>1, <3>2, <2>2, <1>8
  <2> QED
    BY <2>1, <2>2, <1>9
<1>c. ASSUME NEW u \in Task, NEW i \in 1..o2[u], NEW v \in Task, NEW j \in 1..o2[v], At(d, v, j) = At(d, u, i)
      PROVE  v = u /\ j = i
  <2>1. CASE i \in 1..o[u] /\ j \in 1..o[v]
    <3>1. At(c, v, j) = At(c, u, i)
      BY <2>1, <1>c, <1>8
    <3> QED
      BY <2>1, <3>1, <1>1 DEF Chained
  <2>2. CASE i \in 1..o[u] /\ v = t /\ j = m
    BY <2>2, <1>c, <1>7, <1>8
  <2>3. CASE j \in 1..o[v] /\ u = t /\ i = m
    BY <2>3, <1>c, <1>7, <1>8
  <2>4. CASE v = t /\ j = m /\ u = t /\ i = m
    BY <2>4
  <2> QED
    BY <2>1, <2>2, <2>3, <2>4, <1>9
<1>d. Chained(d, o2, x2, es2)
  BY <1>a, <1>b, <1>c DEF Chained
<1>e. Blocks(o2, x2, es2)
  BY <1>7, <1>d DEF Blocks
<1> QED
  BY <1>e, <1>5 DEF o2, es2

LEMMA OneLess ==
  ASSUME NEW o \in [Task -> Nat], NEW x, NEW x2, NEW es \in Seq(EntryT), NEW t \in Task,
         Blocks(o, x, es), o[t] > 0, NEW n, n = es[x[t].scope].previous,
         x[t].scope \in DOMAIN es => Moved(x, x2, t, n, x[t].observed, x[t].held)
  PROVE  /\ Blocks(Less(o, t), x2, Shut(es, x[t].scope)) /\ Less(o, t) \in [Task -> Nat]
         /\ x[t].scope \in DOMAIN es /\ es[x[t].scope].active
<1> DEFINE e == x[t].scope
           m == o[t] - 1
           es2 == Shut(es, e)
           o2 == Less(o, t)
<1>0. \A u \in Task : o[u] \in Nat
  OBVIOUS
<1>1. PICK c \in Chains : Chained(c, o, x, es)
  BY DEF Blocks
<1>2. m \in Nat /\ o[t] = m + 1 /\ o[t] \in 1..o[t]
  BY <1>0
<1>3. At(c, t, o[t]) = e /\ e \in DOMAIN es /\ es[e].active
  BY <1>1, <1>2 DEF Chained
<1>4. /\ es2 \in Seq(EntryT) /\ DOMAIN es2 = DOMAIN es /\ \A d \in DOMAIN es : d # e => es2[d] = es[d]
  BY <1>3, Shutting
<1>5. o2 \in [Task -> Nat] /\ o2[t] = m /\ \A u \in Task : u # t => o2[u] = o[u]
  BY <1>2 DEF Less
<1>6. x2[t].scope = n /\ n = es[e].previous /\ \A u \in Task : u # t => x2[u] = x[u]
  BY <1>3 DEF Moved
<1> HIDE DEF e, m, es2, o2
<1>7. ASSUME NEW u \in Task, NEW i \in 1..o2[u] PROVE i \in 1..o[u] /\ ~(u = t /\ i = o[t])
  <2>1. CASE u = t
    <3>1. i # m + 1 /\ i \in 1..(m + 1)
      BY <2>1, <1>2, <1>5, Counts
    <3> QED
      BY <3>1, <2>1, <1>2
  <2>2. CASE u # t
    BY <2>2, <1>5
  <2> QED
    BY <2>1, <2>2
<1>8. ASSUME NEW u \in Task, NEW i \in 1..o2[u] PROVE At(c, u, i) # e /\ i \in 1..o[u]
  <2>1. i \in 1..o[u] /\ ~(u = t /\ i = o[t])
    BY <1>7
  <2>2. \A j \in 1..o[t] : At(c, t, j) = At(c, u, i) => t = u /\ j = i
    BY <2>1, <1>1 DEF Chained
  <2> QED
    BY <2>1, <2>2, <1>2, <1>3
<1>9. ASSUME NEW u \in Task, o2[u] > 0 PROVE At(c, u, o2[u]) = x2[u].scope
  <2>1. CASE u = t
    <3>1. m > 0 /\ o[t] > 1 /\ o[t] - 1 = m
      BY <2>1, <1>9, <1>2, <1>5
    <3>2. es[At(c, t, o[t])].previous = At(c, t, o[t] - 1)
      BY <3>1, <1>1, <1>2 DEF Chained
    <3> QED
      BY <3>1, <3>2, <2>1, <1>3, <1>5, <1>6
  <2>2. CASE u # t
    BY <2>2, <1>9, <1>1, <1>5, <1>6 DEF Chained
  <2> QED
    BY <2>1, <2>2
<1>a. ASSUME NEW u \in Task, NEW i \in 1..o2[u]
      PROVE  /\ At(c, u, i) \in DOMAIN es2 /\ es2[At(c, u, i)].active
             /\ i > 1 => es2[At(c, u, i)].previous = At(c, u, i - 1)
             /\ \A v \in Task : \A j \in 1..o2[v] : At(c, v, j) = At(c, u, i) => v = u /\ j = i
  <2>1. i \in 1..o[u] /\ At(c, u, i) # e
    BY <1>8
  <2>2. /\ At(c, u, i) \in DOMAIN es /\ es[At(c, u, i)].active
        /\ i > 1 => es[At(c, u, i)].previous = At(c, u, i - 1)
        /\ \A v \in Task : \A j \in 1..o[v] : At(c, v, j) = At(c, u, i) => v = u /\ j = i
    BY <2>1, <1>1 DEF Chained
  <2>3. es2[At(c, u, i)] = es[At(c, u, i)]
    BY <2>1, <2>2, <1>4
  <2> QED
    BY <2>2, <2>3, <1>4, <1>8
<1>b. Chained(c, o2, x2, es2)
  BY <1>9, <1>a DEF Chained
<1>c. Blocks(o2, x2, es2)
  BY <1>b DEF Blocks
<1> QED
  BY <1>c, <1>3, <1>5 DEF o2, es2, e

LEMMA SameBlocks ==
  ASSUME NEW o, NEW x, NEW x2, NEW es, Blocks(o, x, es), \A t \in Task : o[t] > 0 => x2[t].scope = x[t].scope
  PROVE  Blocks(o, x2, es)
BY DEF Blocks, Chained

=============================================================================
