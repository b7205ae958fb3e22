---------------------------- MODULE Verdict_proofs ----------------------------
(***************************************************************************)
(* For any builders and any depth: however verdict runs nest, share the    *)
(* fields of a holder, pivot, catch or are cut short, each is told of the  *)
(* first failure in it, a builder is silent only while a run reads it, and *)
(* nothing of a run is left when all are over.                             *)
(*                                                                         *)
(* The invariant is stated of any builders o and any runs s, so that a run *)
(* that ends and then fails in the run around it is two small steps.       *)
(*                                                                         *)
(* Then, for any threads, implementations and number of calls: an          *)
(* extension is replaced by request only, and a builder calls what was     *)
(* added last.                                                             *)
(***************************************************************************)
EXTENDS Verdict, Extensions, Integers, TLAPS, SequenceTheorems, WellFoundedInduction

Mode    == Kind \cup {"check"}
Failure == {"none", "plain", "missing"}
Unmet   == {"none", "missing"}

Object == [kind : Mode, answering : BOOLEAN, sink : Failure, unmet : Unmet,
           answersTo : Builder \cup {NoOne}, pivots : SUBSET Builder]

Frame == [how : {"not", "check"}, on : Builder, holder : Builder, kind : Mode, answering : BOOLEAN,
          sink : Failure, unmet : Unmet, first : Failure]

Typed(o, s, m) == o \in [Builder -> Object] /\ s \in Seq(Frame) /\ m \subseteq Builder

\* A pivot of a run answers to a builder that answers to itself, and that one knows it.
Linked(o, m) ==
  \A b \in Builder :
    /\ o[b].pivots = {p \in Builder : o[p].answersTo = b}
    /\ o[b].answersTo # NoOne =>
         /\ b \in m /\ o[b].answersTo \in m
         /\ o[o[b].answersTo].answersTo = NoOne
         /\ o[b].kind = "check"

\* A run reads the holder of the builder it is on; the outermost of a holder is on that one.
Placed(o, s, m) ==
  \A i \in DOMAIN s :
    /\ s[i].on \in m /\ s[i].holder \in m
    /\ s[i].holder = Holder(o, s[i].on) /\ o[s[i].holder].answersTo = NoOne
    /\ s[i].kind = "check" <=> \E j \in DOMAIN s : j < i /\ s[j].holder = s[i].holder
    /\ s[i].kind # "check" => s[i].on = s[i].holder /\ s[i].sink = "none" /\ s[i].unmet = "none"

Silent(o, s, m) == \A b \in m : o[b].kind = "check" <=> RunsOf(s, Holder(o, b)) # {}

\* A builder no run reads has noted nothing.
Clean(o, s) == \A b \in Builder : RunsOf(s, b) = {} => o[b].sink = "none" /\ o[b].unmet = "none"

\* A builder that answers to itself is marked by a negation on it, and a negation found that mark only in another.
Marked(o, s) ==
  /\ \A b \in Builder : o[b].answersTo = NoOne /\ o[b].answering => \E i \in DOMAIN s : s[i].how = "not" /\ s[i].on = b
  /\ \A i \in DOMAIN s : s[i].how = "not" /\ s[i].answering /\ o[s[i].on].answersTo = NoOne =>
       \E j \in DOMAIN s : j < i /\ s[j].how = "not" /\ s[j].on = s[i].on

\* The innermost run of a holder, and the next run of the same holder inside run i.
Innermost(s, i) == \A j \in DOMAIN s : s[j].holder = s[i].holder => j <= i
Within(s, i, j) ==
  /\ i < j /\ s[j].holder = s[i].holder
  /\ \A k \in DOMAIN s : s[k].holder = s[i].holder => k <= i \/ j <= k

\* What a run has in the fields it shares is there while it is innermost, and with the run inside it otherwise.
SinkKept(o, s) ==
  \A i \in DOMAIN s :
    /\ Innermost(s, i) => o[s[i].holder].sink = s[i].first
    /\ \A j \in DOMAIN s : Within(s, i, j) => s[j].sink = s[i].first

UnmetKept(o, s) ==
  \A i \in DOMAIN s : s[i].how = "not" =>
    /\ Innermost(s, i) => (o[s[i].holder].unmet = "missing" <=> s[i].first = "missing")
    /\ \A j \in DOMAIN s : Within(s, i, j) => (s[j].unmet = "missing" <=> s[i].first = "missing")

Inv(o, s, m) ==
  /\ Typed(o, s, m) /\ Linked(o, m) /\ Placed(o, s, m) /\ Silent(o, s, m) /\ Clean(o, s)
  /\ Marked(o, s) /\ SinkKept(o, s) /\ UnmetKept(o, s)

IInv ==
  /\ Inv(obj, stack, made)
  /\ flying \in BOOLEAN /\ listening \in BOOLEAN
  /\ said \in {"nothing", "warned", "collected", "raised"}

\* What a failure on b, or the lack of a prerequisite, leaves in the builders o.
Noted(o, b) == o[b].kind = "check" /\ o[Holder(o, b)].sink = "none"

\* Run i is the one to be told of a failure on b.
Told(s, o, b, i) ==
  /\ o[b].kind = "check" /\ s[i].holder = Holder(o, b)
  /\ Innermost(s, i) /\ s[i].first = "none"

Failed(o, b, what) ==
  IF Noted(o, b)
  THEN [o EXCEPT ![Holder(o, b)].sink = what,
                 ![Holder(o, b)].unmet = IF what = "missing" THEN "missing" ELSE @]
  ELSE o

-----------------------------------------------------------------------------
(* Least and greatest *)

Less == {p \in Nat \X Nat : p[1] < p[2]}

LEMMA LessIsWellFounded == IsWellFoundedOn(Less, Nat)
BY NatLessThanWellFounded DEF Less, OpToRel

LEMMA Least ==
  ASSUME NEW S \in SUBSET Nat, S # {}
  PROVE  \E x \in S : \A y \in S : x <= y
<1>1. PICK x \in S : \A y \in S : ~ (<<y, x>> \in Less)
  BY LessIsWellFounded, WFMin
<1>2. ASSUME NEW y \in S PROVE x <= y
  <2>1. y \in Nat /\ x \in Nat
    OBVIOUS
  <2>2. y < x => <<y, x>> \in Less
    BY <2>1 DEF Less
  <2>3. ~ (y < x)
    BY <1>1, <2>2
  <2> QED
    BY <2>1, <2>3
<1> QED
  BY <1>2

LEMMA Greatest ==
  ASSUME NEW n \in Nat, NEW S \in SUBSET (0 .. n), S # {}
  PROVE  \E x \in S : \A y \in S : y <= x
<1> DEFINE T == {n - x : x \in S}
<1>1. T \in SUBSET Nat
  OBVIOUS
<1>2. T # {}
  OBVIOUS
<1>3. PICK t \in T : \A u \in T : t <= u
  <2> HIDE DEF T
  <2> QED
    BY <1>1, <1>2, Least
<1>4. PICK x \in S : t = n - x
  OBVIOUS
<1>5. \A y \in S : n - y \in T
  OBVIOUS
<1>6. \A y \in S : n - x <= n - y
  BY <1>3, <1>4, <1>5
<1> QED
  BY <1>6

-----------------------------------------------------------------------------
(* A failure *)

\* A failure changes the verdict fields of one builder and nothing else.
LEMMA FailedFields ==
  ASSUME NEW o \in [Builder -> Object], NEW b \in Builder, Holder(o, b) \in Builder,
         NEW what \in {"plain", "missing"}
  PROVE  LET new == Failed(o, b, what)
             hit(c) == Noted(o, b) /\ c = Holder(o, b)
         IN /\ new \in [Builder -> Object]
            /\ \A c \in Builder :
                 /\ new[c].kind = o[c].kind /\ new[c].answering = o[c].answering
                 /\ new[c].answersTo = o[c].answersTo /\ new[c].pivots = o[c].pivots
                 /\ new[c].sink = IF hit(c) THEN what ELSE o[c].sink
                 /\ new[c].unmet = IF hit(c) /\ what = "missing" THEN "missing" ELSE o[c].unmet
<1> DEFINE h == Holder(o, b)
<1> HIDE DEF h
<1>1. h \in Builder /\ h = Holder(o, b)
  BY DEF h
<1>2. CASE ~Noted(o, b)
  BY <1>2 DEF Failed
<1>3. CASE Noted(o, b)
  <2> DEFINE v == [o[h] EXCEPT !.sink = what, !.unmet = IF what = "missing" THEN "missing" ELSE @]
  <2>1. o[h] \in Object
    BY <1>1
  <2>2. /\ v \in Object
        /\ v.kind = o[h].kind /\ v.answering = o[h].answering
        /\ v.answersTo = o[h].answersTo /\ v.pivots = o[h].pivots
        /\ v.sink = what /\ v.unmet = IF what = "missing" THEN "missing" ELSE o[h].unmet
    BY <2>1 DEF Object, Failure, Unmet
  <2>3. Failed(o, b, what) = [o EXCEPT ![h] = v]
    BY <1>1, <1>3 DEF Failed
  <2> HIDE DEF v
  <2> QED
    BY <1>1, <1>3, <2>2, <2>3
<1> QED
  BY <1>2, <1>3

\* It is heard by the innermost run of the holder, which is told once.
LEMMA HeardFrames ==
  ASSUME NEW s \in Seq(Frame), NEW o, NEW b, NEW what \in {"plain", "missing"}
  PROVE  LET new == Heard(s, o, b, what)
         IN /\ new \in Seq(Frame) /\ Len(new) = Len(s) /\ DOMAIN new = DOMAIN s
            /\ \A i \in DOMAIN s :
                 /\ new[i].how = s[i].how /\ new[i].on = s[i].on /\ new[i].holder = s[i].holder
                 /\ new[i].kind = s[i].kind /\ new[i].answering = s[i].answering
                 /\ new[i].sink = s[i].sink /\ new[i].unmet = s[i].unmet
                 /\ new[i].first = IF Told(s, o, b, i) THEN what ELSE s[i].first
<1> DEFINE new == Heard(s, o, b, what)
<1>1. DOMAIN s = 1 .. Len(s) /\ Len(s) \in Nat /\ \A i \in DOMAIN s : s[i] \in Frame
  BY LenProperties
<1>2. DOMAIN new = DOMAIN s
  BY DEF Heard
<1>3. ASSUME NEW i \in DOMAIN s
      PROVE  new[i] = IF Told(s, o, b, i) THEN [s[i] EXCEPT !.first = what] ELSE s[i]
  BY <1>3 DEF Heard, RunsOf, Innermost, Told
<1>4. ASSUME NEW i \in DOMAIN s
      PROVE  /\ new[i] \in Frame
             /\ new[i].how = s[i].how /\ new[i].on = s[i].on /\ new[i].holder = s[i].holder
             /\ new[i].kind = s[i].kind /\ new[i].answering = s[i].answering
             /\ new[i].sink = s[i].sink /\ new[i].unmet = s[i].unmet
             /\ new[i].first = IF Told(s, o, b, i) THEN what ELSE s[i].first
  <2> HIDE DEF new
  <2>1. s[i] \in Frame
    BY <1>1
  <2> QED
    BY <1>3, <2>1 DEF Frame, Failure
<1>5. new \in Seq(Frame) /\ Len(new) = Len(s)
  <2> HIDE DEF new
  <2>1. new = [i \in 1 .. Len(s) |-> new[i]]
    BY <1>1, <1>2 DEF new, Heard
  <2> QED
    BY <1>1, <1>2, <1>4, <2>1
<1> HIDE DEF new
<1>6. /\ new \in Seq(Frame) /\ Len(new) = Len(s) /\ DOMAIN new = DOMAIN s
      /\ \A i \in DOMAIN s :
           /\ new[i].how = s[i].how /\ new[i].on = s[i].on /\ new[i].holder = s[i].holder
           /\ new[i].kind = s[i].kind /\ new[i].answering = s[i].answering
           /\ new[i].sink = s[i].sink /\ new[i].unmet = s[i].unmet
           /\ new[i].first = IF Told(s, o, b, i) THEN what ELSE s[i].first
  BY <1>2, <1>4, <1>5
<1> QED
  BY <1>6 DEF new

LEMMA FailedKeeps ==
  ASSUME NEW o, NEW s, NEW m, Inv(o, s, m), NEW b \in m, NEW what \in {"plain", "missing"}
  PROVE  Inv(Failed(o, b, what), Heard(s, o, b, what), m)
<1> DEFINE h == Holder(o, b)
           p == Failed(o, b, what)
           t == Heard(s, o, b, what)
           hit(c) == Noted(o, b) /\ c = h
           told(i) == Told(s, o, b, i)
<1> USE DEF Inv
<1>1. /\ o \in [Builder -> Object] /\ s \in Seq(Frame) /\ m \subseteq Builder /\ b \in Builder
      /\ DOMAIN s = 1 .. Len(s) /\ Len(s) \in Nat /\ \A i \in DOMAIN s : s[i] \in Frame
  BY LenProperties DEF Typed
<1>2. h \in m /\ h \in Builder
  BY <1>1 DEF Linked, Holder
<1>3. /\ p \in [Builder -> Object]
      /\ \A c \in Builder :
           /\ p[c].kind = o[c].kind /\ p[c].answering = o[c].answering
           /\ p[c].answersTo = o[c].answersTo /\ p[c].pivots = o[c].pivots
           /\ p[c].sink = IF hit(c) THEN what ELSE o[c].sink
           /\ p[c].unmet = IF hit(c) /\ what = "missing" THEN "missing" ELSE o[c].unmet
  BY <1>1, <1>2, FailedFields
<1>4. /\ t \in Seq(Frame) /\ Len(t) = Len(s) /\ DOMAIN t = DOMAIN s
      /\ \A i \in DOMAIN s :
           /\ t[i].how = s[i].how /\ t[i].on = s[i].on /\ t[i].holder = s[i].holder
           /\ t[i].kind = s[i].kind /\ t[i].answering = s[i].answering
           /\ t[i].sink = s[i].sink /\ t[i].unmet = s[i].unmet
           /\ t[i].first = IF told(i) THEN what ELSE s[i].first
  BY <1>1, HeardFrames
<1>5. h = Holder(o, b)
  OBVIOUS
<1> HIDE DEF p, t, h, Inv
<1>6. \A c \in Builder : Holder(p, c) = Holder(o, c) /\ RunsOf(t, c) = RunsOf(s, c)
  <2>1. \A c \in Builder : Holder(p, c) = Holder(o, c)
    BY <1>3 DEF Holder
  <2>2. \A c \in Builder : RunsOf(t, c) = RunsOf(s, c)
    BY <1>4 DEF RunsOf
  <2> QED
    BY <2>1, <2>2
<1>7. \A i \in DOMAIN s : s[i].on \in Builder /\ s[i].holder \in Builder
  BY <1>1 DEF Frame
<1>8. Typed(p, t, m)
  BY <1>1, <1>3, <1>4 DEF Typed
<1>9. Linked(p, m)
  BY <1>1, <1>3 DEF Linked, Inv
<1>10. Placed(p, t, m)
  <2> SUFFICES ASSUME NEW i \in DOMAIN s
               PROVE  /\ t[i].on \in m /\ t[i].holder \in m
                      /\ t[i].holder = Holder(p, t[i].on) /\ p[t[i].holder].answersTo = NoOne
                      /\ t[i].kind = "check" <=> \E j \in DOMAIN t : j < i /\ t[j].holder = t[i].holder
                      /\ t[i].kind # "check" => t[i].on = t[i].holder /\ t[i].sink = "none" /\ t[i].unmet = "none"
    BY <1>4 DEF Placed
  <2>1. /\ s[i].on \in m /\ s[i].holder \in m
        /\ s[i].holder = Holder(o, s[i].on) /\ o[s[i].holder].answersTo = NoOne
        /\ s[i].kind = "check" <=> \E j \in DOMAIN s : j < i /\ s[j].holder = s[i].holder
        /\ s[i].kind # "check" => s[i].on = s[i].holder /\ s[i].sink = "none" /\ s[i].unmet = "none"
    BY DEF Placed, Inv
  <2>2. t[i].kind = "check" <=> \E j \in DOMAIN t : j < i /\ t[j].holder = t[i].holder
    BY <1>4, <2>1
  <2> QED
    BY <1>3, <1>4, <1>6, <1>7, <2>1, <2>2
<1>11. Silent(p, t, m)
  <2>1. \A c \in m : Holder(o, c) \in Builder
    BY <1>1 DEF Inv, Linked, Holder
  <2> QED
    BY <1>1, <1>3, <1>6, <2>1 DEF Silent, Inv
<1>12. o[b].kind = "check" => RunsOf(s, h) # {}
  BY <1>5 DEF Silent, Inv
<1>13. Clean(p, t)
  BY <1>1, <1>3, <1>5, <1>6, <1>12 DEF Clean, Noted, Inv
<1>14. Marked(p, t)
  <2>1. \A c \in Builder : p[c].answersTo = NoOne /\ p[c].answering =>
          \E i \in DOMAIN t : t[i].how = "not" /\ t[i].on = c
    <3> TAKE c \in Builder
    <3>1. o[c].answersTo = NoOne /\ o[c].answering => \E i \in DOMAIN s : s[i].how = "not" /\ s[i].on = c
      BY DEF Marked, Inv
    <3> QED
      BY <1>3, <1>4, <3>1
  <2>2. \A i \in DOMAIN t : t[i].how = "not" /\ t[i].answering /\ p[t[i].on].answersTo = NoOne =>
          \E j \in DOMAIN t : j < i /\ t[j].how = "not" /\ t[j].on = t[i].on
    <3> TAKE i \in DOMAIN t
    <3>1. s[i].how = "not" /\ s[i].answering /\ o[s[i].on].answersTo = NoOne =>
            \E j \in DOMAIN s : j < i /\ s[j].how = "not" /\ s[j].on = s[i].on
      BY <1>4 DEF Marked, Inv
    <3> QED
      BY <1>3, <1>4, <1>7, <3>1
  <2> QED
    BY <2>1, <2>2 DEF Marked
<1>15. \A i \in DOMAIN s : Innermost(t, i) <=> Innermost(s, i)
  BY <1>4 DEF Innermost
<1>16. \A i, j \in DOMAIN s : Within(t, i, j) <=> Within(s, i, j)
  BY <1>4 DEF Within
<1>17. \A i \in DOMAIN s : Innermost(s, i) => o[s[i].holder].sink = s[i].first
  BY DEF SinkKept, Inv
\* The runs told are those whose field the failure went to.
<1>18. \A i \in DOMAIN s : Innermost(s, i) => (told(i) <=> hit(s[i].holder))
  BY <1>5, <1>17 DEF Noted, Told
<1>19. \A i, j \in DOMAIN s : Within(s, i, j) => ~ told(i)
  BY <1>1 DEF Within, Innermost, Told
<1>20. SinkKept(p, t)
  BY <1>3, <1>4, <1>7, <1>15, <1>16, <1>18, <1>19 DEF SinkKept, Inv
<1>21. UnmetKept(p, t)
  <2> SUFFICES ASSUME NEW i \in DOMAIN s, s[i].how = "not"
               PROVE  /\ Innermost(t, i) => (p[t[i].holder].unmet = "missing" <=> t[i].first = "missing")
                      /\ \A j \in DOMAIN t : Within(t, i, j) => (t[j].unmet = "missing" <=> t[i].first = "missing")
    BY <1>4 DEF UnmetKept
  <2>1. /\ Innermost(s, i) => (o[s[i].holder].unmet = "missing" <=> s[i].first = "missing")
        /\ \A j \in DOMAIN s : Within(s, i, j) => (s[j].unmet = "missing" <=> s[i].first = "missing")
    BY DEF UnmetKept, Inv
  <2>2. \A j \in DOMAIN t : Within(t, i, j) => (t[j].unmet = "missing" <=> t[i].first = "missing")
    BY <1>4, <1>16, <1>19, <2>1
  <2>3. CASE Innermost(s, i) /\ told(i)
    BY <1>3, <1>4, <1>7, <1>15, <1>18, <2>1, <2>2, <2>3 DEF Told
  <2>4. CASE Innermost(s, i) /\ ~ told(i)
    BY <1>3, <1>4, <1>7, <1>15, <1>18, <2>1, <2>2, <2>4
  <2> QED
    BY <1>15, <2>2, <2>3, <2>4
<1> QED
  BY <1>8, <1>9, <1>10, <1>11, <1>13, <1>14, <1>20, <1>21 DEF Inv, p, t

-----------------------------------------------------------------------------
(* The end of a run *)

LEMMA CutShort ==
  ASSUME NEW n \in Nat \ {0}
  PROVE  /\ (IF 1 <= n - 1 THEN n - 1 - 1 + 1 ELSE 0) = n - 1
         /\ \A i \in 1 .. n - 1 : i \in 1 .. n - 1 - 1 + 1 /\ 1 + i - 1 = i /\ i \in 1 .. n /\ i < n
         /\ n \in 1 .. n
OBVIOUS

LEMMA OuterFrames ==
  ASSUME stack \in Seq(Frame), stack # <<>>
  PROVE  /\ Len(stack) \in Nat \ {0} /\ DOMAIN stack = 1 .. Len(stack) /\ Len(stack) \in DOMAIN stack
         /\ Top = stack[Len(stack)] /\ Top \in Frame
         /\ Outer \in Seq(Frame) /\ DOMAIN Outer = 1 .. Len(stack) - 1 /\ Len(Outer) = Len(stack) - 1
         /\ \A i \in DOMAIN Outer : i \in DOMAIN stack /\ i < Len(stack) /\ Outer[i] = stack[i]
<1>1. Len(stack) \in Nat \ {0} /\ DOMAIN stack = 1 .. Len(stack)
  BY EmptySeq, LenProperties
<1>2. \A i \in 1 .. Len(stack) : stack[i] \in Frame
  BY ElementOfSeq
<1>3. /\ Outer \in Seq(Frame)
      /\ Len(Outer) = IF 1 <= Len(stack) - 1 THEN Len(stack) - 1 - 1 + 1 ELSE 0
      /\ \A i \in 1 .. Len(stack) - 1 - 1 + 1 : Outer[i] = stack[1 + i - 1]
  BY <1>1, <1>2, SubSeqProperties DEF Outer
<1>4. Len(Outer) = Len(stack) - 1
  BY <1>1, <1>3, CutShort
<1>5. DOMAIN Outer = 1 .. Len(stack) - 1
  BY <1>3, <1>4, LenProperties
<1>6. \A i \in 1 .. Len(stack) - 1 : i \in 1 .. Len(stack) /\ i < Len(stack) /\ Outer[i] = stack[i]
  BY <1>1, <1>3, CutShort
<1>7. Len(stack) \in DOMAIN stack /\ Top = stack[Len(stack)] /\ Top \in Frame
  BY <1>1, <1>2, CutShort DEF Top
<1> QED
  BY <1>1, <1>3, <1>4, <1>5, <1>6, <1>7

\* The runs left when the innermost one is over.
LEMMA OuterRuns ==
  ASSUME stack \in Seq(Frame), stack # <<>>
  PROVE  /\ \A h : RunsOf(Outer, h) = RunsOf(stack, h) \ {Len(stack)}
         /\ \A i \in DOMAIN Outer : Innermost(Outer, i) =>
              IF stack[i].holder = Top.holder THEN Within(stack, i, Len(stack)) ELSE Innermost(stack, i)
         /\ \A i, j \in DOMAIN Outer : Within(Outer, i, j) => Within(stack, i, j)
<1>1. /\ Len(stack) \in Nat \ {0} /\ DOMAIN stack = 1 .. Len(stack) /\ Len(stack) \in DOMAIN stack
      /\ Top = stack[Len(stack)] /\ DOMAIN Outer = 1 .. Len(stack) - 1
      /\ \A i \in DOMAIN Outer : i \in DOMAIN stack /\ i < Len(stack) /\ Outer[i] = stack[i]
      /\ \A k \in DOMAIN stack : k \in DOMAIN Outer \/ k = Len(stack)
  BY OuterFrames
<1>2. \A h : RunsOf(Outer, h) = RunsOf(stack, h) \ {Len(stack)}
  BY <1>1 DEF RunsOf
<1>3. ASSUME NEW i \in DOMAIN Outer, Innermost(Outer, i)
      PROVE  IF stack[i].holder = Top.holder THEN Within(stack, i, Len(stack)) ELSE Innermost(stack, i)
  BY <1>1, <1>3 DEF Innermost, Within
<1>4. ASSUME NEW i \in DOMAIN Outer, NEW j \in DOMAIN Outer, Within(Outer, i, j)
      PROVE  Within(stack, i, j)
  BY <1>1, <1>4 DEF Within
<1> QED
  BY <1>2, <1>3, <1>4

\* A run inside another of the same holder puts back what that one had.
LEMMA RestoredInner ==
  ASSUME obj \in [Builder -> Object], NEW f \in Frame, f.kind = "check", obj[f.on].kind = "check"
  PROVE  LET new == Restored(f)
         IN /\ new \in [Builder -> Object]
            /\ \A c \in Builder :
                 /\ new[c].kind = obj[c].kind
                 /\ new[c].answering = IF c = f.on /\ f.how = "not" THEN f.answering ELSE obj[c].answering
                 /\ new[c].answersTo = obj[c].answersTo /\ new[c].pivots = obj[c].pivots
                 /\ new[c].sink = IF c = f.holder THEN f.sink ELSE obj[c].sink
                 /\ new[c].unmet = IF c = f.holder THEN f.unmet ELSE obj[c].unmet
<1> DEFINE one == [obj[f.on] EXCEPT !.kind = f.kind, !.answering = IF f.how = "not" THEN f.answering ELSE @]
           mid == [obj EXCEPT ![f.on] = one]
           two == [mid[f.holder] EXCEPT !.sink = f.sink, !.unmet = f.unmet]
           new == [mid EXCEPT ![f.holder] = two]
<1>1. /\ f.on \in Builder /\ f.holder \in Builder /\ f.answering \in BOOLEAN
      /\ f.sink \in Failure /\ f.unmet \in Unmet
  BY DEF Frame
<1>2. Restored(f) = new
  BY <1>1 DEF Restored
<1>3. obj[f.on] \in Object
  BY <1>1
<1>4. /\ one \in Object /\ one.kind = "check"
      /\ one.answering = IF f.how = "not" THEN f.answering ELSE obj[f.on].answering
      /\ one.answersTo = obj[f.on].answersTo /\ one.pivots = obj[f.on].pivots
      /\ one.sink = obj[f.on].sink /\ one.unmet = obj[f.on].unmet
  BY <1>1, <1>3 DEF Object, Mode
<1> HIDE DEF one
<1>5. mid \in [Builder -> Object] /\ \A c \in Builder : mid[c] = IF c = f.on THEN one ELSE obj[c]
  BY <1>1, <1>4
<1> HIDE DEF mid
<1>6. mid[f.holder] \in Object
  BY <1>1, <1>5
<1>7. /\ two \in Object /\ two.kind = mid[f.holder].kind /\ two.answering = mid[f.holder].answering
      /\ two.answersTo = mid[f.holder].answersTo /\ two.pivots = mid[f.holder].pivots
      /\ two.sink = f.sink /\ two.unmet = f.unmet
  BY <1>1, <1>6 DEF Object
<1> HIDE DEF two
<1>8. new \in [Builder -> Object] /\ \A c \in Builder : new[c] = IF c = f.holder THEN two ELSE mid[c]
  BY <1>1, <1>5, <1>7
<1> HIDE DEF new
<1>9. ASSUME NEW c \in Builder
      PROVE  /\ new[c].kind = obj[c].kind
             /\ new[c].answering = IF c = f.on /\ f.how = "not" THEN f.answering ELSE obj[c].answering
             /\ new[c].answersTo = obj[c].answersTo /\ new[c].pivots = obj[c].pivots
             /\ new[c].sink = IF c = f.holder THEN f.sink ELSE obj[c].sink
             /\ new[c].unmet = IF c = f.holder THEN f.unmet ELSE obj[c].unmet
  BY <1>1, <1>4, <1>5, <1>7, <1>8
<1> QED
  BY <1>2, <1>8, <1>9

\* The outermost run of a holder gives it back its mode, and its pivots that mode and their freedom.
LEMMA RestoredOuter ==
  ASSUME obj \in [Builder -> Object], NEW f \in Frame, f.kind # "check", f.on = f.holder,
         f.on \notin obj[f.on].pivots
  PROVE  LET new == Restored(f)
             h == f.on
             mark == IF f.how = "not" THEN f.answering ELSE obj[h].answering
             freed(c) == c \in obj[h].pivots
         IN /\ new \in [Builder -> Object]
            /\ \A c \in Builder :
                 /\ new[c].kind = IF c = h \/ freed(c) THEN f.kind ELSE obj[c].kind
                 /\ new[c].answering = IF c = h \/ freed(c) THEN mark ELSE obj[c].answering
                 /\ new[c].answersTo = IF freed(c) THEN NoOne ELSE obj[c].answersTo
                 /\ new[c].pivots = IF c = h THEN {} ELSE obj[c].pivots
                 /\ new[c].sink = IF c = h THEN f.sink ELSE obj[c].sink
                 /\ new[c].unmet = IF c = h THEN f.unmet ELSE obj[c].unmet
<1> DEFINE h == f.on
           mark == IF f.how = "not" THEN f.answering ELSE obj[h].answering
           one == [obj[h] EXCEPT !.kind = f.kind, !.answering = IF f.how = "not" THEN f.answering ELSE @,
                                 !.sink = f.sink, !.unmet = f.unmet]
           back == [obj EXCEPT ![h] = one]
           new == Restored(f)
<1>1. /\ h \in Builder /\ f.holder = h /\ f.answering \in BOOLEAN /\ f.kind \in Kind
      /\ f.sink \in Failure /\ f.unmet \in Unmet
  BY DEF Frame, Mode
<1>2. obj[h] \in Object /\ h \notin obj[h].pivots
  BY <1>1
<1>3. /\ one \in Object /\ one.kind = f.kind /\ one.answering = mark
      /\ one.answersTo = obj[h].answersTo /\ one.pivots = obj[h].pivots
      /\ one.sink = f.sink /\ one.unmet = f.unmet
  BY <1>1, <1>2 DEF Object, Mode
<1>4. mark \in BOOLEAN
  BY <1>1, <1>2 DEF Object
<1>5. new = Released(back, h)
  BY <1>1 DEF Restored
<1> HIDE DEF one, mark, new, h
<1>6. back \in [Builder -> Object] /\ \A c \in Builder : back[c] = IF c = h THEN one ELSE obj[c]
  BY <1>1, <1>3
<1> HIDE DEF back
<1>7. new = [c \in Builder |->
               IF c \in obj[h].pivots
               THEN [back[c] EXCEPT !.kind = f.kind, !.answersTo = NoOne, !.answering = mark]
               ELSE IF c = h THEN [back[c] EXCEPT !.pivots = {}] ELSE back[c]]
  BY <1>1, <1>3, <1>5, <1>6 DEF Released
<1>8. ASSUME NEW c \in Builder
      PROVE  /\ new[c] \in Object
             /\ new[c].kind = IF c = h \/ c \in obj[h].pivots THEN f.kind ELSE obj[c].kind
             /\ new[c].answering = IF c = h \/ c \in obj[h].pivots THEN mark ELSE obj[c].answering
             /\ new[c].answersTo = IF c \in obj[h].pivots THEN NoOne ELSE obj[c].answersTo
             /\ new[c].pivots = IF c = h THEN {} ELSE obj[c].pivots
             /\ new[c].sink = IF c = h THEN f.sink ELSE obj[c].sink
             /\ new[c].unmet = IF c = h THEN f.unmet ELSE obj[c].unmet
  <2>1. back[c] \in Object
    BY <1>6
  <2>2. CASE c \in obj[h].pivots
    <3> DEFINE v == [back[c] EXCEPT !.kind = f.kind, !.answersTo = NoOne, !.answering = mark]
    <3>1. new[c] = v /\ c # h /\ back[c] = obj[c]
      BY <1>2, <1>6, <1>7, <2>2
    <3>2. /\ v \in Object /\ v.kind = f.kind /\ v.answering = mark /\ v.answersTo = NoOne
          /\ v.pivots = back[c].pivots /\ v.sink = back[c].sink /\ v.unmet = back[c].unmet
      BY <1>1, <1>4, <2>1 DEF Object, Mode
    <3> HIDE DEF v
    <3> QED
      BY <2>2, <3>1, <3>2
  <2>3. CASE c \notin obj[h].pivots /\ c = h
    <3> DEFINE v == [back[c] EXCEPT !.pivots = {}]
    <3>1. new[c] = v /\ back[c] = one
      BY <1>6, <1>7, <2>3
    <3>2. /\ v \in Object /\ v.kind = back[c].kind /\ v.answering = back[c].answering
          /\ v.answersTo = back[c].answersTo /\ v.pivots = {}
          /\ v.sink = back[c].sink /\ v.unmet = back[c].unmet
      BY <2>1 DEF Object
    <3> HIDE DEF v
    <3> QED
      BY <1>3, <2>3, <3>1, <3>2
  <2>4. CASE c \notin obj[h].pivots /\ c # h
    BY <1>6, <1>7, <2>1, <2>4
  <2> QED
    BY <2>2, <2>3, <2>4
<1>9. new \in [Builder -> Object]
  <2>1. DOMAIN new = Builder /\ new = [c \in Builder |-> new[c]]
    BY <1>7
  <2> QED
    BY <1>8, <2>1
<1> QED
  BY <1>8, <1>9 DEF h, mark, new

\* What the invariant says of the run that is about to end.
LEMMA EndingRun ==
  ASSUME Inv(obj, stack, made), stack # <<>>
  PROVE  /\ Top.on \in made /\ Top.holder \in made /\ Top.holder = Holder(obj, Top.on)
         /\ obj[Top.on].kind = "check" /\ obj[Top.holder].answersTo = NoOne
         /\ Len(stack) \in RunsOf(stack, Top.holder)
         /\ Top.kind = "check" <=> RunsOf(Outer, Top.holder) # {}
         /\ Top.kind # "check" => /\ Top.on = Top.holder /\ Top.sink = "none" /\ Top.unmet = "none"
                                  /\ Top.on \notin obj[Top.on].pivots
<1>1. /\ Len(stack) \in Nat \ {0} /\ DOMAIN stack = 1 .. Len(stack) /\ Len(stack) \in DOMAIN stack
      /\ Top = stack[Len(stack)] /\ Top \in Frame /\ DOMAIN Outer = 1 .. Len(stack) - 1
      /\ \A i \in DOMAIN Outer : i \in DOMAIN stack /\ i < Len(stack) /\ Outer[i] = stack[i]
  BY OuterFrames DEF Inv, Typed
<1>2. /\ Top.on \in made /\ Top.holder \in made
      /\ Top.holder = Holder(obj, Top.on) /\ obj[Top.holder].answersTo = NoOne
      /\ Top.kind = "check" <=> \E j \in DOMAIN stack : j < Len(stack) /\ stack[j].holder = Top.holder
      /\ Top.kind # "check" => Top.on = Top.holder /\ Top.sink = "none" /\ Top.unmet = "none"
  BY <1>1 DEF Inv, Placed
<1>3. Len(stack) \in RunsOf(stack, Top.holder)
  BY <1>1 DEF RunsOf
<1>4. obj[Top.on].kind = "check"
  BY <1>2, <1>3 DEF Inv, Silent
<1>5. Top.kind = "check" <=> RunsOf(Outer, Top.holder) # {}
  <2>1. \A j \in DOMAIN stack : j < Len(stack) => j \in DOMAIN Outer
    BY <1>1
  <2> QED
    BY <1>1, <1>2, <2>1 DEF RunsOf
<1>6. Top.on = Top.holder => Top.on \notin obj[Top.on].pivots
  BY <1>2, VerdictConstants DEF Inv, Linked, Typed
<1> QED
  BY <1>2, <1>3, <1>4, <1>5, <1>6

\* A run that ends inside another of the same holder keeps the invariant.
LEMMA EndedInner ==
  ASSUME Inv(obj, stack, made), stack # <<>>, Top.kind = "check"
  PROVE  Inv(Restored(Top), Outer, made)
<1> DEFINE f == Top
           h == Top.holder
           p == Restored(Top)
           n == Len(stack)
<1>1. /\ n \in Nat \ {0} /\ DOMAIN stack = 1 .. n /\ n \in DOMAIN stack
      /\ f = stack[n] /\ f \in Frame
      /\ Outer \in Seq(Frame) /\ DOMAIN Outer = 1 .. n - 1
      /\ \A i \in DOMAIN Outer : i \in DOMAIN stack /\ i < n /\ Outer[i] = stack[i]
      /\ \A i \in DOMAIN stack : i \in DOMAIN Outer \/ i = n
  BY OuterFrames DEF Inv, Typed
<1>2. /\ \A c : RunsOf(Outer, c) = RunsOf(stack, c) \ {n}
      /\ \A i \in DOMAIN Outer : Innermost(Outer, i) =>
           IF stack[i].holder = h THEN Within(stack, i, n) ELSE Innermost(stack, i)
      /\ \A i, j \in DOMAIN Outer : Within(Outer, i, j) => Within(stack, i, j)
  BY OuterRuns DEF Inv, Typed
<1>3. /\ f.on \in made /\ h \in made /\ h = Holder(obj, f.on) /\ obj[f.on].kind = "check"
      /\ RunsOf(Outer, h) # {}
  BY EndingRun
<1>4. /\ p \in [Builder -> Object]
      /\ \A c \in Builder :
           /\ p[c].kind = obj[c].kind
           /\ p[c].answering = IF c = f.on /\ f.how = "not" THEN f.answering ELSE obj[c].answering
           /\ p[c].answersTo = obj[c].answersTo /\ p[c].pivots = obj[c].pivots
           /\ p[c].sink = IF c = h THEN f.sink ELSE obj[c].sink
           /\ p[c].unmet = IF c = h THEN f.unmet ELSE obj[c].unmet
  BY <1>1, <1>3, RestoredInner DEF Inv, Typed
<1>5. /\ made \subseteq Builder
      /\ \A i \in DOMAIN Outer : stack[i].on \in Builder /\ stack[i].holder \in Builder
      /\ \A i \in DOMAIN Outer : stack[i].on \in made /\ stack[i].holder \in made
  BY <1>1 DEF Inv, Typed, Placed
<1> HIDE DEF f, h, p, n
<1>6. \A c \in Builder : Holder(p, c) = Holder(obj, c)
  BY <1>4 DEF Holder
<1>7. \A c \in Builder : RunsOf(Outer, c) = {} <=> RunsOf(stack, c) = {}
  <2>1. \A c \in Builder : c # h => n \notin RunsOf(stack, c)
    BY <1>1 DEF RunsOf, h, f
  <2> QED
    BY <1>2, <1>3, <2>1
<1>8. Typed(p, Outer, made)
  BY <1>1, <1>4, <1>5 DEF Typed
<1>9. Linked(p, made)
  <2> SUFFICES ASSUME NEW c \in Builder
               PROVE  /\ p[c].pivots = {q \in Builder : p[q].answersTo = c}
                      /\ p[c].answersTo # NoOne =>
                           /\ c \in made /\ p[c].answersTo \in made
                           /\ p[p[c].answersTo].answersTo = NoOne /\ p[c].kind = "check"
    BY DEF Linked
  <2>1. /\ obj[c].pivots = {q \in Builder : obj[q].answersTo = c}
        /\ obj[c].answersTo # NoOne =>
             /\ c \in made /\ obj[c].answersTo \in made
             /\ obj[obj[c].answersTo].answersTo = NoOne /\ obj[c].kind = "check"
    BY DEF Linked, Inv
  <2>2. {q \in Builder : p[q].answersTo = c} = {q \in Builder : obj[q].answersTo = c}
    BY <1>4
  <2> QED
    BY <1>4, <1>5, <2>1, <2>2
<1>10. Placed(p, Outer, made)
  <2> SUFFICES ASSUME NEW i \in DOMAIN Outer
               PROVE  /\ stack[i].on \in made /\ stack[i].holder \in made
                      /\ stack[i].holder = Holder(p, stack[i].on) /\ p[stack[i].holder].answersTo = NoOne
                      /\ stack[i].kind = "check" <=>
                           \E j \in DOMAIN Outer : j < i /\ Outer[j].holder = stack[i].holder
                      /\ stack[i].kind # "check" =>
                           stack[i].on = stack[i].holder /\ stack[i].sink = "none" /\ stack[i].unmet = "none"
    BY <1>1 DEF Placed
  <2>1. /\ stack[i].on \in made /\ stack[i].holder \in made
        /\ stack[i].holder = Holder(obj, stack[i].on) /\ obj[stack[i].holder].answersTo = NoOne
        /\ stack[i].kind = "check" <=> \E j \in DOMAIN stack : j < i /\ stack[j].holder = stack[i].holder
        /\ stack[i].kind # "check" =>
             stack[i].on = stack[i].holder /\ stack[i].sink = "none" /\ stack[i].unmet = "none"
    BY <1>1 DEF Placed, Inv
  <2>2. \A j \in DOMAIN stack : j < i => j \in DOMAIN Outer
    BY <1>1
  <2>3. (\E j \in DOMAIN Outer : j < i /\ Outer[j].holder = stack[i].holder)
          <=> \E j \in DOMAIN stack : j < i /\ stack[j].holder = stack[i].holder
    BY <1>1, <2>2
  <2> QED
    BY <1>4, <1>5, <1>6, <2>1, <2>3
<1>11. Silent(p, Outer, made)
  <2>1. \A c \in made : c \in Builder /\ Holder(obj, c) \in Builder
    BY <1>5 DEF Inv, Linked, Holder
  <2> QED
    BY <1>4, <1>6, <1>7, <2>1 DEF Silent, Inv
<1>12. Clean(p, Outer)
  BY <1>3, <1>4, <1>7 DEF Clean, Inv
<1>13. Marked(p, Outer)
  <2>1. \A c \in Builder : p[c].answersTo = NoOne /\ p[c].answering =>
          \E i \in DOMAIN Outer : Outer[i].how = "not" /\ Outer[i].on = c
    <3> SUFFICES ASSUME NEW c \in Builder, p[c].answersTo = NoOne, p[c].answering
                 PROVE  \E i \in DOMAIN Outer : stack[i].how = "not" /\ stack[i].on = c
      BY <1>1
    <3>1. CASE c = f.on /\ f.how = "not"
      <4>1. \E j \in DOMAIN stack : j < n /\ stack[j].how = "not" /\ stack[j].on = c
        BY <1>1, <1>4, <3>1 DEF Marked, Inv
      <4> QED
        BY <1>1, <4>1
    <3>2. CASE ~ (c = f.on /\ f.how = "not")
      <4>1. \E i \in DOMAIN stack : stack[i].how = "not" /\ stack[i].on = c
        BY <1>4, <3>2 DEF Marked, Inv
      <4> QED
        BY <1>1, <3>2, <4>1
    <3> QED
      BY <3>1, <3>2
  <2>2. \A i \in DOMAIN Outer : Outer[i].how = "not" /\ Outer[i].answering /\ p[Outer[i].on].answersTo = NoOne =>
          \E j \in DOMAIN Outer : j < i /\ Outer[j].how = "not" /\ Outer[j].on = Outer[i].on
    <3> SUFFICES ASSUME NEW i \in DOMAIN Outer, stack[i].how = "not", stack[i].answering,
                        obj[stack[i].on].answersTo = NoOne
                 PROVE  \E j \in DOMAIN Outer : j < i /\ stack[j].how = "not" /\ stack[j].on = stack[i].on
      BY <1>1, <1>4, <1>5
    <3>1. \E j \in DOMAIN stack : j < i /\ stack[j].how = "not" /\ stack[j].on = stack[i].on
      BY <1>1 DEF Marked, Inv
    <3>2. \A j \in DOMAIN stack : j < i => j \in DOMAIN Outer
      BY <1>1
    <3> QED
      BY <3>1, <3>2
  <2> QED
    BY <2>1, <2>2 DEF Marked
<1>14. SinkKept(p, Outer)
  <2> SUFFICES ASSUME NEW i \in DOMAIN Outer
               PROVE  /\ Innermost(Outer, i) => p[stack[i].holder].sink = stack[i].first
                      /\ \A j \in DOMAIN Outer : Within(Outer, i, j) => stack[j].sink = stack[i].first
    BY <1>1 DEF SinkKept
  <2>1. /\ Innermost(stack, i) => obj[stack[i].holder].sink = stack[i].first
        /\ \A j \in DOMAIN stack : Within(stack, i, j) => stack[j].sink = stack[i].first
    BY <1>1 DEF SinkKept, Inv
  <2> QED
    BY <1>1, <1>2, <1>4, <1>5, <2>1
<1>15. UnmetKept(p, Outer)
  <2> SUFFICES ASSUME NEW i \in DOMAIN Outer, stack[i].how = "not"
               PROVE  /\ Innermost(Outer, i) => (p[stack[i].holder].unmet = "missing" <=> stack[i].first = "missing")
                      /\ \A j \in DOMAIN Outer : Within(Outer, i, j) =>
                           (stack[j].unmet = "missing" <=> stack[i].first = "missing")
    BY <1>1 DEF UnmetKept
  <2>1. /\ Innermost(stack, i) => (obj[stack[i].holder].unmet = "missing" <=> stack[i].first = "missing")
        /\ \A j \in DOMAIN stack : Within(stack, i, j) => (stack[j].unmet = "missing" <=> stack[i].first = "missing")
    BY <1>1 DEF UnmetKept, Inv
  <2>2. \A j \in DOMAIN Outer : Within(Outer, i, j) => (stack[j].unmet = "missing" <=> stack[i].first = "missing")
    BY <1>1, <1>2, <2>1
  <2>3. Innermost(Outer, i) => (p[stack[i].holder].unmet = "missing" <=> stack[i].first = "missing")
    BY <1>1, <1>2, <1>4, <1>5, <2>1
  <2> QED
    BY <2>2, <2>3
<1> QED
  BY <1>8, <1>9, <1>10, <1>11, <1>12, <1>13, <1>14, <1>15 DEF Inv, p

\* The outermost run of a holder, ending, lets go of the builders that answered to it.
LEMMA EndedOuter ==
  ASSUME Inv(obj, stack, made), stack # <<>>, Top.kind # "check"
  PROVE  Inv(Restored(Top), Outer, made)
<1> DEFINE f == Top
           h == Top.on
           p == Restored(Top)
           n == Len(stack)
           mark == IF Top.how = "not" THEN Top.answering ELSE obj[h].answering
           freed(c) == c \in obj[h].pivots
<1>1. /\ n \in Nat \ {0} /\ DOMAIN stack = 1 .. n /\ n \in DOMAIN stack
      /\ f = stack[n] /\ f \in Frame
      /\ Outer \in Seq(Frame) /\ DOMAIN Outer = 1 .. n - 1
      /\ \A i \in DOMAIN Outer : i \in DOMAIN stack /\ i < n /\ Outer[i] = stack[i]
      /\ \A i \in DOMAIN stack : i \in DOMAIN Outer \/ i = n
  BY OuterFrames DEF Inv, Typed
<1>2. /\ \A c : RunsOf(Outer, c) = RunsOf(stack, c) \ {n}
      /\ \A i \in DOMAIN Outer : Innermost(Outer, i) =>
           IF stack[i].holder = f.holder THEN Within(stack, i, n) ELSE Innermost(stack, i)
      /\ \A i, j \in DOMAIN Outer : Within(Outer, i, j) => Within(stack, i, j)
  BY OuterRuns DEF Inv, Typed
<1>3. /\ h \in made /\ f.on = h /\ f.holder = h /\ h = Holder(obj, h) /\ obj[h].kind = "check"
      /\ obj[h].answersTo = NoOne /\ ~ freed(h)
      /\ RunsOf(Outer, h) = {} /\ f.sink = "none" /\ f.unmet = "none" /\ f.kind # "check"
  BY EndingRun
<1>4. /\ p \in [Builder -> Object]
      /\ \A c \in Builder :
           /\ p[c].kind = IF c = h \/ freed(c) THEN f.kind ELSE obj[c].kind
           /\ p[c].answering = IF c = h \/ freed(c) THEN mark ELSE obj[c].answering
           /\ p[c].answersTo = IF freed(c) THEN NoOne ELSE obj[c].answersTo
           /\ p[c].pivots = IF c = h THEN {} ELSE obj[c].pivots
           /\ p[c].sink = IF c = h THEN "none" ELSE obj[c].sink
           /\ p[c].unmet = IF c = h THEN "none" ELSE obj[c].unmet
  <2>1. obj \in [Builder -> Object] /\ f.on \notin obj[f.on].pivots
    BY <1>3 DEF Inv, Typed
  <2> QED
    BY <1>1, <1>3, <2>1, RestoredOuter
<1>5. /\ made \subseteq Builder
      /\ \A i \in DOMAIN Outer : stack[i].on \in Builder /\ stack[i].holder \in Builder
      /\ \A i \in DOMAIN Outer : stack[i].on \in made /\ stack[i].holder \in made
  BY <1>1 DEF Inv, Typed, Placed
\* Those freed answered to h, and nobody answered to them.
<1>6. \A c \in Builder : freed(c) <=> obj[c].answersTo = h
  BY <1>3, <1>5 DEF Inv, Linked
<1>7. \A c \in Builder : obj[c].pivots = {q \in Builder : obj[q].answersTo = c}
  BY DEF Inv, Linked
<1>8. \A c \in Builder : obj[c].answersTo # NoOne =>
        /\ c \in made /\ obj[c].answersTo \in made
        /\ obj[obj[c].answersTo].answersTo = NoOne /\ obj[c].kind = "check"
  BY DEF Inv, Linked
<1>9. h # NoOne /\ h \in Builder
  BY <1>3, <1>5, VerdictConstants
<1>10. \A i \in DOMAIN Outer :
         /\ stack[i].on \in made /\ stack[i].holder \in made
         /\ stack[i].holder = Holder(obj, stack[i].on) /\ obj[stack[i].holder].answersTo = NoOne
         /\ stack[i].kind = "check" <=> \E j \in DOMAIN stack : j < i /\ stack[j].holder = stack[i].holder
         /\ stack[i].kind # "check" =>
              stack[i].on = stack[i].holder /\ stack[i].sink = "none" /\ stack[i].unmet = "none"
  BY <1>1 DEF Placed, Inv
\* The runs left are on builders that have nothing to do with h.
<1>11. \A i \in DOMAIN Outer : stack[i].holder # h
  BY <1>1, <1>3 DEF RunsOf
<1>12. \A i \in DOMAIN Outer : stack[i].on # h /\ ~ freed(stack[i].on) /\ ~ freed(stack[i].holder)
  <2> TAKE i \in DOMAIN Outer
  <2>1. stack[i].on # h
    BY <1>3, <1>10, <1>11 DEF Holder
  <2>2. obj[stack[i].on].answersTo # h
    BY <1>9, <1>10, <1>11 DEF Holder
  <2>3. obj[stack[i].holder].answersTo # h
    BY <1>9, <1>10
  <2> QED
    BY <1>5, <1>6, <2>1, <2>2, <2>3
\* Nobody outside marked them.
<1>13. mark = FALSE
  <2>1. mark \in BOOLEAN
    BY <1>1, <1>9 DEF Frame, Inv, Typed, Object
  <2>2. ASSUME f.how = "not", f.answering PROVE FALSE
    <3>1. \E j \in DOMAIN stack : j < n /\ stack[j].how = "not" /\ stack[j].on = h
      BY <1>1, <1>3, <2>2 DEF Marked, Inv
    <3> QED
      BY <1>1, <1>12, <3>1
  <2>3. ASSUME f.how # "not", obj[h].answering PROVE FALSE
    <3>1. \E j \in DOMAIN stack : stack[j].how = "not" /\ stack[j].on = h
      BY <1>3, <1>9, <2>3 DEF Marked, Inv
    <3> QED
      BY <1>1, <1>12, <2>3, <3>1
  <2> QED
    BY <2>1, <2>2, <2>3
<1> HIDE DEF f, h, p, n, mark, freed
<1>14. \A c \in Builder :
         IF c = h \/ freed(c) THEN Holder(p, c) = c
         ELSE Holder(p, c) = Holder(obj, c) /\ Holder(p, c) # h
  BY <1>3, <1>4, <1>6, <1>9 DEF Holder
<1>15. \A c \in Builder : c # h => RunsOf(Outer, c) = RunsOf(stack, c)
  <2>1. \A c \in Builder : c # h => n \notin RunsOf(stack, c)
    BY <1>1, <1>3 DEF RunsOf
  <2> QED
    BY <1>2, <2>1
<1>16. Typed(p, Outer, made)
  BY <1>1, <1>4, <1>5 DEF Typed
<1>17. Linked(p, made)
  <2> SUFFICES ASSUME NEW c \in Builder
               PROVE  /\ p[c].pivots = {q \in Builder : p[q].answersTo = c}
                      /\ p[c].answersTo # NoOne =>
                           /\ c \in made /\ p[c].answersTo \in made
                           /\ p[p[c].answersTo].answersTo = NoOne /\ p[c].kind = "check"
    BY DEF Linked
  <2>1. p[c].answersTo # NoOne =>
          /\ c \in made /\ p[c].answersTo \in made
          /\ p[p[c].answersTo].answersTo = NoOne /\ p[c].kind = "check"
    BY <1>3, <1>4, <1>5, <1>6, <1>8, <1>9
  <2>2. CASE c = h
    <3>1. \A q \in Builder : p[q].answersTo # h
      BY <1>4, <1>6, <1>9
    <3> QED
      BY <1>4, <2>1, <2>2, <3>1
  <2>3. CASE c # h
    <3>1. \A q \in Builder : p[q].answersTo = c <=> obj[q].answersTo = c
      BY <1>4, <1>6, <2>3, VerdictConstants
    <3> QED
      BY <1>4, <1>7, <2>1, <2>3, <3>1
  <2> QED
    BY <2>2, <2>3
<1>18. Placed(p, Outer, made)
  <2> SUFFICES ASSUME NEW i \in DOMAIN Outer
               PROVE  /\ stack[i].on \in made /\ stack[i].holder \in made
                      /\ stack[i].holder = Holder(p, stack[i].on) /\ p[stack[i].holder].answersTo = NoOne
                      /\ stack[i].kind = "check" <=>
                           \E j \in DOMAIN Outer : j < i /\ Outer[j].holder = stack[i].holder
                      /\ stack[i].kind # "check" =>
                           stack[i].on = stack[i].holder /\ stack[i].sink = "none" /\ stack[i].unmet = "none"
    BY <1>1 DEF Placed
  <2>1. \A j \in DOMAIN stack : j < i => j \in DOMAIN Outer
    BY <1>1
  <2>2. (\E j \in DOMAIN Outer : j < i /\ Outer[j].holder = stack[i].holder)
          <=> \E j \in DOMAIN stack : j < i /\ stack[j].holder = stack[i].holder
    BY <1>1, <2>1
  <2>3. stack[i].holder = Holder(p, stack[i].on) /\ p[stack[i].holder].answersTo = NoOne
    BY <1>4, <1>5, <1>10, <1>12, <1>14
  <2> QED
    BY <1>10, <2>2, <2>3
<1>19. Silent(p, Outer, made)
  <2> SUFFICES ASSUME NEW c \in made
               PROVE  p[c].kind = "check" <=> RunsOf(Outer, Holder(p, c)) # {}
    BY DEF Silent
  <2>1. CASE c = h
    BY <1>3, <1>4, <1>9, <1>14, <2>1
  <2>2. CASE c # h /\ freed(c)
    <3>1. RunsOf(Outer, c) = {}
      BY <1>1, <1>12, <2>2 DEF RunsOf
    <3> QED
      BY <1>3, <1>4, <1>5, <1>14, <2>2, <3>1
  <2>3. CASE c # h /\ ~ freed(c)
    <3>1. Holder(obj, c) \in Builder
      BY <1>5, <1>8 DEF Holder
    <3> QED
      BY <1>4, <1>5, <1>14, <1>15, <2>3, <3>1 DEF Silent, Inv
  <2> QED
    BY <2>1, <2>2, <2>3
<1>20. Clean(p, Outer)
  BY <1>4, <1>15 DEF Clean, Inv
<1>21. Marked(p, Outer)
  <2>1. \A c \in Builder : p[c].answersTo = NoOne /\ p[c].answering =>
          \E i \in DOMAIN Outer : Outer[i].how = "not" /\ Outer[i].on = c
    <3> SUFFICES ASSUME NEW c \in Builder, p[c].answersTo = NoOne, p[c].answering
                 PROVE  \E i \in DOMAIN Outer : stack[i].how = "not" /\ stack[i].on = c
      BY <1>1
    <3>1. c # h /\ ~ freed(c)
      BY <1>4, <1>13
    <3>2. \E i \in DOMAIN stack : stack[i].how = "not" /\ stack[i].on = c
      BY <1>4, <3>1 DEF Marked, Inv
    <3> QED
      BY <1>1, <1>3, <3>1, <3>2
  <2>2. \A i \in DOMAIN Outer : Outer[i].how = "not" /\ Outer[i].answering /\ p[Outer[i].on].answersTo = NoOne =>
          \E j \in DOMAIN Outer : j < i /\ Outer[j].how = "not" /\ Outer[j].on = Outer[i].on
    <3> SUFFICES ASSUME NEW i \in DOMAIN Outer, stack[i].how = "not", stack[i].answering,
                        p[stack[i].on].answersTo = NoOne
                 PROVE  \E j \in DOMAIN Outer : j < i /\ stack[j].how = "not" /\ stack[j].on = stack[i].on
      BY <1>1
    <3>1. obj[stack[i].on].answersTo = NoOne
      BY <1>4, <1>5, <1>12
    <3>2. \E j \in DOMAIN stack : j < i /\ stack[j].how = "not" /\ stack[j].on = stack[i].on
      BY <1>1, <3>1 DEF Marked, Inv
    <3>3. \A j \in DOMAIN stack : j < i => j \in DOMAIN Outer
      BY <1>1
    <3> QED
      BY <3>2, <3>3
  <2> QED
    BY <2>1, <2>2 DEF Marked
<1>22. SinkKept(p, Outer)
  <2> SUFFICES ASSUME NEW i \in DOMAIN Outer
               PROVE  /\ Innermost(Outer, i) => p[stack[i].holder].sink = stack[i].first
                      /\ \A j \in DOMAIN Outer : Within(Outer, i, j) => stack[j].sink = stack[i].first
    BY <1>1 DEF SinkKept
  <2>1. /\ Innermost(stack, i) => obj[stack[i].holder].sink = stack[i].first
        /\ \A j \in DOMAIN stack : Within(stack, i, j) => stack[j].sink = stack[i].first
    BY <1>1 DEF SinkKept, Inv
  <2> QED
    BY <1>1, <1>2, <1>3, <1>4, <1>5, <1>11, <2>1
<1>23. UnmetKept(p, Outer)
  <2> SUFFICES ASSUME NEW i \in DOMAIN Outer, stack[i].how = "not"
               PROVE  /\ Innermost(Outer, i) => (p[stack[i].holder].unmet = "missing" <=> stack[i].first = "missing")
                      /\ \A j \in DOMAIN Outer : Within(Outer, i, j) =>
                           (stack[j].unmet = "missing" <=> stack[i].first = "missing")
    BY <1>1 DEF UnmetKept
  <2>1. /\ Innermost(stack, i) => (obj[stack[i].holder].unmet = "missing" <=> stack[i].first = "missing")
        /\ \A j \in DOMAIN stack : Within(stack, i, j) => (stack[j].unmet = "missing" <=> stack[i].first = "missing")
    BY <1>1 DEF UnmetKept, Inv
  <2>2. \A j \in DOMAIN Outer : Within(Outer, i, j) => (stack[j].unmet = "missing" <=> stack[i].first = "missing")
    BY <1>1, <1>2, <2>1
  <2>3. Innermost(Outer, i) => (p[stack[i].holder].unmet = "missing" <=> stack[i].first = "missing")
    BY <1>1, <1>2, <1>3, <1>4, <1>5, <1>11, <2>1
  <2> QED
    BY <2>2, <2>3
<1> QED
  BY <1>16, <1>17, <1>18, <1>19, <1>20, <1>21, <1>22, <1>23 DEF Inv, p

-----------------------------------------------------------------------------
(* The start of a run *)

\* The start of a run on b, whose holder is h.
Begun(o, how, b, h) ==
  IF how = "not"
  THEN [o EXCEPT ![b].kind = "check", ![b].answering = TRUE, ![h].sink = "none", ![h].unmet = "none"]
  ELSE [o EXCEPT ![b].kind = "check", ![h].sink = "none"]

BegunAs(o, how, b, h, new) ==
  \A c \in Builder :
    /\ new[c].kind = IF c = b THEN "check" ELSE o[c].kind
    /\ new[c].answering = IF c = b /\ how = "not" THEN TRUE ELSE o[c].answering
    /\ new[c].answersTo = o[c].answersTo /\ new[c].pivots = o[c].pivots
    /\ new[c].sink = IF c = h THEN "none" ELSE o[c].sink
    /\ new[c].unmet = IF c = h /\ how = "not" THEN "none" ELSE o[c].unmet

\* What a run on b reads and the modes it turns on.
LEMMA BegunFields ==
  ASSUME NEW o \in [Builder -> Object], NEW how \in {"not", "check"}, NEW b \in Builder, NEW h \in Builder
  PROVE  LET new == Begun(o, how, b, h)
         IN new \in [Builder -> Object] /\ BegunAs(o, how, b, h, new)
<1> DEFINE new == Begun(o, how, b, h)
<1> DEFINE one == [o[b] EXCEPT !.kind = "check", !.answering = IF how = "not" THEN TRUE ELSE @]
           mid == [o EXCEPT ![b] = one]
           two == [mid[h] EXCEPT !.sink = "none", !.unmet = IF how = "not" THEN "none" ELSE @]
<1>1. h \in Builder /\ o[b] \in Object
  OBVIOUS
<1>2. /\ one \in Object /\ one.kind = "check"
      /\ one.answering = IF how = "not" THEN TRUE ELSE o[b].answering
      /\ one.answersTo = o[b].answersTo /\ one.pivots = o[b].pivots
      /\ one.sink = o[b].sink /\ one.unmet = o[b].unmet
  BY <1>1 DEF Object, Mode
<1>3. /\ how = "not" => one = [o[b] EXCEPT !.kind = "check", !.answering = TRUE]
      /\ how # "not" => one = [o[b] EXCEPT !.kind = "check"]
  BY <1>1 DEF Object
<1> HIDE DEF one
<1>4. mid \in [Builder -> Object] /\ \A c \in Builder : mid[c] = IF c = b THEN one ELSE o[c]
  BY <1>1, <1>2
<1>5. /\ how = "not" => two = [mid[h] EXCEPT !.sink = "none", !.unmet = "none"]
      /\ how # "not" => two = [mid[h] EXCEPT !.sink = "none"]
  <2> HIDE DEF mid
  <2>1. mid[h] \in Object
    BY <1>1, <1>4
  <2> QED
    BY <2>1 DEF Object
<1>6. new = [mid EXCEPT ![h] = two]
  <2> HIDE DEF two
  <2>1. CASE how = "not"
    <3>1. one = [o[b] EXCEPT !.kind = "check", !.answering = TRUE]
      BY <1>3, <2>1
    <3>2. two = [mid[h] EXCEPT !.sink = "none", !.unmet = "none"]
      BY <1>5, <2>1
    <3> QED
      BY <1>1, <2>1, <3>1, <3>2 DEF Begun
  <2>2. CASE how = "check"
    <3>1. one = [o[b] EXCEPT !.kind = "check"]
      BY <1>3, <2>2
    <3>2. two = [mid[h] EXCEPT !.sink = "none"]
      BY <1>5, <2>2
    <3> QED
      BY <1>1, <2>2, <3>1, <3>2 DEF Begun
  <2> QED
    BY <2>1, <2>2
<1> HIDE DEF mid, new
<1>7. mid[h] \in Object
  BY <1>1, <1>4
<1>8. /\ two \in Object /\ two.kind = mid[h].kind /\ two.answering = mid[h].answering
      /\ two.answersTo = mid[h].answersTo /\ two.pivots = mid[h].pivots
      /\ two.sink = "none" /\ two.unmet = IF how = "not" THEN "none" ELSE mid[h].unmet
  BY <1>7 DEF Object, Failure, Unmet
<1> HIDE DEF two
<1>9. new \in [Builder -> Object] /\ \A c \in Builder : new[c] = IF c = h THEN two ELSE mid[c]
  BY <1>1, <1>4, <1>6, <1>8
<1>10. ASSUME NEW c \in Builder
       PROVE  /\ new[c].kind = IF c = b THEN "check" ELSE o[c].kind
              /\ new[c].answering = IF c = b /\ how = "not" THEN TRUE ELSE o[c].answering
              /\ new[c].answersTo = o[c].answersTo /\ new[c].pivots = o[c].pivots
              /\ new[c].sink = IF c = h THEN "none" ELSE o[c].sink
              /\ new[c].unmet = IF c = h /\ how = "not" THEN "none" ELSE o[c].unmet
  <2>1. new[c].answering = mid[c].answering
    BY <1>8, <1>9
  <2>2. mid[c].answering = IF c = b /\ how = "not" THEN TRUE ELSE o[c].answering
    BY <1>2, <1>4
  <2>3. /\ new[c].kind = IF c = b THEN "check" ELSE o[c].kind
        /\ new[c].answersTo = o[c].answersTo /\ new[c].pivots = o[c].pivots
    BY <1>1, <1>2, <1>4, <1>8, <1>9
  <2>4. /\ new[c].sink = IF c = h THEN "none" ELSE o[c].sink
        /\ new[c].unmet = IF c = h /\ how = "not" THEN "none" ELSE o[c].unmet
    BY <1>1, <1>2, <1>4, <1>8, <1>9
  <2> QED
    BY <2>1, <2>2, <2>3, <2>4
<1> QED
  BY <1>9, <1>10 DEF new, BegunAs

LEMMA OneMore ==
  ASSUME NEW s \in Seq(Frame), NEW f \in Frame
  PROVE  LET t == Append(s, f)
             n == Len(s) + 1
         IN /\ t \in Seq(Frame) /\ n \in Nat \ {0} /\ DOMAIN t = 1 .. n /\ n \in DOMAIN t /\ t[n] = f
            /\ DOMAIN s = 1 .. n - 1 /\ n \notin DOMAIN s
            /\ \A i \in DOMAIN t : i \in DOMAIN s \/ i = n
            /\ \A i \in DOMAIN s : i \in DOMAIN t /\ i < n /\ t[i] = s[i]
<1> DEFINE t == Append(s, f)
           n == Len(s) + 1
<1>1. Len(s) \in Nat /\ DOMAIN s = 1 .. Len(s)
  BY LenProperties
<1>2. t \in Seq(Frame) /\ Len(t) = n /\ t[n] = f /\ \A i \in 1 .. Len(s) : t[i] = s[i]
  BY AppendProperties
<1> HIDE DEF t
<1>3. DOMAIN t = 1 .. n
  BY <1>2, LenProperties
<1>4. n \in Nat \ {0} /\ 1 .. Len(s) = 1 .. n - 1 /\ n \notin 1 .. Len(s) /\ n \in 1 .. n
  BY <1>1
<1>5. \A i \in 1 .. n : i \in 1 .. Len(s) \/ i = n
  BY <1>1
<1>6. \A i \in 1 .. Len(s) : i \in 1 .. n /\ i < n
  BY <1>1
<1> QED
  BY <1>1, <1>2, <1>3, <1>4, <1>5, <1>6 DEF t

Starts(how, b) == Begin(how, b) /\ obj' = Begun(obj, how, b, Holder(obj, b))

\* A run that starts keeps the invariant.
LEMMA BegunKeeps ==
  ASSUME Inv(obj, stack, made), NEW how \in {"not", "check"}, NEW b \in Builder, Starts(how, b)
  PROVE  Inv(obj', stack', made')
<1> DEFINE h == Holder(obj, b)
           f == [how |-> how, on |-> b, holder |-> h, kind |-> obj[b].kind,
                 answering |-> obj[b].answering, sink |-> obj[h].sink,
                 unmet |-> obj[h].unmet, first |-> "none"]
           n == Len(stack) + 1
           p == obj'
           t == stack'
<1>1. /\ obj \in [Builder -> Object] /\ stack \in Seq(Frame) /\ made \subseteq Builder
      /\ b \in made /\ t = Append(stack, f)
  BY DEF Inv, Typed, Starts, Begin
<1>2. \A c \in Builder : obj[c].answersTo # NoOne =>
        /\ c \in made /\ obj[c].answersTo \in made
        /\ obj[obj[c].answersTo].answersTo = NoOne /\ obj[c].kind = "check"
  BY DEF Inv, Linked
<1>3. /\ h \in made /\ h \in Builder /\ obj[h].answersTo = NoOne /\ h = Holder(obj, b)
      /\ (obj[b].kind # "check" => b = h)
  BY <1>1, <1>2 DEF Holder
<1>4. /\ obj[b] \in Object /\ obj[h] \in Object
  BY <1>1, <1>3
<1>5. f \in Frame
  BY <1>3, <1>4 DEF Frame, Object, Failure
<1>6. /\ f.how = how /\ f.on = b /\ f.holder = h /\ f.kind = obj[b].kind
      /\ f.answering = obj[b].answering /\ f.sink = obj[h].sink
      /\ f.unmet = obj[h].unmet /\ f.first = "none"
  OBVIOUS
<1> HIDE DEF f, h
<1>7. /\ t \in Seq(Frame) /\ n \in Nat \ {0} /\ DOMAIN t = 1 .. n /\ n \in DOMAIN t /\ t[n] = f
      /\ DOMAIN stack = 1 .. n - 1 /\ n \notin DOMAIN stack
      /\ \A i \in DOMAIN t : i \in DOMAIN stack \/ i = n
      /\ \A i \in DOMAIN stack : i \in DOMAIN t /\ i < n /\ t[i] = stack[i]
  BY <1>1, <1>5, OneMore
<1>8. /\ p \in [Builder -> Object]
      /\ \A c \in Builder :
           /\ p[c].kind = IF c = b THEN "check" ELSE obj[c].kind
           /\ p[c].answering = IF c = b /\ how = "not" THEN TRUE ELSE obj[c].answering
           /\ p[c].answersTo = obj[c].answersTo /\ p[c].pivots = obj[c].pivots
           /\ p[c].sink = IF c = h THEN "none" ELSE obj[c].sink
           /\ p[c].unmet = IF c = h /\ how = "not" THEN "none" ELSE obj[c].unmet
  <2>1. p = Begun(obj, how, b, h)
    BY DEF Starts, h
  <2>2. obj \in [Builder -> Object] /\ h \in Builder
    BY <1>1, <1>3
  <2> HIDE DEF p
  <2>3. p \in [Builder -> Object] /\ BegunAs(obj, how, b, h, p)
    BY <2>1, <2>2, BegunFields
  <2> QED
    BY <2>3 DEF BegunAs
<1> HIDE DEF n, p, t
<1>9. \A i \in DOMAIN stack :
        /\ stack[i].on \in made /\ stack[i].holder \in made
        /\ stack[i].holder = Holder(obj, stack[i].on) /\ obj[stack[i].holder].answersTo = NoOne
        /\ stack[i].kind = "check" <=> \E j \in DOMAIN stack : j < i /\ stack[j].holder = stack[i].holder
        /\ stack[i].kind # "check" =>
             stack[i].on = stack[i].holder /\ stack[i].sink = "none" /\ stack[i].unmet = "none"
  BY DEF Inv, Placed
<1>10. \A c \in Builder : Holder(p, c) = Holder(obj, c)
  BY <1>8 DEF Holder
<1>11. \A c \in Builder : RunsOf(t, c) = IF c = h THEN RunsOf(stack, c) \cup {n} ELSE RunsOf(stack, c)
  BY <1>6, <1>7 DEF RunsOf
<1>12. \A c \in made : obj[c].kind = "check" <=> RunsOf(stack, Holder(obj, c)) # {}
  BY DEF Inv, Silent
<1>13. \A c \in Builder : RunsOf(stack, c) = {} => obj[c].sink = "none" /\ obj[c].unmet = "none"
  BY DEF Inv, Clean
<1>14. Typed(p, t, made)
  BY <1>1, <1>7, <1>8 DEF Typed
<1>15. Linked(p, made)
  <2> SUFFICES ASSUME NEW c \in Builder
               PROVE  /\ p[c].pivots = {q \in Builder : p[q].answersTo = c}
                      /\ p[c].answersTo # NoOne =>
                           /\ c \in made /\ p[c].answersTo \in made
                           /\ p[p[c].answersTo].answersTo = NoOne /\ p[c].kind = "check"
    BY DEF Linked
  <2>1. obj[c].pivots = {q \in Builder : obj[q].answersTo = c}
    BY DEF Linked, Inv
  <2>2. {q \in Builder : p[q].answersTo = c} = {q \in Builder : obj[q].answersTo = c}
    BY <1>8
  <2>3. p[c].answersTo # NoOne =>
          /\ c \in made /\ p[c].answersTo \in made
          /\ p[p[c].answersTo].answersTo = NoOne /\ p[c].kind = "check"
    <3> SUFFICES ASSUME obj[c].answersTo # NoOne
                 PROVE  /\ c \in made /\ obj[c].answersTo \in made
                        /\ p[obj[c].answersTo].answersTo = NoOne /\ p[c].kind = "check"
      BY <1>8
    <3>1. /\ c \in made /\ obj[c].answersTo \in made /\ obj[c].answersTo \in Builder
          /\ obj[obj[c].answersTo].answersTo = NoOne /\ obj[c].kind = "check"
      BY <1>1, <1>2
    <3> QED
      BY <1>8, <3>1
  <2> QED
    BY <1>8, <2>1, <2>2, <2>3
<1>16. Placed(p, t, made)
  <2> SUFFICES ASSUME NEW i \in DOMAIN t
               PROVE  /\ t[i].on \in made /\ t[i].holder \in made
                      /\ t[i].holder = Holder(p, t[i].on) /\ p[t[i].holder].answersTo = NoOne
                      /\ t[i].kind = "check" <=> \E j \in DOMAIN t : j < i /\ t[j].holder = t[i].holder
                      /\ t[i].kind # "check" => t[i].on = t[i].holder /\ t[i].sink = "none" /\ t[i].unmet = "none"
    BY DEF Placed
  <2>1. CASE i \in DOMAIN stack
    <3>1. \A j \in DOMAIN t : j < i => j \in DOMAIN stack
      BY <1>7, <2>1
    <3>2. (\E j \in DOMAIN t : j < i /\ t[j].holder = t[i].holder)
            <=> \E j \in DOMAIN stack : j < i /\ stack[j].holder = stack[i].holder
      BY <1>7, <2>1, <3>1
    <3>3. t[i] = stack[i]
      BY <1>7, <2>1
    <3>4. /\ stack[i].on \in made /\ stack[i].holder \in made
          /\ stack[i].holder = Holder(obj, stack[i].on) /\ obj[stack[i].holder].answersTo = NoOne
          /\ stack[i].kind = "check" <=> \E j \in DOMAIN stack : j < i /\ stack[j].holder = stack[i].holder
          /\ stack[i].kind # "check" =>
               stack[i].on = stack[i].holder /\ stack[i].sink = "none" /\ stack[i].unmet = "none"
      BY <1>9, <2>1
    <3>5. stack[i].on \in Builder /\ stack[i].holder \in Builder
      BY <1>1, <3>4
    <3>6. stack[i].holder = Holder(p, stack[i].on) /\ p[stack[i].holder].answersTo = NoOne
      BY <1>8, <1>10, <3>4, <3>5
    <3> QED
      BY <3>2, <3>3, <3>4, <3>6
  <2>2. CASE i = n
    <3>1. (\E j \in DOMAIN t : j < i /\ t[j].holder = t[i].holder) <=> RunsOf(stack, h) # {}
      BY <1>6, <1>7, <2>2 DEF RunsOf
    <3>2. obj[b].kind = "check" <=> RunsOf(stack, h) # {}
      BY <1>1, <1>3, <1>12
    <3>3. t[i] = f /\ h = Holder(p, b) /\ p[h].answersTo = NoOne
      BY <1>3, <1>7, <1>8, <1>10, <2>2
    <3>4. obj[b].kind # "check" => b = h /\ obj[h].sink = "none" /\ obj[h].unmet = "none"
      BY <1>3, <1>13, <3>2
    <3> QED
      BY <1>1, <1>3, <1>6, <3>1, <3>2, <3>3, <3>4
  <2> QED
    BY <1>7, <2>1, <2>2
<1>17. Silent(p, t, made)
  <2> SUFFICES ASSUME NEW c \in made
               PROVE  p[c].kind = "check" <=> RunsOf(t, Holder(obj, c)) # {}
    BY <1>1, <1>10 DEF Silent
  <2>1. Holder(obj, c) \in Builder /\ c \in Builder
    BY <1>1, <1>2 DEF Holder
  <2>2. CASE Holder(obj, c) # h
    BY <1>3, <1>8, <1>11, <1>12, <2>1, <2>2
  <2>3. CASE Holder(obj, c) = h
    <3>1. RunsOf(t, h) # {}
      BY <1>3, <1>11
    <3>2. ASSUME c # b PROVE obj[c].kind = "check"
      <4>1. CASE obj[c].answersTo # NoOne
        BY <1>2, <2>1, <4>1
      <4>2. CASE obj[c].answersTo = NoOne
        <5>1. c = h /\ obj[b].answersTo # NoOne
          BY <1>3, <2>3, <3>2, <4>2 DEF Holder
        <5>2. obj[b].kind = "check" /\ RunsOf(stack, h) # {}
          BY <1>1, <1>2, <1>3, <1>12, <5>1
        <5> QED
          BY <1>12, <2>3, <5>2
      <4> QED
        BY <4>1, <4>2
    <3> QED
      BY <1>8, <2>1, <2>3, <3>1, <3>2
  <2> QED
    BY <2>2, <2>3
<1>18. Clean(p, t)
  BY <1>3, <1>8, <1>11, <1>13 DEF Clean
<1>19. Marked(p, t)
  <2>1. \A c \in Builder : p[c].answersTo = NoOne /\ p[c].answering =>
          \E i \in DOMAIN t : t[i].how = "not" /\ t[i].on = c
    <3> SUFFICES ASSUME NEW c \in Builder, p[c].answersTo = NoOne, p[c].answering
                 PROVE  \E i \in DOMAIN t : t[i].how = "not" /\ t[i].on = c
      OBVIOUS
    <3>1. CASE c = b /\ how = "not"
      BY <1>6, <1>7, <3>1
    <3>2. CASE ~ (c = b /\ how = "not")
      <4>1. \E i \in DOMAIN stack : stack[i].how = "not" /\ stack[i].on = c
        BY <1>8, <3>2 DEF Marked, Inv
      <4> QED
        BY <1>7, <4>1
    <3> QED
      BY <3>1, <3>2
  <2>2. \A i \in DOMAIN t : t[i].how = "not" /\ t[i].answering /\ p[t[i].on].answersTo = NoOne =>
          \E j \in DOMAIN t : j < i /\ t[j].how = "not" /\ t[j].on = t[i].on
    <3> SUFFICES ASSUME NEW i \in DOMAIN t, t[i].how = "not", t[i].answering, p[t[i].on].answersTo = NoOne
                 PROVE  \E j \in DOMAIN t : j < i /\ t[j].how = "not" /\ t[j].on = t[i].on
      OBVIOUS
    <3>1. CASE i = n
      <4>1. obj[b].answersTo = NoOne /\ obj[b].answering
        BY <1>6, <1>7, <1>8, <3>1
      <4>2. \E j \in DOMAIN stack : stack[j].how = "not" /\ stack[j].on = b
        BY <4>1 DEF Marked, Inv
      <4> QED
        BY <1>6, <1>7, <3>1, <4>2
    <3>2. CASE i \in DOMAIN stack
      <4>1. t[i] = stack[i] /\ stack[i].on \in Builder
        BY <1>1, <1>7, <1>9, <3>2
      <4>2. stack[i].how = "not" /\ stack[i].answering /\ obj[stack[i].on].answersTo = NoOne
        <5>1. stack[i].how = "not" /\ stack[i].answering
          BY <4>1
        <5>2. p[stack[i].on].answersTo = NoOne
          BY <4>1
        <5> QED
          BY <1>8, <4>1, <5>1, <5>2
      <4>3. \E j \in DOMAIN stack : j < i /\ stack[j].how = "not" /\ stack[j].on = stack[i].on
        BY <3>2, <4>2 DEF Marked, Inv
      <4> QED
        BY <1>7, <4>1, <4>3
    <3> QED
      BY <1>7, <3>1, <3>2
  <2> QED
    BY <2>1, <2>2 DEF Marked
\* The new run is the innermost of its holder, and inside the one that was.
<1>20. Innermost(t, n) /\ \A j \in DOMAIN t : ~ Within(t, n, j)
  BY <1>7 DEF Innermost, Within
<1>21. ASSUME NEW i \in DOMAIN stack
       PROVE  /\ Innermost(t, i) => stack[i].holder # h /\ Innermost(stack, i)
              /\ Within(t, i, n) => stack[i].holder = h /\ Innermost(stack, i)
              /\ \A j \in DOMAIN stack : Within(t, i, j) => Within(stack, i, j)
  <2>1. /\ t[i] = stack[i] /\ i \in DOMAIN t /\ i < n
        /\ \A j \in DOMAIN stack : t[j] = stack[j] /\ j \in DOMAIN t /\ ~ (n <= j)
    BY <1>7
  <2>2. Innermost(t, i) => stack[i].holder # h /\ Innermost(stack, i)
    BY <1>6, <1>7, <2>1 DEF Innermost
  <2>3. Within(t, i, n) => stack[i].holder = h /\ Innermost(stack, i)
    BY <1>6, <1>7, <2>1 DEF Innermost, Within
  <2>4. \A j \in DOMAIN stack : Within(t, i, j) => Within(stack, i, j)
    BY <2>1 DEF Within
  <2> QED
    BY <2>2, <2>3, <2>4
<1>22. SinkKept(p, t)
  <2> SUFFICES ASSUME NEW i \in DOMAIN t
               PROVE  /\ Innermost(t, i) => p[t[i].holder].sink = t[i].first
                      /\ \A j \in DOMAIN t : Within(t, i, j) => t[j].sink = t[i].first
    BY DEF SinkKept
  <2>1. CASE i = n
    BY <1>3, <1>6, <1>7, <1>8, <1>20, <2>1
  <2>2. CASE i \in DOMAIN stack
    <3>1. /\ Innermost(stack, i) => obj[stack[i].holder].sink = stack[i].first
          /\ \A j \in DOMAIN stack : Within(stack, i, j) => stack[j].sink = stack[i].first
      BY <2>2 DEF SinkKept, Inv
    <3>2. t[i] = stack[i] /\ stack[i].holder \in Builder
      BY <1>1, <1>7, <1>9, <2>2
    <3>3. \A j \in DOMAIN t : Within(t, i, j) => t[j].sink = t[i].first
      BY <1>6, <1>7, <1>21, <2>2, <3>1, <3>2
    <3> QED
      BY <1>8, <1>21, <2>2, <3>1, <3>2, <3>3
  <2> QED
    BY <1>7, <2>1, <2>2
<1>23. UnmetKept(p, t)
  <2> SUFFICES ASSUME NEW i \in DOMAIN t, t[i].how = "not"
               PROVE  /\ Innermost(t, i) => (p[t[i].holder].unmet = "missing" <=> t[i].first = "missing")
                      /\ \A j \in DOMAIN t : Within(t, i, j) => (t[j].unmet = "missing" <=> t[i].first = "missing")
    BY DEF UnmetKept
  <2>1. CASE i = n
    BY <1>3, <1>6, <1>7, <1>8, <1>20, <2>1
  <2>2. CASE i \in DOMAIN stack
    <3>2. t[i] = stack[i] /\ stack[i].holder \in Builder
      BY <1>1, <1>7, <1>9, <2>2
    <3>1. /\ Innermost(stack, i) => (obj[stack[i].holder].unmet = "missing" <=> stack[i].first = "missing")
          /\ \A j \in DOMAIN stack : Within(stack, i, j) => (stack[j].unmet = "missing" <=> stack[i].first = "missing")
      BY <2>2, <3>2 DEF UnmetKept, Inv
    <3>3. \A j \in DOMAIN t : Within(t, i, j) => (t[j].unmet = "missing" <=> t[i].first = "missing")
      BY <1>6, <1>7, <1>21, <2>2, <3>1, <3>2
    <3>4. Innermost(t, i) => (p[t[i].holder].unmet = "missing" <=> t[i].first = "missing")
      BY <1>8, <1>21, <2>2, <3>1, <3>2
    <3> QED
      BY <3>3, <3>4
  <2> QED
    BY <1>7, <2>1, <2>2
<1>24. made' = made
  BY DEF Starts, Begin
<1> QED
  BY <1>14, <1>15, <1>16, <1>17, <1>18, <1>19, <1>22, <1>23, <1>24 DEF Inv, p, t

-----------------------------------------------------------------------------
(* A pivot *)

\* b pivots to the new builder q: in a run q answers to b's holder, and outside one to nobody.
PivotedAs(o, b, q, new) ==
  \A c \in Builder :
    IF c = q
    THEN /\ new[c].kind = o[b].kind /\ new[c].sink = "none" /\ new[c].unmet = "none" /\ new[c].pivots = {}
         /\ o[b].kind = "check" => new[c].answersTo = Holder(o, b)
         /\ o[b].kind # "check" => new[c].answersTo = NoOne /\ new[c].answering = FALSE
    ELSE /\ new[c].kind = o[c].kind /\ new[c].answering = o[c].answering /\ new[c].answersTo = o[c].answersTo
         /\ new[c].sink = o[c].sink /\ new[c].unmet = o[c].unmet
         /\ new[c].pivots = IF o[b].kind = "check" /\ c = Holder(o, b) THEN o[c].pivots \cup {q} ELSE o[c].pivots

LEMMA PivotFields ==
  ASSUME obj \in [Builder -> Object], NEW b \in Builder, NEW q \in Builder, Pivot(b, q),
         Holder(obj, b) \in Builder, Holder(obj, b) # q
  PROVE  obj' \in [Builder -> Object] /\ PivotedAs(obj, b, q, obj')
<1> DEFINE h == Holder(obj, b)
           new == NewBuilder(obj[b].kind)
<1>1. h \in Builder /\ h # q /\ obj[b] \in Object /\ obj[h] \in Object
  OBVIOUS
<1>2. /\ new \in Object /\ new.kind = obj[b].kind /\ new.answering = FALSE /\ new.sink = "none"
      /\ new.unmet = "none" /\ new.answersTo = NoOne /\ new.pivots = {}
  BY <1>1 DEF NewBuilder, Object, Failure, Unmet
<1>3. CASE obj[b].kind = "check"
  <2> DEFINE one == [new EXCEPT !.answersTo = h, !.answering = obj[b].answering]
             two == [obj[h] EXCEPT !.pivots = @ \cup {q}]
  <2>1. /\ one \in Object /\ one.kind = obj[b].kind /\ one.sink = "none"
        /\ one.unmet = "none" /\ one.answersTo = h /\ one.pivots = {}
    <3> HIDE DEF new, h
    <3> QED
      BY <1>1, <1>2 DEF Object
  <2>2. /\ two \in Object /\ two.kind = obj[h].kind /\ two.answering = obj[h].answering
        /\ two.sink = obj[h].sink /\ two.unmet = obj[h].unmet
        /\ two.answersTo = obj[h].answersTo /\ two.pivots = obj[h].pivots \cup {q}
    <3> HIDE DEF new, h
    <3> QED
      BY <1>1 DEF Object
  <2>3. obj' = [obj EXCEPT ![q] = one, ![h] = two]
    BY <1>1, <1>3 DEF Pivot
  <2> HIDE DEF one, two, new, h
  <2>4. obj' \in [Builder -> Object]
        /\ \A c \in Builder : obj'[c] = IF c = h THEN two ELSE IF c = q THEN one ELSE obj[c]
    BY <1>1, <2>1, <2>2, <2>3
  <2> QED
    BY <1>1, <1>3, <2>1, <2>2, <2>4 DEF PivotedAs, h
<1>4. CASE obj[b].kind # "check"
  <2>1. obj' = [obj EXCEPT ![q] = new]
    BY <1>4 DEF Pivot
  <2> HIDE DEF new
  <2>2. obj' \in [Builder -> Object] /\ \A c \in Builder : obj'[c] = IF c = q THEN new ELSE obj[c]
    BY <1>2, <2>1
  <2> QED
    BY <1>1, <1>2, <1>4, <2>2 DEF PivotedAs
<1> QED
  BY <1>3, <1>4

\* A pivot keeps the invariant.
LEMMA PivotKeeps ==
  ASSUME Inv(obj, stack, made), NEW b \in Builder, NEW q \in Builder, Pivot(b, q)
  PROVE  Inv(obj', stack, made') /\ stack' = stack
<1> DEFINE h == Holder(obj, b)
           p == obj'
           m == made'
<1>1. /\ obj \in [Builder -> Object] /\ stack \in Seq(Frame) /\ made \subseteq Builder
      /\ b \in made /\ q \notin made /\ m = made \cup {q}
  BY DEF Inv, Typed, Pivot
<1>2. \A c \in Builder :
        /\ obj[c].pivots = {r \in Builder : obj[r].answersTo = c}
        /\ obj[c].answersTo # NoOne =>
             /\ c \in made /\ obj[c].answersTo \in made
             /\ obj[obj[c].answersTo].answersTo = NoOne /\ obj[c].kind = "check"
  BY DEF Inv, Linked
<1>3. h \in made /\ h \in Builder /\ h # q /\ obj[h].answersTo = NoOne /\ h # NoOne
  BY <1>1, <1>2, VerdictConstants DEF Holder
<1>4. p \in [Builder -> Object] /\ PivotedAs(obj, b, q, p)
  BY <1>1, <1>3, PivotFields
<1>5. \A c \in Builder :
        IF c = q
        THEN /\ p[c].kind = obj[b].kind /\ p[c].sink = "none" /\ p[c].unmet = "none" /\ p[c].pivots = {}
             /\ obj[b].kind = "check" => p[c].answersTo = h
             /\ obj[b].kind # "check" => p[c].answersTo = NoOne /\ p[c].answering = FALSE
        ELSE /\ p[c].kind = obj[c].kind /\ p[c].answering = obj[c].answering /\ p[c].answersTo = obj[c].answersTo
             /\ p[c].sink = obj[c].sink /\ p[c].unmet = obj[c].unmet
             /\ p[c].pivots = IF obj[b].kind = "check" /\ c = h THEN obj[c].pivots \cup {q} ELSE obj[c].pivots
  BY <1>4 DEF PivotedAs
<1>6. obj[b].kind = "check" <=> RunsOf(stack, h) # {}
  BY <1>1 DEF Inv, Silent
<1>7. \A i \in DOMAIN stack :
        /\ stack[i].on \in made /\ stack[i].holder \in made
        /\ stack[i].holder = Holder(obj, stack[i].on) /\ obj[stack[i].holder].answersTo = NoOne
        /\ stack[i].kind = "check" <=> \E j \in DOMAIN stack : j < i /\ stack[j].holder = stack[i].holder
        /\ stack[i].kind # "check" =>
             stack[i].on = stack[i].holder /\ stack[i].sink = "none" /\ stack[i].unmet = "none"
  BY DEF Inv, Placed
<1>8. \A i \in DOMAIN stack :
        /\ stack[i].on \in Builder /\ stack[i].on # q
        /\ stack[i].holder \in Builder /\ stack[i].holder # q
  BY <1>1, <1>7
<1>9. /\ obj[q].answersTo = NoOne /\ \A c \in Builder : obj[c].answersTo # q
      /\ obj[q].pivots = {} /\ RunsOf(stack, q) = {}
  <2>1. obj[q].answersTo = NoOne /\ \A c \in Builder : obj[c].answersTo # q
    BY <1>1, <1>2, VerdictConstants
  <2> QED
    BY <1>2, <1>8, <2>1 DEF RunsOf
<1> HIDE DEF h, p, m
<1>10. \A c \in Builder : c # q => Holder(p, c) = Holder(obj, c) /\ Holder(obj, c) \in Builder /\ Holder(obj, c) # q
  BY <1>1, <1>2, <1>5, <1>9 DEF Holder
<1>11. Typed(p, stack, m)
  BY <1>1, <1>4 DEF Typed
<1>12. Linked(p, m)
  <2> SUFFICES ASSUME NEW c \in Builder
               PROVE  /\ p[c].pivots = {r \in Builder : p[r].answersTo = c}
                      /\ p[c].answersTo # NoOne =>
                           /\ c \in m /\ p[c].answersTo \in m
                           /\ p[p[c].answersTo].answersTo = NoOne /\ p[c].kind = "check"
    BY DEF Linked
  <2>1. p[c].answersTo # NoOne =>
          /\ c \in m /\ p[c].answersTo \in m
          /\ p[p[c].answersTo].answersTo = NoOne /\ p[c].kind = "check"
    <3>1. CASE c = q
      BY <1>1, <1>3, <1>5, <3>1
    <3>2. CASE c # q
      <4> SUFFICES ASSUME obj[c].answersTo # NoOne
                   PROVE  /\ c \in m /\ obj[c].answersTo \in m
                          /\ p[obj[c].answersTo].answersTo = NoOne /\ p[c].kind = "check"
        BY <1>5, <3>2
      <4>1. /\ c \in made /\ obj[c].answersTo \in made /\ obj[c].answersTo \in Builder /\ obj[c].answersTo # q
            /\ obj[obj[c].answersTo].answersTo = NoOne /\ obj[c].kind = "check"
        BY <1>1, <1>2
      <4> QED
        BY <1>1, <1>5, <3>2, <4>1
    <3> QED
      BY <3>1, <3>2
  <2>2. p[c].pivots = {r \in Builder : p[r].answersTo = c}
    <3>1. CASE obj[b].kind # "check"
      <4>1. \A r \in Builder : p[r].answersTo = obj[r].answersTo
        BY <1>5, <1>9, <3>1
      <4>2. p[c].pivots = obj[c].pivots
        BY <1>5, <1>9, <3>1
      <4> QED
        BY <1>2, <4>1, <4>2
    <3>2. CASE obj[b].kind = "check" /\ c = h
      <4>1. \A r \in Builder : p[r].answersTo = h <=> (r = q \/ obj[r].answersTo = h)
        BY <1>3, <1>5, <1>9, <3>2
      <4>2. p[c].pivots = obj[h].pivots \cup {q}
        BY <1>3, <1>5, <3>2
      <4> QED
        BY <1>2, <1>3, <3>2, <4>1, <4>2
    <3>3. CASE obj[b].kind = "check" /\ c # h
      <4>1. \A r \in Builder : p[r].answersTo = c <=> obj[r].answersTo = c
        BY <1>3, <1>5, <1>9, <3>3, VerdictConstants
      <4>2. p[c].pivots = obj[c].pivots
        BY <1>5, <1>9, <3>3
      <4> QED
        BY <1>2, <4>1, <4>2
    <3> QED
      BY <3>1, <3>2, <3>3
  <2> QED
    BY <2>1, <2>2
<1>13. Placed(p, stack, m)
  <2> SUFFICES ASSUME NEW i \in DOMAIN stack
               PROVE  stack[i].holder = Holder(p, stack[i].on) /\ p[stack[i].holder].answersTo = NoOne
    BY <1>1, <1>7 DEF Placed
  <2>1. stack[i].on \in Builder /\ stack[i].on # q /\ stack[i].holder \in Builder /\ stack[i].holder # q
    BY <1>8
  <2>2. stack[i].holder = Holder(obj, stack[i].on) /\ obj[stack[i].holder].answersTo = NoOne
    BY <1>7
  <2>3. Holder(p, stack[i].on) = Holder(obj, stack[i].on)
    BY <1>10, <2>1
  <2>4. p[stack[i].holder].answersTo = obj[stack[i].holder].answersTo
    BY <1>5, <2>1
  <2> QED
    BY <2>2, <2>3, <2>4
<1>14. Silent(p, stack, m)
  <2> SUFFICES ASSUME NEW c \in m
               PROVE  p[c].kind = "check" <=> RunsOf(stack, Holder(p, c)) # {}
    BY DEF Silent
  <2>1. CASE c = q /\ obj[b].kind = "check"
    <3>1. Holder(p, c) = h
      BY <1>3, <1>5, <2>1 DEF Holder
    <3> QED
      BY <1>5, <1>6, <2>1, <3>1
  <2>2. CASE c = q /\ obj[b].kind # "check"
    <3>1. Holder(p, c) = q
      BY <1>5, <2>2 DEF Holder
    <3> QED
      BY <1>5, <1>9, <2>2, <3>1
  <2>3. CASE c # q
    <3>1. c \in made /\ c \in Builder
      BY <1>1, <2>3
    <3>2. obj[c].kind = "check" <=> RunsOf(stack, Holder(obj, c)) # {}
      BY <3>1 DEF Silent, Inv
    <3> QED
      BY <1>5, <1>10, <2>3, <3>1, <3>2
  <2> QED
    BY <2>1, <2>2, <2>3
<1>15. Clean(p, stack)
  BY <1>5 DEF Clean, Inv
<1>16. Marked(p, stack)
  <2>1. \A c \in Builder : p[c].answersTo = NoOne /\ p[c].answering =>
          \E i \in DOMAIN stack : stack[i].how = "not" /\ stack[i].on = c
    <3> SUFFICES ASSUME NEW c \in Builder, p[c].answersTo = NoOne, p[c].answering
                 PROVE  \E i \in DOMAIN stack : stack[i].how = "not" /\ stack[i].on = c
      OBVIOUS
    <3>1. c # q
      BY <1>3, <1>5
    <3>2. obj[c].answersTo = NoOne /\ obj[c].answering
      BY <1>5, <3>1
    <3> QED
      BY <3>2 DEF Marked, Inv
  <2>2. \A i \in DOMAIN stack : stack[i].how = "not" /\ stack[i].answering /\ p[stack[i].on].answersTo = NoOne =>
          \E j \in DOMAIN stack : j < i /\ stack[j].how = "not" /\ stack[j].on = stack[i].on
    <3> TAKE i \in DOMAIN stack
    <3>1. p[stack[i].on].answersTo = obj[stack[i].on].answersTo
      BY <1>5, <1>8
    <3> QED
      BY <3>1 DEF Marked, Inv
  <2> QED
    BY <2>1, <2>2 DEF Marked
<1>17. \A i \in DOMAIN stack :
         p[stack[i].holder].sink = obj[stack[i].holder].sink /\ p[stack[i].holder].unmet = obj[stack[i].holder].unmet
  BY <1>5, <1>8
<1>18. SinkKept(p, stack)
  BY <1>17 DEF SinkKept, Inv
<1>19. UnmetKept(p, stack)
  BY <1>17 DEF UnmetKept, Inv
<1> QED
  BY <1>11, <1>12, <1>13, <1>14, <1>15, <1>16, <1>18, <1>19 DEF Inv, Pivot, p, m

-----------------------------------------------------------------------------
(* Every step *)

LEMMA InitInv == Init => IInv
<1> SUFFICES ASSUME Init PROVE IInv
  OBVIOUS
<1>1. PICK k \in RootKind : obj = [b \in Builder |-> NewBuilder(k)]
  BY DEF Init
<1>2. k \in Kind /\ Root \in Builder /\ NoOne \notin Builder
  BY VerdictConstants
<1>3. \A b \in Builder :
        /\ obj[b] \in Object /\ obj[b].kind = k /\ obj[b].kind # "check" /\ obj[b].answering = FALSE
        /\ obj[b].sink = "none" /\ obj[b].unmet = "none" /\ obj[b].answersTo = NoOne /\ obj[b].pivots = {}
  BY <1>1, <1>2 DEF NewBuilder, Object, Mode, Kind, Failure, Unmet
<1>4. made = {Root} /\ stack = <<>> /\ DOMAIN stack = {} /\ stack \in Seq(Frame)
  BY DEF Init
<1>5. \A h : RunsOf(stack, h) = {}
  BY <1>4 DEF RunsOf
<1>6. obj \in [Builder -> Object]
  BY <1>1, <1>3
<1>7. Typed(obj, stack, made)
  BY <1>2, <1>4, <1>6 DEF Typed
<1>8. Linked(obj, made)
  BY <1>2, <1>3 DEF Linked
<1>9. Placed(obj, stack, made) /\ SinkKept(obj, stack) /\ UnmetKept(obj, stack)
  BY <1>4 DEF Placed, SinkKept, UnmetKept
<1>10. Silent(obj, stack, made) /\ Clean(obj, stack) /\ Marked(obj, stack)
  BY <1>2, <1>3, <1>4, <1>5 DEF Silent, Clean, Marked
<1> QED
  BY <1>7, <1>8, <1>9, <1>10 DEF IInv, Inv, Init

\* What the code leaves in the builders when an assertion on b fails, or lacks a prerequisite.
LEMMA FailsFails ==
  ASSUME NEW b \in Builder, Fails(b)
  PROVE  obj' = Failed(obj, b, "plain") /\ stack' = Heard(stack, obj, b, "plain")
BY DEF Fails, Delivered, Failed, Noted

LEMMA LacksFails ==
  ASSUME Inv(obj, stack, made), NEW b \in Builder, Lacks(b)
  PROVE  obj' = Failed(obj, b, "missing") /\ stack' = Heard(stack, obj, b, "missing")
<1> DEFINE h == Holder(obj, b)
           done == Delivered(obj, b, "missing")
<1>1. b \in made /\ obj \in [Builder -> Object] /\ stack' = Heard(stack, obj, b, "missing")
  BY DEF Lacks, Inv, Typed
<1>2. h \in Builder /\ obj[h] \in Object
  BY <1>1 DEF Inv, Linked, Typed, Holder
<1>3. obj' = IF obj[h].sink = "none" /\ Spoken(obj, b) # "raised"
             THEN [done EXCEPT ![h].unmet = IF done[h].sink = "none" THEN "none" ELSE "missing"]
             ELSE done
  BY DEF Lacks
<1>4. CASE obj[b].kind = "check" /\ obj[h].sink = "none"
  <2>1. Spoken(obj, b) # "raised"
    BY <1>4 DEF Spoken
  <2>2. done = [obj EXCEPT ![h].sink = "missing"] /\ done[h].sink = "missing"
    BY <1>2, <1>1, <1>4 DEF Delivered, Object
  <2>3. obj' = [done EXCEPT ![h].unmet = "missing"]
    BY <1>3, <1>4, <2>1, <2>2
  <2>4. Failed(obj, b, "missing") = [obj EXCEPT ![h].sink = "missing", ![h].unmet = "missing"]
    BY <1>4 DEF Failed, Noted
  <2> QED
    BY <1>1, <1>2, <2>2, <2>3, <2>4
<1>5. CASE obj[b].kind = "check" /\ obj[h].sink # "none"
  BY <1>1, <1>3, <1>5 DEF Delivered, Failed, Noted
<1>6. CASE obj[b].kind # "check"
  <2>1. h = b
    BY <1>6 DEF Inv, Linked, Holder
  <2>2. RunsOf(stack, b) = {} /\ obj[b].sink = "none" /\ obj[b].unmet = "none"
    BY <1>1, <1>6, <2>1 DEF Inv, Silent, Clean
  <2>3. done = obj /\ Failed(obj, b, "missing") = obj
    BY <1>6 DEF Delivered, Failed, Noted
  <2>4. [obj EXCEPT ![b].unmet = "none"] = obj
    <3>1. [obj[b] EXCEPT !.unmet = "none"] = obj[b]
      BY <1>2, <2>1, <2>2 DEF Object
    <3> QED
      BY <1>1, <3>1
  <2> QED
    BY <1>1, <1>3, <2>1, <2>2, <2>3, <2>4
<1> QED
  BY <1>4, <1>5, <1>6

\* The builder a run was on is back in the mode the run found it in.
LEMMA RestoredRun ==
  ASSUME Inv(obj, stack, made), stack # <<>>
  PROVE  LET back == Restored(Top)
         IN /\ Inv(back, Outer, made) /\ back \in [Builder -> Object]
            /\ Top \in Frame /\ Top.on \in made /\ Top.holder \in Builder
            /\ Holder(back, Top.on) = Top.holder
            /\ back[Top.on].kind = Top.kind /\ back[Top.holder].sink = Top.sink
<1> DEFINE back == Restored(Top)
<1>1. /\ Top.on \in made /\ Top.holder \in made /\ Top.holder = Holder(obj, Top.on)
      /\ obj[Top.on].kind = "check" /\ obj[Top.holder].answersTo = NoOne
      /\ Top.kind # "check" => /\ Top.on = Top.holder /\ Top.sink = "none" /\ Top.unmet = "none"
                               /\ Top.on \notin obj[Top.on].pivots
  BY EndingRun
<1>2. obj \in [Builder -> Object] /\ stack \in Seq(Frame) /\ Top \in Frame /\ made \subseteq Builder
  BY OuterFrames DEF Inv, Typed
<1>3. Inv(back, Outer, made)
  BY EndedInner, EndedOuter
<1>4. Top.on \in Builder /\ Top.holder \in Builder
  BY <1>1, <1>2
<1>5. CASE Top.kind = "check"
  <2>1. /\ back[Top.on].kind = obj[Top.on].kind /\ back[Top.on].answersTo = obj[Top.on].answersTo
        /\ back[Top.holder].sink = Top.sink
    BY <1>1, <1>2, <1>4, <1>5, RestoredInner
  <2> QED
    BY <1>1, <1>2, <1>3, <1>4, <1>5, <2>1 DEF Inv, Typed, Holder
<1>6. CASE Top.kind # "check"
  <2>1. /\ back[Top.on].kind = Top.kind /\ back[Top.on].answersTo = obj[Top.on].answersTo
        /\ back[Top.on].sink = Top.sink
    BY <1>1, <1>2, <1>4, <1>6, RestoredOuter
  <2> QED
    BY <1>1, <1>2, <1>3, <1>4, <1>6, <2>1 DEF Inv, Typed, Holder
<1> QED
  BY <1>5, <1>6

\* A negation that ends inverts its first failure and passes on a prerequisite it lacked.
EndsAs(first, what) ==
  /\ Top.first = first
  /\ obj' = Failed(Restored(Top), Top.on, what)
  /\ stack' = Heard(Outer, Restored(Top), Top.on, what)
  /\ said' = Spoken(Restored(Top), Top.on)

LEMMA EndNotSteps ==
  ASSUME Inv(obj, stack, made), EndNot
  PROVE  \/ Top.first = "plain" /\ obj' = Restored(Top) /\ stack' = Outer /\ said' = "nothing"
         \/ EndsAs("missing", "missing")
         \/ EndsAs("none", "plain")
<1> DEFINE f == Top
           back == Restored(Top)
           passing == IF f.kind = "check" /\ f.sink = "none"
                      THEN [back EXCEPT ![f.holder].unmet = "missing"] ELSE back
<1>1. stack # <<>> /\ f.how = "not"
  BY DEF EndNot
<1>2. /\ back \in [Builder -> Object] /\ f \in Frame /\ f.holder \in Builder
      /\ Holder(back, f.on) = f.holder /\ back[f.on].kind = f.kind /\ back[f.holder].sink = f.sink
  BY <1>1, RestoredRun
<1>3. Len(stack) \in DOMAIN stack /\ f = stack[Len(stack)] /\ Innermost(stack, Len(stack))
  <2>1. /\ Len(stack) \in Nat \ {0} /\ DOMAIN stack = 1 .. Len(stack) /\ Len(stack) \in DOMAIN stack
        /\ Top = stack[Len(stack)]
    BY <1>1, OuterFrames DEF Inv, Typed
  <2> QED
    BY <2>1 DEF Innermost
<1>4. obj[f.holder].sink = f.first /\ (obj[f.holder].unmet = "missing" <=> f.first = "missing")
  BY <1>1, <1>3 DEF Inv, SinkKept, UnmetKept
<1>5. obj[f.holder].unmet \in {"none", "missing"} /\ f.first \in {"none", "plain", "missing"}
  BY <1>2 DEF Inv, Typed, Object, Frame, Unmet, Failure
\* The three ways it ends.
<1>6. \/ /\ obj[f.holder].unmet # "none"
         /\ obj' = Delivered(passing, f.on, "missing")
         /\ stack' = Heard(Outer, back, f.on, "missing")
         /\ said' = Spoken(back, f.on)
      \/ /\ obj[f.holder].unmet = "none" /\ obj[f.holder].sink # "none"
         /\ obj' = back /\ stack' = Outer /\ said' = "nothing"
      \/ /\ obj[f.holder].unmet = "none" /\ obj[f.holder].sink = "none"
         /\ obj' = Delivered(back, f.on, "plain")
         /\ stack' = Heard(Outer, back, f.on, "plain")
         /\ said' = Spoken(back, f.on)
  BY DEF EndNot, Speak
<1> HIDE DEF f, back
<1>7. Delivered(back, f.on, "plain") = Failed(back, f.on, "plain")
  BY <1>2 DEF Delivered, Failed, Noted
<1>8. Delivered(passing, f.on, "missing") = Failed(back, f.on, "missing")
  <2>1. CASE f.kind = "check" /\ f.sink = "none"
    <3> DEFINE mid == [back EXCEPT ![f.holder].unmet = "missing"]
    <3>1. passing = mid
      BY <2>1
    <3>2. /\ mid[f.on].kind = "check" /\ mid[f.on].answersTo = back[f.on].answersTo
          /\ mid[f.holder].sink = "none"
      <4>1. f.on \in Builder /\ back[f.on] \in Object /\ back[f.holder] \in Object
        BY <1>2 DEF Frame
      <4>2. mid[f.holder] = [back[f.holder] EXCEPT !.unmet = "missing"]
        BY <1>2
      <4>3. mid[f.on] = IF f.on = f.holder THEN [back[f.holder] EXCEPT !.unmet = "missing"] ELSE back[f.on]
        BY <1>2, <4>1
      <4> HIDE DEF mid
      <4> QED
        BY <1>2, <2>1, <4>1, <4>2, <4>3 DEF Object
    <3>3. Holder(mid, f.on) = f.holder
      BY <1>2, <3>2 DEF Holder
    <3>4. Delivered(mid, f.on, "missing") = [mid EXCEPT ![f.holder].sink = "missing"]
      BY <3>2, <3>3 DEF Delivered
    <3>5. Failed(back, f.on, "missing") = [back EXCEPT ![f.holder].sink = "missing", ![f.holder].unmet = "missing"]
      BY <1>2, <2>1 DEF Failed, Noted
    <3>6. [mid EXCEPT ![f.holder].sink = "missing"]
            = [back EXCEPT ![f.holder].sink = "missing", ![f.holder].unmet = "missing"]
      <4>1. [[back[f.holder] EXCEPT !.unmet = "missing"] EXCEPT !.sink = "missing"]
              = [[back[f.holder] EXCEPT !.sink = "missing"] EXCEPT !.unmet = "missing"]
        BY <1>2 DEF Object
      <4> QED
        BY <1>2, <4>1
    <3> QED
      BY <3>1, <3>4, <3>5, <3>6
  <2>2. CASE ~ (f.kind = "check" /\ f.sink = "none")
    BY <1>2, <2>2 DEF Delivered, Failed, Noted
  <2> QED
    BY <2>1, <2>2
<1> QED
  BY <1>4, <1>5, <1>6, <1>7, <1>8 DEF EndsAs, f, back

\* Every step keeps the invariant.
LEMMA NextInv == IInv /\ [Next]_vars => IInv'
<1> SUFFICES ASSUME IInv, [Next]_vars PROVE IInv'
  OBVIOUS
<1>1. Inv(obj, stack, made) /\ made \subseteq Builder
  BY DEF IInv, Inv, Typed
<1>2. \A o, b : Spoken(o, b) \in {"nothing", "warned", "collected", "raised"}
  BY DEF Spoken
<1>3. flying' \in BOOLEAN /\ listening' \in BOOLEAN /\ said' \in {"nothing", "warned", "collected", "raised"}
  BY <1>2 DEF IInv, Next, vars, Fails, Lacks, Pivot, Begin, BeginNot, BeginCheck, EndCheck, EndNot, Unwind,
              Throw, Catch, BlockCloses, Speak
<1>4. Inv(obj', stack', made')
  <2>1. CASE \E b \in Builder : Fails(b) \/ Lacks(b)
    <3>1. PICK b \in Builder : Fails(b) \/ Lacks(b)
      BY <2>1
    <3>2. b \in made /\ made' = made
      BY <3>1 DEF Fails, Lacks
    <3>3. PICK what \in {"plain", "missing"} :
            obj' = Failed(obj, b, what) /\ stack' = Heard(stack, obj, b, what)
      BY <1>1, <3>1, FailsFails, LacksFails
    <3> QED
      BY <1>1, <3>2, <3>3, FailedKeeps
  <2>2. CASE \E b \in Builder : BeginNot(b) \/ BeginCheck(b)
    <3>1. PICK b \in Builder, how \in {"not", "check"} : Starts(how, b)
      BY <2>2 DEF BeginNot, BeginCheck, Starts, Begun
    <3> QED
      BY <1>1, <3>1, BegunKeeps
  <2>3. CASE \E b, q \in Builder : Pivot(b, q)
    <3>1. PICK b \in Builder, q \in Builder : Pivot(b, q)
      BY <2>3
    <3> QED
      BY <1>1, <3>1, PivotKeeps
  <2>4. CASE EndCheck \/ Unwind
    <3>1. stack # <<>> /\ obj' = Restored(Top) /\ stack' = Outer /\ made' = made
      BY <2>4 DEF EndCheck, Unwind
    <3> QED
      BY <1>1, <3>1, RestoredRun
  <2>5. CASE EndNot
    <3>1. stack # <<>> /\ made' = made
      BY <2>5 DEF EndNot
    <3>2. Inv(Restored(Top), Outer, made) /\ Top.on \in made
      BY <1>1, <3>1, RestoredRun
    <3>3. CASE obj' = Restored(Top) /\ stack' = Outer
      BY <3>1, <3>2, <3>3
    <3>4. CASE \E what \in {"plain", "missing"} :
                 /\ obj' = Failed(Restored(Top), Top.on, what)
                 /\ stack' = Heard(Outer, Restored(Top), Top.on, what)
      BY <3>1, <3>2, <3>4, FailedKeeps
    <3> QED
      BY <1>1, <2>5, <3>3, <3>4, EndNotSteps DEF EndsAs
  <2>6. CASE Throw \/ Catch \/ BlockCloses \/ UNCHANGED vars
    <3>1. obj' = obj /\ stack' = stack /\ made' = made
      BY <2>6 DEF Throw, Catch, BlockCloses, vars
    <3> QED
      BY <1>1, <3>1
  <2> QED
    BY <2>1, <2>2, <2>3, <2>4, <2>5, <2>6 DEF Next
<1> QED
  BY <1>3, <1>4 DEF IInv

\* In whatever order negations, checks, pivots, exceptions and failures come, a run that is over has put back
\* what it found, and the run around it has what it had.
THEOREM VerdictsHold == Spec => []IInv
BY InitInv, NextInv, PTL DEF Spec

-----------------------------------------------------------------------------
(* The mode of the builders *)

\* A builder is in the mode the first was made in, or in check mode, and so is what a run will put back.
Heeds(o, s) ==
  /\ \A b \in Builder : o[b].kind \in {"check", mode}
  /\ \A i \in DOMAIN s : s[i].kind \in {"check", mode}

LEMMA FailedHeeds ==
  ASSUME NEW o, NEW s, NEW m, Inv(o, s, m), Heeds(o, s), NEW b \in m, NEW what \in {"plain", "missing"}
  PROVE  Heeds(Failed(o, b, what), Heard(s, o, b, what))
<1> DEFINE oo == Failed(o, b, what)
           ss == Heard(s, o, b, what)
<1>1. o \in [Builder -> Object] /\ s \in Seq(Frame) /\ b \in Builder /\ Holder(o, b) \in Builder
  BY DEF Inv, Typed, Linked, Holder
<1>2. \A c \in Builder : oo[c].kind = o[c].kind
  BY <1>1, FailedFields
<1>3. DOMAIN ss = DOMAIN s /\ \A i \in DOMAIN s : ss[i].kind = s[i].kind
  BY <1>1, HeardFrames
<1> HIDE DEF oo, ss
<1>4. Heeds(oo, ss)
  BY <1>2, <1>3 DEF Heeds
<1> QED
  BY <1>4 DEF oo, ss

\* A run puts back the mode it found, and gives that to its pivots.
LEMMA EndedHeeds ==
  ASSUME Inv(obj, stack, made), Heeds(obj, stack), stack # <<>>
  PROVE  Heeds(Restored(Top), Outer)
<1> DEFINE back == Restored(Top)
<1>1. /\ obj \in [Builder -> Object] /\ stack \in Seq(Frame) /\ Top \in Frame
      /\ Len(stack) \in DOMAIN stack /\ Top = stack[Len(stack)]
      /\ \A i \in DOMAIN Outer : i \in DOMAIN stack /\ Outer[i] = stack[i]
  BY OuterFrames DEF Inv, Typed
<1>2. obj[Top.on].kind = "check"
      /\ (Top.kind # "check" => Top.on = Top.holder /\ Top.on \notin obj[Top.on].pivots)
  BY EndingRun
<1>3. Top.kind \in {"check", mode} /\ \A i \in DOMAIN Outer : Outer[i].kind \in {"check", mode}
  BY <1>1 DEF Heeds
<1>4. ASSUME NEW c \in Builder PROVE back[c].kind \in {"check", mode}
  <2>1. back[c].kind = obj[c].kind \/ back[c].kind = Top.kind
    <3>1. CASE Top.kind = "check"
      BY <1>1, <1>2, <3>1, RestoredInner
    <3>2. CASE Top.kind # "check"
      BY <1>1, <1>2, <3>2, RestoredOuter
    <3> QED
      BY <3>1, <3>2
  <2> QED
    BY <1>3, <2>1 DEF Heeds
<1> HIDE DEF back
<1>5. Heeds(back, Outer)
  BY <1>3, <1>4 DEF Heeds
<1> QED
  BY <1>5 DEF back

LEMMA BegunHeeds ==
  ASSUME Inv(obj, stack, made), Heeds(obj, stack), NEW b \in Builder, BeginNot(b) \/ BeginCheck(b)
  PROVE  Heeds(obj', stack')
<1> DEFINE h == Holder(obj, b)
<1>1. obj \in [Builder -> Object] /\ stack \in Seq(Frame) /\ h \in Builder
  BY DEF Inv, Typed, Linked, Holder
<1>2. PICK how \in {"not", "check"} : obj' = Begun(obj, how, b, h)
  BY DEF BeginNot, BeginCheck, Begun
<1>3. PICK f : stack' = Append(stack, f) /\ f.kind = obj[b].kind
  BY DEF BeginNot, BeginCheck, Begin
<1> HIDE DEF h
<1>4. BegunAs(obj, how, b, h, Begun(obj, how, b, h))
  BY <1>1, BegunFields
<1>5. \A c \in Builder : obj'[c].kind \in {"check", mode}
  BY <1>2, <1>4 DEF BegunAs, Heeds
<1>6. \A i \in DOMAIN stack' : stack'[i] = f \/ (i \in DOMAIN stack /\ stack'[i] = stack[i])
  BY <1>1, <1>3
<1> QED
  BY <1>3, <1>5, <1>6 DEF Heeds

LEMMA PivotHeeds ==
  ASSUME Inv(obj, stack, made), Heeds(obj, stack), NEW b \in Builder, NEW q \in Builder, Pivot(b, q)
  PROVE  Heeds(obj', stack')
<1>1. stack' = stack /\ b \in made /\ q \notin made
  BY DEF Pivot
<1>2. obj \in [Builder -> Object] /\ Holder(obj, b) \in Builder /\ Holder(obj, b) # q
  BY <1>1 DEF Inv, Typed, Linked, Holder
<1>3. PivotedAs(obj, b, q, obj')
  BY <1>2, PivotFields
<1> QED
  BY <1>1, <1>3 DEF PivotedAs, Heeds

\* Every step does.
LEMMA NextHeeds == IInv /\ Heeds(obj, stack) /\ [Next]_vars => Heeds(obj, stack)'
<1> SUFFICES ASSUME IInv, Heeds(obj, stack), [Next]_vars PROVE Heeds(obj, stack)'
  OBVIOUS
<1>1. Inv(obj, stack, made) /\ made \subseteq Builder
  BY DEF IInv, Inv, Typed
<1>2. mode' = mode
  BY DEF Next, vars, Fails, Lacks, Pivot, Begin, BeginNot, BeginCheck, EndCheck, EndNot, Unwind, Throw, Catch, BlockCloses
<1>3. Heeds(obj', stack')
  <2>1. CASE \E b \in Builder : Fails(b) \/ Lacks(b)
    <3>1. PICK b \in Builder : Fails(b) \/ Lacks(b)
      BY <2>1
    <3>2. b \in made
      BY <3>1 DEF Fails, Lacks
    <3>3. PICK what \in {"plain", "missing"} :
            obj' = Failed(obj, b, what) /\ stack' = Heard(stack, obj, b, what)
      BY <1>1, <3>1, FailsFails, LacksFails
    <3> QED
      BY <1>1, <3>2, <3>3, FailedHeeds
  <2>2. CASE \E b \in Builder : BeginNot(b) \/ BeginCheck(b)
    BY <1>1, <2>2, BegunHeeds
  <2>3. CASE \E b, q \in Builder : Pivot(b, q)
    BY <1>1, <2>3, PivotHeeds
  <2>4. CASE EndCheck \/ Unwind
    <3>1. stack # <<>> /\ obj' = Restored(Top) /\ stack' = Outer
      BY <2>4 DEF EndCheck, Unwind
    <3> QED
      BY <1>1, <3>1, EndedHeeds
  <2>5. CASE EndNot
    <3>1. stack # <<>>
      BY <2>5 DEF EndNot
    <3>2. Inv(Restored(Top), Outer, made) /\ Top.on \in made /\ Heeds(Restored(Top), Outer)
      BY <1>1, <3>1, RestoredRun, EndedHeeds
    <3>3. CASE obj' = Restored(Top) /\ stack' = Outer
      BY <3>2, <3>3
    <3>4. CASE \E what \in {"plain", "missing"} :
                 /\ obj' = Failed(Restored(Top), Top.on, what)
                 /\ stack' = Heard(Outer, Restored(Top), Top.on, what)
      BY <3>2, <3>4, FailedHeeds
    <3> QED
      BY <1>1, <2>5, <3>3, <3>4, EndNotSteps DEF EndsAs
  <2>6. CASE Throw \/ Catch \/ BlockCloses \/ UNCHANGED vars
    <3>1. obj' = obj /\ stack' = stack
      BY <2>6 DEF Throw, Catch, BlockCloses, vars
    <3> QED
      BY <3>1
  <2> QED
    BY <2>1, <2>2, <2>3, <2>4, <2>5, <2>6 DEF Next
<1> QED
  BY <1>2, <1>3 DEF Heeds

LEMMA ModesAreKept == Spec => [](IInv /\ Heeds(obj, stack))
<1>1. Init => Heeds(obj, stack)
  <2> SUFFICES ASSUME Init PROVE Heeds(obj, stack)
    OBVIOUS
  <2>1. \A b \in Builder : obj[b].kind = mode
    BY DEF Init, NewBuilder
  <2>2. DOMAIN stack = {}
    BY DEF Init
  <2> QED
    BY <2>1, <2>2 DEF Heeds
<1> QED
  BY <1>1, InitInv, NextInv, NextHeeds, PTL DEF Spec

-----------------------------------------------------------------------------
(* What the runs promise *)

\* Each run is told of the first failure that happened in it, and a negation whether that was on a prerequisite.
LEMMA FirstInv == IInv => FirstIsKept
<1> SUFFICES ASSUME IInv PROVE FirstIsKept
  OBVIOUS
<1>1. DOMAIN stack = 1 .. Len(stack) /\ Len(stack) \in Nat
  BY LenProperties DEF IInv, Inv, Typed
<1>2. SinkIsFirst
  <2> SUFFICES ASSUME NEW i \in DOMAIN stack PROVE SinkOf(i) = stack[i].first
    BY DEF SinkIsFirst
  <2> DEFINE later == {j \in RunsOf(stack, stack[i].holder) : j > i}
             next == CHOOSE j \in later : \A k \in later : j <= k
  <2>1. /\ Innermost(stack, i) => obj[stack[i].holder].sink = stack[i].first
        /\ \A j \in DOMAIN stack : Within(stack, i, j) => stack[j].sink = stack[i].first
    BY DEF IInv, Inv, SinkKept
  <2>2. CASE later = {}
    <3>1. Innermost(stack, i)
      BY <1>1, <2>2 DEF Innermost, RunsOf
    <3> QED
      BY <2>1, <2>2, <3>1 DEF SinkOf
  <2>3. CASE later # {}
    <3>1. later \in SUBSET Nat
      BY <1>1 DEF RunsOf
    <3>2. next \in later /\ \A k \in later : next <= k
      <4> HIDE DEF later
      <4> QED
        BY <2>3, <3>1, Least
    <3>3. next \in DOMAIN stack /\ Within(stack, i, next)
      <4> HIDE DEF next
      <4> QED
        BY <1>1, <3>2 DEF Within, RunsOf
    <3>4. SinkOf(i) = stack[next].sink
      BY <2>3 DEF SinkOf
    <3> QED
      BY <2>1, <3>3, <3>4
  <2> QED
    BY <2>2, <2>3
<1>3. UnmetIsFirst
  <2> SUFFICES ASSUME NEW i \in DOMAIN stack, stack[i].how = "not",
                      \A j \in RunsOf(stack, stack[i].holder) : j <= i
               PROVE  obj[stack[i].holder].unmet = "missing" <=> stack[i].first = "missing"
    BY DEF UnmetIsFirst
  <2>1. Innermost(stack, i)
    BY DEF Innermost, RunsOf
  <2> QED
    BY <2>1 DEF IInv, Inv, UnmetKept
<1> QED
  BY <1>2, <1>3 DEF FirstIsKept

\* However runs nest, share a holder or are cut short, each has in its sink the first failure in it.
THEOREM EachRunHasItsFirst == Spec => []FirstIsKept
BY VerdictsHold, FirstInv, PTL

\* A builder fails in silence only while a run that reads the field its failures go to is going on.
THEOREM SilenceIsRead == Spec => []SilentOnlyInRun
<1>1. IInv => SilentOnlyInRun
  BY DEF IInv, Inv, Silent, SilentOnlyInRun
<1> QED
  BY <1>1, VerdictsHold, PTL

\* When every run is over every builder is in the mode the first was made in, and none keeps a verdict, a pivot or a mark.
THEOREM RunsLeaveNothing == Spec => []NothingLeft
<1>1. IInv /\ Heeds(obj, stack) => NothingLeft
  <2> SUFFICES ASSUME IInv, Heeds(obj, stack), stack = <<>>, NEW b \in made
               PROVE  /\ obj[b].kind = mode
                      /\ obj[b].sink = "none" /\ obj[b].unmet = "none"
                      /\ obj[b].answersTo = NoOne /\ obj[b].pivots = {} /\ ~obj[b].answering
    BY DEF NothingLeft
  <2>1. DOMAIN stack = {} /\ \A h : RunsOf(stack, h) = {}
    BY DEF RunsOf
  <2>2. b \in Builder /\ obj[b] \in Object /\ obj[b].kind # "check"
    BY <2>1 DEF IInv, Inv, Typed, Silent
  <2>3. obj[b].answersTo = NoOne
    BY <2>2 DEF IInv, Inv, Linked
  <2>4. obj[b].pivots = {}
    <3>1. \A q \in Builder : obj[q].answersTo # b
      <4> SUFFICES ASSUME NEW q \in Builder, obj[q].answersTo = b PROVE FALSE
        OBVIOUS
      <4>1. b # NoOne
        BY <2>2, VerdictConstants
      <4>2. q \in made /\ obj[q].kind = "check"
        BY <4>1 DEF IInv, Inv, Linked
      <4> QED
        BY <2>1, <4>2 DEF IInv, Inv, Silent
    <3> QED
      BY <2>2, <3>1 DEF IInv, Inv, Linked
  <2>5. obj[b].sink = "none" /\ obj[b].unmet = "none"
    BY <2>1, <2>2 DEF IInv, Inv, Clean
  <2>6. ~obj[b].answering
    BY <2>1, <2>2, <2>3 DEF IInv, Inv, Marked
  <2>7. obj[b].kind = mode
    BY <2>2 DEF Heeds
  <2> QED
    BY <2>3, <2>4, <2>5, <2>6, <2>7
<1> QED
  BY <1>1, ModesAreKept, PTL

\* A negation that could not answer, or whose assertion held, is heard aloud or by the run around it.
LEMMA PassedOn ==
  ASSUME Inv(obj, stack, made), stack # <<>>, NEW first, NEW what \in {"plain", "missing"}, EndsAs(first, what)
  PROVE  said' # "nothing" \/ \E i \in RunsOf(Outer, Holder(obj', Top.on)) : stack'[i].first # "none"
<1> DEFINE back == Restored(Top)
           around == RunsOf(Outer, Holder(back, Top.on))
<1>1. /\ Inv(back, Outer, made) /\ back \in [Builder -> Object] /\ Top \in Frame /\ Top.on \in made
      /\ Top.holder \in Builder /\ Holder(back, Top.on) = Top.holder
  BY RestoredRun
<1>2. /\ Outer \in Seq(Frame) /\ DOMAIN Outer = 1 .. Len(stack) - 1 /\ Len(stack) \in Nat
      /\ Top.on \in Builder
  BY <1>1, OuterFrames DEF Inv, Typed
<1>3. obj' = Failed(back, Top.on, what) /\ stack' = Heard(Outer, back, Top.on, what) /\ said' = Spoken(back, Top.on)
  BY DEF EndsAs
<1> HIDE DEF back
<1>4. Holder(obj', Top.on) = Holder(back, Top.on)
  <2>1. obj'[Top.on].answersTo = back[Top.on].answersTo
    BY <1>1, <1>2, <1>3, FailedFields
  <2> QED
    BY <2>1 DEF Holder
<1>5. CASE back[Top.on].kind # "check"
  BY <1>3, <1>5 DEF Spoken
<1>6. CASE back[Top.on].kind = "check"
  <2>1. around # {}
    BY <1>1, <1>6 DEF Inv, Silent
  <2>2. around \in SUBSET (0 .. Len(stack))
    BY <1>2 DEF RunsOf
  <2>3. PICK i \in around : \A j \in around : j <= i
    <3> HIDE DEF around
    <3> QED
      BY <1>2, <2>1, <2>2, Greatest
  <2>4. i \in DOMAIN Outer /\ Outer[i].holder = Holder(back, Top.on) /\ Innermost(Outer, i)
    BY <2>3 DEF RunsOf, Innermost
  <2>5. stack'[i].first = IF Told(Outer, back, Top.on, i) THEN what ELSE Outer[i].first
    BY <1>2, <1>3, <2>4, HeardFrames
  <2>6. stack'[i].first # "none"
    BY <1>6, <2>4, <2>5 DEF Told
  <2> QED
    BY <1>4, <2>3, <2>6
<1> QED
  BY <1>5, <1>6

\* A negation that ends is silent, to the caller and to the run around it, just when its assertion failed with an
\* answer; what held, and what had no answer, is heard.
THEOREM NegationIsHeard == Spec => NegationAnswers
<1> DEFINE A == EndNot =>
        LET around == RunsOf(Outer, Holder(obj', Top.on))
            quiet == said' = "nothing" /\ \A i \in DOMAIN Outer : stack'[i] = stack[i]
        IN IF Top.first = "plain"
           THEN quiet
           ELSE said' # "nothing" \/ \E i \in around : stack'[i].first # "none"
<1>1. IInv /\ [Next]_vars => A
  <2> SUFFICES ASSUME IInv, EndNot
               PROVE  IF Top.first = "plain"
                      THEN said' = "nothing" /\ \A i \in DOMAIN Outer : stack'[i] = stack[i]
                      ELSE \/ said' # "nothing"
                           \/ \E i \in RunsOf(Outer, Holder(obj', Top.on)) : stack'[i].first # "none"
    OBVIOUS
  <2>1. Inv(obj, stack, made) /\ stack # <<>>
    BY DEF IInv, EndNot
  <2>2. \A i \in DOMAIN Outer : Outer[i] = stack[i]
    BY <2>1, OuterFrames DEF Inv, Typed
  <2>3. CASE Top.first = "plain" /\ obj' = Restored(Top) /\ stack' = Outer /\ said' = "nothing"
    BY <2>2, <2>3
  <2>4. CASE EndsAs("missing", "missing")
    <3>1. Top.first = "missing"
      BY <2>4 DEF EndsAs
    <3>2. said' # "nothing" \/ \E i \in RunsOf(Outer, Holder(obj', Top.on)) : stack'[i].first # "none"
      BY <2>1, <2>4, PassedOn
    <3> QED
      BY <3>1, <3>2
  <2>5. CASE EndsAs("none", "plain")
    <3>1. Top.first = "none"
      BY <2>5 DEF EndsAs
    <3>2. said' # "nothing" \/ \E i \in RunsOf(Outer, Holder(obj', Top.on)) : stack'[i].first # "none"
      BY <2>1, <2>5, PassedOn
    <3> QED
      BY <3>1, <3>2
  <2> QED
    BY <2>1, <2>3, <2>4, <2>5, EndNotSteps
<1>2. Spec => [][A]_vars
  <2> HIDE DEF A
  <2> QED
    BY <1>1, VerdictsHold, PTL DEF Spec
<1> QED
  BY <1>2 DEF NegationAnswers

-----------------------------------------------------------------------------
(* The registry of extensions, beside which the builders above are made *)

Doing ==
  [at : {"idle", "clearing", "emptying", "installing", "deleting", "popping"}, impl : Implementation \cup {Nothing},
   override : BOOLEAN, alone : BOOLEAN]

Wrapper == [own : Callable \cup {Nothing}, under : Implementation \cup {Nothing, Unknown}]

RegistryTypes ==
  /\ builtIn \in BOOLEAN
  /\ onClass \in Function \cup {Nothing} /\ kept \in Callable \cup {Nothing}
  /\ lock \in Thread \cup {Nothing}
  /\ doing \in [Thread -> Doing]
  /\ builders \in Seq(Wrapper) /\ changes \in Nat
  /\ promised \in Implementation \cup {Nothing, Unknown}

Active(t) == doing[t].at # "idle"

\* Only the thread that has the lock adds.
OneAdds == \A t \in Thread : Adding(t) <=> lock = t

\* A call that no other fell into runs alone, and nothing is promised while any runs.
Overlaps ==
  /\ \A t, u \in Thread : t # u /\ Active(t) /\ doing[t].alone => ~Active(u)
  /\ \A t \in Thread : Active(t) => promised = Unknown

Fits(impl, there) == there = Nothing \/ Same(there, impl)

\* What a thread in the middle of a call may rely on, whoever removes meanwhile, and if nobody does.
Relies(d, class, registry) ==
  /\ d.at \in {"clearing", "emptying", "installing"} =>
       d.impl \in Implementation /\ (~d.override => Fits(d.impl, class) /\ Fits(d.impl, registry))
  /\ d.at = "emptying" => d.impl \in Callable
  /\ d.at = "installing" => IF d.impl \in Function THEN registry = Nothing ELSE class = Nothing
  /\ d.alone /\ d.at \in {"emptying", "deleting"} => class # Nothing
  /\ d.alone /\ d.at = "popping" => class = Nothing

\* What was promised is in the one place, and nothing in the other.
IsThere(what, class, registry) ==
  /\ what \in Function \cup {Nothing} => class = what /\ registry = Nothing
  /\ what \in Callable => class = Nothing /\ registry = what

BuilderHolds(b) ==
  /\ b.under \in Callable => b.own = b.under
  /\ b.under \in Function \cup {Nothing} => b.own = Nothing

RegistryInv ==
  /\ RegistryTypes
  /\ onClass = Nothing \/ kept = Nothing
  /\ OneAdds /\ Overlaps
  /\ \A t \in Thread : Relies(doing[t], onClass, kept)
  /\ IsThere(promised, onClass, kept)
  /\ \A i \in DOMAIN builders : BuilderHolds(builders[i])

-----------------------------------------------------------------------------

LEMMA RegistryInit == ExtensionsInit => RegistryInv
<1> SUFFICES ASSUME ExtensionsInit PROVE RegistryInv
  OBVIOUS
<1> USE ExtensionsAssumption DEF ExtensionsInit
<1>1. Idle \in Doing /\ Idle.at = "idle"
  BY DEF Idle, Doing
<1>2. RegistryTypes
  BY <1>1 DEF RegistryTypes
<1>3. \A t \in Thread : doing[t] = Idle /\ lock # t
  OBVIOUS
<1>4. OneAdds /\ Overlaps
  BY <1>1, <1>3 DEF OneAdds, Overlaps, Active, Adding
<1>5. \A t \in Thread : Relies(doing[t], onClass, kept)
  BY <1>1, <1>3 DEF Relies
<1>6. IsThere(promised, onClass, kept)
  BY DEF IsThere, Implementation
<1>7. DOMAIN builders = {}
  OBVIOUS
<1> QED
  BY <1>2, <1>4, <1>5, <1>6, <1>7 DEF RegistryInv

\* One thing less on the class or in the registry harms nobody who may not be alone.
LEMMA LessRelies ==
  ASSUME NEW d, NEW class, NEW registry, NEW class2 \in {class, Nothing}, NEW registry2 \in {registry, Nothing},
         Relies(d, class, registry), class2 = class \/ ~d.alone
  PROVE  Relies(d, class2, registry2)
BY DEF Relies, Fits

\* One more builder.
LEMMA MakeInv == RegistryInv /\ Make => RegistryInv'
<1> SUFFICES ASSUME RegistryInv, Make PROVE RegistryInv'
  OBVIOUS
<1> USE DEF RegistryInv
<1> DEFINE b == [own |-> kept, under |-> promised]
<1>1. b \in Wrapper /\ BuilderHolds(b)
  BY ExtensionsAssumption DEF RegistryTypes, Wrapper, BuilderHolds, IsThere
<1>2. builders' = Append(builders, b) /\ UNCHANGED <<builtIn, onClass, kept, lock, doing, changes, promised>>
  BY DEF Make
<1> HIDE DEF b
<1>3. builders' \in Seq(Wrapper) /\ \A i \in DOMAIN builders' : BuilderHolds(builders'[i])
  BY <1>1, <1>2 DEF RegistryTypes
<1>4. RegistryTypes' /\ OneAdds' /\ Overlaps'
  BY <1>2, <1>3 DEF RegistryTypes, OneAdds, Overlaps, Adding, Active
<1> QED
  BY <1>2, <1>3, <1>4

\* A call begins, and is noted in those it overlaps.
LEMMA BeginsInv ==
  ASSUME RegistryInv, NEW t \in Thread, NEW new \in Doing, ~Active(t), new.at # "idle", new.alone,
         NEW others \in SUBSET (Thread \ {t}), Begins(t, new, others),
         \A u \in Thread \ {t} : Active(u) => u \in others,
         IF new.at \in {"clearing", "emptying", "installing"} THEN lock = Nothing /\ lock' = t ELSE UNCHANGED lock,
         promised' = Unknown, changes' = changes + 1, UNCHANGED <<builtIn, onClass, kept, builders>>,
         Relies(new, onClass, kept)
  PROVE  RegistryInv'
<1> USE DEF RegistryInv
<1> DEFINE d == [new EXCEPT !.alone = others = {}]
<1>1. d \in Doing /\ d.at = new.at /\ d.impl = new.impl /\ d.override = new.override /\ d.alone = (others = {})
  BY DEF Doing
<1>2. doing'[t] = d
  BY DEF Begins
<1>3. ASSUME NEW u \in Thread \ {t}
      PROVE  /\ doing'[u] \in Doing /\ doing'[u].at = doing[u].at /\ doing'[u].impl = doing[u].impl
             /\ doing'[u].override = doing[u].override
             /\ u \in others => ~doing'[u].alone
             /\ u \notin others => doing'[u] = doing[u]
  <2>1. doing'[u] = IF u \in others THEN [doing[u] EXCEPT !.alone = FALSE] ELSE doing[u]
    BY DEF Begins
  <2>2. doing[u] \in Doing
    BY DEF RegistryTypes
  <2> QED
    BY <2>1, <2>2 DEF Doing
<1>4. DOMAIN doing' = Thread
  BY DEF Begins
<1> HIDE DEF d
<1>5. doing' \in [Thread -> Doing]
  <2>1. doing' = [u \in Thread |-> doing'[u]]
    BY DEF Begins
  <2> QED
    BY <1>1, <1>2, <1>3, <2>1
<1>6. RegistryTypes'
  BY <1>5, ExtensionsAssumption DEF RegistryTypes
<1>7. OneAdds'
  BY <1>1, <1>2, <1>3, ExtensionsAssumption DEF OneAdds, Adding, Active
<1>8. Overlaps'
  <2>1. ASSUME NEW u \in Thread, NEW v \in Thread, u # v, doing'[u].at # "idle", doing'[u].alone
        PROVE  doing'[v].at = "idle"
    <3>1. u = t
      BY <1>3, <2>1 DEF Active
    <3>2. others = {} /\ v \in Thread \ {t}
      BY <1>1, <1>2, <2>1, <3>1
    <3> QED
      BY <1>3, <3>2 DEF Active
  <2> QED
    BY <2>1 DEF Overlaps, Active
<1>9. \A u \in Thread : Relies(doing'[u], onClass', kept')
  <2>1. Relies(d, onClass, kept)
    BY <1>1 DEF Relies
  <2>2. ASSUME NEW u \in Thread \ {t} PROVE Relies(doing'[u], onClass, kept)
    BY <1>3 DEF Relies
  <2> QED
    BY <1>2, <2>1, <2>2
<1>10. IsThere(Unknown, onClass, kept)
  BY ExtensionsAssumption DEF IsThere, Implementation
<1> QED
  BY <1>6, <1>7, <1>8, <1>9, <1>10

\* A call takes a step to where it goes on, and may take something away.
LEMMA GoesInv ==
  ASSUME RegistryInv, NEW t \in Thread, NEW at, Goes(t, at), Active(t),
         IF Adding(t) THEN at \in {"emptying", "installing"} ELSE at \in {"deleting", "popping"},
         onClass' \in {onClass, Nothing}, kept' \in {kept, Nothing},
         UNCHANGED <<builtIn, lock, builders, changes, promised>>,
         Relies([doing[t] EXCEPT !.at = at], onClass', kept')
  PROVE  RegistryInv'
<1> USE DEF RegistryInv
<1> DEFINE d == [doing[t] EXCEPT !.at = at]
<1>0. doing[t] \in Doing
  BY DEF RegistryTypes
<1>1. d \in Doing /\ d.at = at /\ d.impl = doing[t].impl /\ d.override = doing[t].override /\ d.alone = doing[t].alone
  BY <1>0 DEF Doing, Adding
<1>2. doing'[t] = d /\ \A u \in Thread \ {t} : doing'[u] = doing[u]
  BY DEF Goes, RegistryTypes
<1>3. doing' \in [Thread -> Doing]
  BY <1>1 DEF Goes, RegistryTypes
<1> HIDE DEF d
<1>4. RegistryTypes'
  BY <1>3 DEF RegistryTypes
<1>5. OneAdds'
  BY <1>1, <1>2 DEF OneAdds, Adding, Active
<1>6. Overlaps'
  BY <1>1, <1>2 DEF Overlaps, Active, Adding
<1>7. \A u \in Thread : Relies(doing'[u], onClass', kept')
  <2>1. ASSUME NEW u \in Thread \ {t} PROVE Relies(doing'[u], onClass', kept')
    <3>1. CASE Active(u)
      <4>1. ~doing[u].alone
        BY <3>1 DEF Overlaps
      <4> QED
        BY <1>2, <4>1, LessRelies
    <3>2. CASE ~Active(u)
      BY <1>2, <3>2 DEF Relies, Active
    <3> QED
      BY <3>1, <3>2
  <2> QED
    BY <1>2, <2>1 DEF d
<1>8. IsThere(promised', onClass', kept')
  BY ExtensionsAssumption DEF Overlaps, IsThere, Implementation
<1> QED
  BY <1>4, <1>5, <1>6, <1>7, <1>8

\* A call is over, and leaves what it says if it ran alone.
LEMMA ReturnsInv ==
  ASSUME RegistryInv, NEW t \in Thread, NEW leaves \in Implementation \cup {Nothing}, Returns(t, leaves), Active(t),
         lock' = (IF Adding(t) THEN Nothing ELSE lock),
         onClass' \in Function \cup {Nothing}, kept' \in Callable \cup {Nothing}, onClass' = Nothing \/ kept' = Nothing,
         (onClass' \in {onClass, Nothing} /\ kept' \in {kept, Nothing}) \/ Adding(t),
         \A u \in Thread \ {t} : Active(u) => Relies(doing[u], onClass', kept'),
         UNCHANGED <<builtIn, builders, changes>>,
         doing[t].alone => IsThere(leaves, onClass', kept')
  PROVE  RegistryInv'
<1> USE DEF RegistryInv
<1>1. Idle \in Doing /\ Idle.at = "idle"
  BY DEF Idle, Doing
<1>2. doing'[t] = Idle /\ \A u \in Thread \ {t} : doing'[u] = doing[u]
  BY DEF Returns, RegistryTypes
<1>3. doing' \in [Thread -> Doing]
  BY <1>1 DEF Returns, RegistryTypes
<1>4. promised' = IF doing[t].alone THEN leaves ELSE Unknown
  BY DEF Returns
<1>5. RegistryTypes'
  BY <1>3, <1>4 DEF RegistryTypes
<1>6. OneAdds'
  BY <1>1, <1>2, ExtensionsAssumption DEF OneAdds, Adding, Active
<1>7. Overlaps'
  BY <1>1, <1>2, <1>4 DEF Overlaps, Active
<1>8. \A u \in Thread : Relies(doing'[u], onClass', kept')
  BY <1>1, <1>2 DEF Relies, Active
<1>9. IsThere(Unknown, onClass', kept')
  BY ExtensionsAssumption DEF IsThere, Implementation
<1> QED
  BY <1>4, <1>5, <1>6, <1>7, <1>8, <1>9

-----------------------------------------------------------------------------

LEMMA AddInv == ASSUME RegistryInv, NEW t \in Thread, NEW impl \in Implementation, NEW override \in BOOLEAN, Add(t, impl, override) PROVE RegistryInv'
<1> USE DEF RegistryInv
<1>1. CASE Refuses(impl, override)
  BY <1>1, ExtensionsAssumption DEF Add, Refuses, RegistryTypes, OneAdds, Overlaps, Adding, Active
<1>2. CASE ~Refuses(impl, override)
  <2> DEFINE new == [at |-> "clearing", impl |-> impl, override |-> override, alone |-> TRUE]
             others == {u \in Thread \ {t} : Removing(u)}
  <2>1. /\ doing[t].at = "idle" /\ lock = Nothing /\ changes' = changes + 1 /\ lock' = t
        /\ MayTake(impl, override) /\ promised' = Unknown /\ Begins(t, new, others)
        /\ UNCHANGED <<builtIn, onClass, kept, builders>>
    BY <1>2 DEF Add, Adds
  <2>2. new \in Doing /\ new.at = "clearing" /\ new.alone /\ new.impl = impl /\ new.override = override
    BY DEF Doing
  <2>3. \A u \in Thread \ {t} : Active(u) => u \in others
    BY <2>1, ExtensionsAssumption DEF OneAdds, Adding, Active, Removing, RegistryTypes, Doing
  <2>4. others \in SUBSET (Thread \ {t})
    OBVIOUS
  <2>5. MayTake(impl, override) /\ ~override => Fits(impl, onClass) /\ Fits(impl, kept)
    BY ExtensionsAssumption DEF MayTake, Fits, Same, RegistryTypes, Implementation
  <2> HIDE DEF new, others
  <2>6. Relies(new, onClass, kept)
    BY <2>1, <2>2, <2>5 DEF Relies
  <2> QED
    BY <2>1, <2>2, <2>3, <2>4, <2>6, BeginsInv DEF Active
<1> QED
  BY <1>1, <1>2

LEMMA RemoveInv == ASSUME RegistryInv, NEW t \in Thread, Remove(t) PROVE RegistryInv'
<1> USE DEF RegistryInv
<1> DEFINE new == [Idle EXCEPT !.at = IF onClass = Nothing THEN "popping" ELSE "deleting"]
           others == {u \in Thread \ {t} : doing[u].at # "idle"}
<1>1. /\ doing[t].at = "idle" /\ changes' = changes + 1 /\ promised' = Unknown /\ Begins(t, new, others)
      /\ UNCHANGED <<builtIn, onClass, kept, lock, builders>>
  BY DEF Remove
<1>2. new \in Doing /\ new.at = (IF onClass = Nothing THEN "popping" ELSE "deleting") /\ new.alone
  BY DEF Doing, Idle
<1>3. others \in SUBSET (Thread \ {t}) /\ \A u \in Thread \ {t} : Active(u) => u \in others
  BY DEF Active
<1> HIDE DEF new, others
<1>4. Relies(new, onClass, kept)
  BY <1>2 DEF Relies
<1> QED
  BY <1>1, <1>2, <1>3, <1>4, BeginsInv DEF Active

LEMMA AddsOn == ASSUME RegistryInv, NEW t \in Thread, Pops(t) \/ LooksAtClass(t) \/ EmptiesClass(t) PROVE RegistryInv'
<1> USE DEF RegistryInv
<1>0. doing[t] \in Doing /\ Relies(doing[t], onClass, kept)
  BY DEF RegistryTypes
<1>1. ASSUME NEW at PROVE /\ [doing[t] EXCEPT !.at = at].at = at /\ [doing[t] EXCEPT !.at = at].impl = doing[t].impl
                          /\ [doing[t] EXCEPT !.at = at].override = doing[t].override
                          /\ [doing[t] EXCEPT !.at = at].alone = doing[t].alone
  BY <1>0 DEF Doing
<1>2. CASE Pops(t)
  <2>1. Relies([doing[t] EXCEPT !.at = "installing"], onClass, Nothing)
    BY <1>0, <1>1, <1>2 DEF Pops, Relies, Fits
  <2> QED
    BY <1>2, <2>1, GoesInv DEF Pops, Active, Adding
<1>3. CASE LooksAtClass(t)
  <2> DEFINE at == IF onClass = Nothing THEN "installing" ELSE "emptying"
  <2>1. doing[t].impl \in Callable /\ doing[t].impl \notin Function /\ doing[t].at = "clearing"
    BY <1>3, ExtensionsAssumption DEF LooksAtClass
  <2>2. Relies([doing[t] EXCEPT !.at = at], onClass, kept)
    BY <1>0, <1>1, <2>1 DEF Relies
  <2>3. Goes(t, at) /\ at \in {"emptying", "installing"} /\ UNCHANGED <<builtIn, onClass, kept, lock, builders, changes, promised>>
    BY <1>3 DEF LooksAtClass
  <2> HIDE DEF at
  <2> QED
    BY <2>1, <2>2, <2>3, GoesInv DEF Active, Adding
<1>4. CASE EmptiesClass(t)
  <2>1. Relies([doing[t] EXCEPT !.at = "installing"], Nothing, kept)
    BY <1>0, <1>1, <1>4, ExtensionsAssumption DEF EmptiesClass, Relies, Fits
  <2> QED
    BY <1>4, <2>1, GoesInv DEF EmptiesClass, Active, Adding
<1> QED
  BY <1>2, <1>3, <1>4

LEMMA DeletesInv == ASSUME RegistryInv, NEW t \in Thread, Deletes(t) PROVE RegistryInv'
<1> USE DEF RegistryInv
<1>0. doing[t] \in Doing /\ Relies(doing[t], onClass, kept)
  BY DEF RegistryTypes
<1>1. Relies([doing[t] EXCEPT !.at = "popping"], Nothing, kept)
  BY <1>0 DEF Deletes, Relies, Doing
<1> QED
  BY <1>1, GoesInv DEF Deletes, Active, Adding

\* Whoever is in a call while another returns from one is not alone.
LEMMA OthersRely ==
  ASSUME RegistryInv, NEW t \in Thread, Active(t), onClass' \in {onClass, Nothing}, kept' \in {kept, Nothing},
         NEW u \in Thread \ {t}, Active(u)
  PROVE  Relies(doing[u], onClass', kept')
<1>1. ~doing[u].alone /\ Relies(doing[u], onClass, kept)
  BY DEF RegistryInv, Overlaps
<1> QED
  BY <1>1, LessRelies

LEMMA EndsInv == ASSUME RegistryInv, NEW t \in Thread, FindsClassEmpty(t) \/ FindsItGone(t) \/ TakesAway(t) PROVE RegistryInv'
<1> USE DEF RegistryInv
<1>0. doing[t] \in Doing /\ Relies(doing[t], onClass, kept)
  BY DEF RegistryTypes
<1>1. Active(t) /\ Returns(t, Nothing) /\ UNCHANGED <<builtIn, builders, changes, onClass>> /\ kept' \in {kept, Nothing}
      /\ lock' = (IF Adding(t) THEN Nothing ELSE lock)
  BY DEF FindsClassEmpty, FindsItGone, TakesAway, Active, Adding
<1>2. doing[t].alone => IsThere(Nothing, onClass', kept')
  BY <1>0, ExtensionsAssumption DEF FindsClassEmpty, FindsItGone, TakesAway, Relies, IsThere, Implementation
<1>3. \A u \in Thread \ {t} : Active(u) => Relies(doing[u], onClass', kept')
  BY <1>1, OthersRely
<1>4. onClass' \in Function \cup {Nothing} /\ kept' \in Callable \cup {Nothing} /\ (onClass' = Nothing \/ kept' = Nothing)
  BY <1>1 DEF RegistryTypes
<1> QED
  BY <1>1, <1>2, <1>3, <1>4, ReturnsInv

LEMMA InstallsInv == ASSUME RegistryInv, NEW t \in Thread, Installs(t) PROVE RegistryInv'
<1> USE DEF RegistryInv
<1> DEFINE impl == doing[t].impl
<1>0. doing[t] \in Doing /\ Relies(doing[t], onClass, kept) /\ doing[t].at = "installing"
  BY DEF RegistryTypes, Installs
<1>1. impl \in Implementation /\ Active(t) /\ Adding(t) /\ lock = t
  BY <1>0 DEF Relies, Active, Adding, OneAdds
<1>2. /\ lock' = Nothing /\ Returns(t, impl) /\ UNCHANGED <<builtIn, builders, changes>>
      /\ IF impl \in Function THEN onClass' = impl /\ kept' = kept ELSE kept' = impl /\ onClass' = onClass
  BY DEF Installs
<1>3. IF impl \in Function THEN kept = Nothing ELSE onClass = Nothing
  BY <1>0 DEF Relies
<1>4. ASSUME NEW u \in Thread \ {t}, Active(u) PROVE Relies(doing[u], onClass', kept')
  <2>1. ~Adding(u) /\ ~doing[u].alone
    BY <1>1, <1>4 DEF OneAdds, Overlaps
  <2> QED
    BY <2>1 DEF Relies, Adding
<1> HIDE DEF impl
<1>5. IsThere(impl, onClass', kept')
  BY <1>1, <1>2, <1>3, ExtensionsAssumption DEF IsThere, Implementation
<1>6. onClass' \in Function \cup {Nothing} /\ kept' \in Callable \cup {Nothing} /\ (onClass' = Nothing \/ kept' = Nothing)
  BY <1>1, <1>2, <1>3 DEF RegistryTypes, Implementation
<1> QED
  BY <1>1, <1>2, <1>4, <1>5, <1>6, ReturnsInv

LEMMA RegistryStep == RegistryInv /\ [ExtensionsStep]_extensionVars => RegistryInv'
<1> SUFFICES ASSUME RegistryInv, [ExtensionsStep]_extensionVars PROVE RegistryInv'
  OBVIOUS
<1>1. CASE UNCHANGED extensionVars
  BY <1>1 DEF RegistryInv, extensionVars, RegistryTypes, OneAdds, Overlaps, Adding, Active
<1> QED
  BY <1>1, MakeInv, AddInv, RemoveInv, AddsOn, DeletesInv, EndsInv, InstallsInv DEF ExtensionsStep

\* An extension is replaced on request only, and what a builder calls is what was added last (add_extension,
\* remove_extension and the builders made), however additions and removals of several threads overlap.
THEOREM RegistryHolds == ExtensionsSpec => []ExtensionsHold
<1>1. RegistryInv => ExtensionsHold
  <2> SUFFICES ASSUME RegistryInv PROVE ExtensionsHold
    OBVIOUS
  <2>1. ASSUME NEW t \in Thread, Adding(t), ~doing[t].override, NEW there \in {onClass, kept} \ {Nothing}
        PROVE  Same(there, doing[t].impl)
    BY <2>1 DEF RegistryInv, Adding, Relies, Fits
  <2>2. ASSUME NEW i \in DOMAIN builders
        PROVE  LET b == builders[i]
               IN  /\ b.under \in Callable => Calls(b) = b.under
                   /\ b.under \in Function \cup {Nothing} =>
                        \/ promised = Unknown
                        \/ Calls(b) = IF promised \in Function THEN promised ELSE BuiltIn
                   /\ StillOurs(b) <=> Calls(b) = BuiltIn
    <3> DEFINE b == builders[i]
    <3>1. b \in Wrapper /\ BuilderHolds(b)
      BY DEF RegistryInv, RegistryTypes
    <3>2. /\ onClass \in Function \cup {Nothing} /\ IsThere(promised, onClass, kept)
          /\ promised \in Implementation \cup {Nothing, Unknown}
      BY DEF RegistryInv, RegistryTypes
    <3> HIDE DEF b
    <3>3. b.own \in Callable \cup {Nothing}
      BY <3>1 DEF Wrapper
    <3>4. b.under \in Callable => Calls(b) = b.under
      BY <3>1, ExtensionsAssumption DEF BuilderHolds, Calls, Implementation
    <3>5. b.under \in Function \cup {Nothing} =>
            promised = Unknown \/ Calls(b) = IF promised \in Function THEN promised ELSE BuiltIn
      BY <3>1, <3>2, ExtensionsAssumption DEF BuilderHolds, Calls, FoundOnClass, IsThere, Implementation
    <3>6. StillOurs(b) <=> Calls(b) = BuiltIn
      BY <3>2, <3>3, ExtensionsAssumption DEF StillOurs, Calls, FoundOnClass, BuiltIn, Implementation
    <3> QED
      BY <3>4, <3>5, <3>6 DEF b
  <2> QED
    BY <2>1, <2>2 DEF ExtensionsHold
<1> QED
  BY <1>1, RegistryInit, RegistryStep, PTL DEF ExtensionsSpec
=============================================================================
