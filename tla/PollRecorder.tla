---------------------------- MODULE PollRecorder ----------------------------
(***************************************************************************)
(* The flight recorder of a poll (_PollRecorder and _summarize in          *)
(* assertpy2/async_assertions.py): what it keeps of the attempts that      *)
(* failed, and the sentence it makes of them when time is up.              *)
(*                                                                         *)
(* An attempt failed on a value the probe returned ("fail") or with an     *)
(* exception and no value ("error").  A value is known by its digest: its  *)
(* key, or Unkeyed when it cannot be rendered.  The text of a failure is   *)
(* taken to say no more than the value or the exception it is about.       *)
(***************************************************************************)
EXTENDS Integers, Sequences, FiniteSets, SequencesExt

CONSTANTS
  Key,        \* digests of the values a probe returns
  Unkeyed,    \* no digest: the value cannot be compared
  Exc,        \* exceptions
  ClassOf,    \* the class of each
  HeadLimit, TailLimit  \* how many samples are kept, from the start and the end

ASSUME RecorderConstants ==
  /\ Unkeyed \notin Key
  /\ HeadLimit \in Nat \ {0} /\ TailLimit \in Nat \ {0}

NoClass == "none"
NoKey == "no key"

ASSUME NonesAreNone ==
  /\ NoKey \notin Key
  /\ \A e \in Exc : ClassOf[e] # NoClass

(* The recorder: head and tail are the samples kept, each a run of polls   *)
(* that did not differ.                                                    *)
Blank ==
  [head |-> <<>>, tail |-> <<>>, dropped |-> 0, total |-> 0, fails |-> 0,
   errors |-> 0, changes |-> 0, since |-> 0, uncomparable |-> FALSE,
   lastChange |-> 0, class |-> NoClass, mixed |-> FALSE,
   lastOutcome |-> "none", lastKey |-> NoKey]

Kept(r) == r.head \o r.tail

Sample(p) == [outcome |-> p.outcome, what |-> p.what, repeats |-> 1]

-----------------------------------------------------------------------------
(* record()                                                                *)

\* A slip: the count since the last raising poll is not started over.
CountedNeverReset(r, p) ==
  LET moved == r.lastKey # NoKey /\ p.what # r.lastKey IN
  IF p.outcome = "error"
  THEN [r EXCEPT !.errors = @ + 1,
                 !.class = IF @ = NoClass THEN ClassOf[p.what] ELSE @,
                 !.mixed = @ \/ r.class \notin {NoClass, ClassOf[p.what]}]
  ELSE IF p.what = Unkeyed
  THEN [r EXCEPT !.fails = @ + 1, !.uncomparable = TRUE]
  ELSE [r EXCEPT !.fails = @ + 1, !.lastKey = p.what,
                 !.changes = IF moved THEN @ + 1 ELSE @,
                 !.since = IF moved THEN @ + 1 ELSE @,
                 !.lastChange = IF moved THEN p.at ELSE @]

\* The counters, which see every poll.
Counted(r, p) ==
  LET moved == r.lastKey # NoKey /\ p.what # r.lastKey IN
  IF p.outcome = "error"
  THEN [r EXCEPT !.errors = @ + 1, !.since = 0,
                 !.class = IF @ = NoClass THEN ClassOf[p.what] ELSE @,
                 !.mixed = @ \/ r.class \notin {NoClass, ClassOf[p.what]}]
  ELSE IF p.what = Unkeyed
  THEN [r EXCEPT !.fails = @ + 1, !.uncomparable = TRUE]
  ELSE [r EXCEPT !.fails = @ + 1, !.lastKey = p.what,
                 !.changes = IF moved THEN @ + 1 ELSE @,
                 !.since = IF moved THEN @ + 1 ELSE @,
                 !.lastChange = IF moved THEN p.at ELSE @]

\* A slip: two values that cannot be compared are taken for one.
RepeatsUnkeyed(sample, p) == sample.outcome = p.outcome /\ sample.what = p.what

\* A poll repeats a sample: same outcome, same value or exception.
Repeats(sample, p) ==
  /\ sample.outcome = p.outcome /\ sample.what = p.what
  /\ p.what # Unkeyed

\* A sample that repeats nothing: into the head while it has room, then the
\* tail, whose oldest gives way.
KeptNew(r, p) ==
  IF Len(r.head) < HeadLimit
  THEN [r EXCEPT !.head = Append(@, Sample(p))]
  ELSE IF Len(r.tail) < TailLimit
  THEN [r EXCEPT !.tail = Append(@, Sample(p))]
  ELSE [r EXCEPT !.tail = Append(Tail(@), Sample(p)), !.dropped = @ + 1]

Collapsed(r) ==
  IF r.tail # <<>>
  THEN [r EXCEPT !.tail[Len(r.tail)].repeats = @ + 1]
  ELSE [r EXCEPT !.head[Len(r.head)].repeats = @ + 1]

Recorded(r, p) ==
  LET counted == [Counted(r, p) EXCEPT !.total = @ + 1, !.lastOutcome = p.outcome]
  IN IF Kept(r) # <<>> /\ Repeats(Last(Kept(r)), p)
     THEN Collapsed(counted)
     ELSE KeptNew(counted, p)

-----------------------------------------------------------------------------
(* _summarize(): the sentence, as what it claims.                          *)

FailsKept(r) == {i \in DOMAIN Kept(r) : Kept(r)[i].outcome = "fail"}

KeysKept(r) == {Kept(r)[i].what : i \in FailsKept(r)}

\* Those that differ from the one before them.
ChangesKept(r) ==
  {j \in FailsKept(r) :
    \E i \in FailsKept(r) :
      /\ i < j /\ \A k \in FailsKept(r) : k <= i \/ k >= j
      /\ Kept(r)[i].what # Kept(r)[j].what}

Trend(r) ==
  IF r.uncomparable THEN [says |-> "incomparable", times |-> 0]
  ELSE [says |-> "changed", times |-> r.since]

\* The probe went back to a value it had shown: more changes than a path has.
Cycles(r) == Cardinality(ChangesKept(r)) >= Cardinality(KeysKept(r))

Summary(r, elapsed) ==
  CASE r.fails = 0 ->
         [says |-> "raised", class |-> IF r.mixed THEN NoClass ELSE r.class]
    [] r.fails # 0 /\ r.errors # 0 ->
         [says |-> IF r.lastOutcome = "fail" THEN "recovered" ELSE "intermittent",
          raised |-> r.errors, trend |-> Trend(r)]
    [] r.errors = 0 /\ r.uncomparable -> [says |-> "incomparable"]
    [] r.errors = 0 /\ ~r.uncomparable /\ r.changes = 0 -> [says |-> "unchanged"]
    [] OTHER ->
         IF Cycles(r)
         THEN [says |-> "cycles", states |-> Cardinality(KeysKept(r)),
               all |-> r.dropped = 0]
         ELSE [says |-> "changed", times |-> r.changes, ago |-> elapsed - r.lastChange]

-----------------------------------------------------------------------------
(* What the sentence and the samples should say of all the polls ps.       *)

Fails(ps) == {i \in DOMAIN ps : ps[i].outcome = "fail"}
Errors(ps) == {i \in DOMAIN ps : ps[i].outcome = "error"}
Values(ps) == {ps[i].what : i \in Fails(ps)}

\* The failed poll before i whose value had a digest.
Before(ps, i) == {j \in Fails(ps) : j < i /\ ps[j].what # Unkeyed}

\* Poll i showed another value than the last comparable one.
Moved(ps, i) ==
  /\ i \in Fails(ps) /\ ps[i].what # Unkeyed
  /\ \E j \in Before(ps, i) :
       (\A k \in Before(ps, i) : k <= j) /\ ps[j].what # ps[i].what

Moves(ps) == {i \in DOMAIN ps : Moved(ps, i)}

SinceRaised(ps) == {i \in Moves(ps) : \A j \in Errors(ps) : j < i}

\* The probe left a value and came back to it.
Returned(ps) ==
  \E i, j, k \in Fails(ps) :
    i < j /\ j < k /\ ps[i].what = ps[k].what /\ ps[j].what # ps[i].what

\* What each sentence claims of the polls it was made from, at the time elapsed.
True(claim, ps, elapsed) ==
  CASE claim.says = "raised" ->
         /\ Fails(ps) = {}
         /\ claim.class # NoClass =>
              \A i \in DOMAIN ps : ClassOf[ps[i].what] = claim.class
         /\ claim.class = NoClass =>
              Cardinality({ClassOf[ps[i].what] : i \in DOMAIN ps}) > 1
    [] claim.says \in {"recovered", "intermittent"} ->
         /\ claim.raised = Cardinality(Errors(ps))
         /\ claim.says = "recovered" <=> ps[Len(ps)].outcome = "fail"
         /\ claim.trend.says = "incomparable" <=> Unkeyed \in Values(ps)
         /\ claim.trend.says = "changed" =>
              claim.trend.times = Cardinality(SinceRaised(ps))
    [] claim.says = "incomparable" -> Errors(ps) = {} /\ Unkeyed \in Values(ps)
    [] claim.says = "unchanged" -> Errors(ps) = {} /\ Cardinality(Values(ps)) = 1
    [] claim.says = "cycles" ->
         /\ Returned(ps)
         /\ claim.states <= Cardinality(Values(ps))
         /\ claim.all => claim.states = Cardinality(Values(ps))
    [] claim.says = "changed" ->
         /\ claim.times = Cardinality(Moves(ps))
         /\ \E i \in Moves(ps) :
              (\A j \in Moves(ps) : j <= i) /\ claim.ago = elapsed - ps[i].at

\* Poll i starts a run of polls that do not differ.
StartsRun(ps, i) ==
  \/ i = 1
  \/ ps[i].what = Unkeyed
  \/ ps[i - 1].outcome # ps[i].outcome
  \/ ps[i - 1].what # ps[i].what

Starts(ps) == {i \in DOMAIN ps : StartsRun(ps, i)}

\* The run that starts at i: one sample, with the number of its polls.
RunAt(ps, i) ==
  [outcome |-> ps[i].outcome, what |-> ps[i].what,
   repeats |-> Cardinality({j \in DOMAIN ps :
                 j >= i /\ \A k \in i + 1 .. j : ~StartsRun(ps, k)})]

RunsOf(ps) ==
  [n \in 1 .. Cardinality(Starts(ps)) |->
    RunAt(ps, CHOOSE i \in Starts(ps) :
                Cardinality({j \in Starts(ps) : j <= i}) = n)]

\* The first HeadLimit runs and the last TailLimit of the others.
Window(ps) ==
  LET runs == RunsOf(ps)
      rest == SubSeq(runs, HeadLimit + 1, Len(runs))
      skip == IF Len(rest) > TailLimit THEN Len(rest) - TailLimit ELSE 0
  IN [head |-> SubSeq(runs, 1, IF Len(runs) < HeadLimit THEN Len(runs) ELSE HeadLimit),
      tail |-> SubSeq(rest, skip + 1, Len(rest)),
      dropped |-> skip]
=============================================================================
