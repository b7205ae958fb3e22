------------------------------- MODULE Verdict -------------------------------
(***************************************************************************)
(* Negation and verdicts: not_, check(), pivots and the delivery of a      *)
(* failure (NegatedBuilder, CheckBuilder and AssertionBuilder in           *)
(* assertpy2/assertpy.py).                                                 *)
(*                                                                         *)
(* Neither not_ nor check() catches an exception to learn what an          *)
(* assertion decided.  They put the builder in check mode, where a failure *)
(* is written into a field instead of raised, run the assertion, read the  *)
(* field and put everything back.  The assertion may be an extension: code *)
(* of the user's that asserts on the same builder, starts verdict runs of  *)
(* its own inside this one, pivots to new builders and keeps them, catches *)
(* exceptions or lets them pass.  A pivot made in a run shares the fields  *)
(* of the builder that holds the run.                                      *)
(*                                                                         *)
(* The model is one thread.  A frame of stack is one call of _verdict() or *)
(* _checked() with its local variables; between its Begin and its End any  *)
(* code may run, on any builder it can reach.                              *)
(***************************************************************************)
EXTENDS Naturals, Sequences

CONSTANTS
  Builder,    \* AssertionBuilder objects
  Root,       \* the one assert_that() made
  RootKind,   \* the modes Root may have been made in
  NoOne,      \* no builder
  MaxDepth    \* bound: verdict runs inside one another

Kind == {"strict", "soft", "warn"}

ASSUME VerdictConstants ==
  /\ Root \in Builder
  /\ NoOne \notin Builder
  /\ RootKind \subseteq Kind
  /\ MaxDepth \in Nat

VARIABLES
  made,       \* the builders that exist
  obj,        \* the fields of each builder
  stack,      \* the locals of each verdict run going on, innermost last, and as history the first failure in it
  flying,     \* whether an exception is on its way out
  mode,       \* history: the mode Root was made in
  listening,  \* whether the soft block of the context still listens
  said        \* how the last step spoke to the caller, if it did

vars == <<made, obj, stack, flying, mode, listening, said>>

-----------------------------------------------------------------------------

\* A failure is "plain", or "missing" when it is on something the question presupposes (_unmet()).  sink is
\* _check_sink, unmet is _unmet_prerequisite, pivots is _run_pivots.
NewBuilder(k) == [kind |-> k, answering |-> FALSE, sink |-> "none",
                  unmet |-> "none", answersTo |-> NoOne, pivots |-> {}]

\* _verdict_holder(), in the builders o
Holder(o, b) == IF o[b].answersTo = NoOne THEN b ELSE o[b].answersTo

Running == ~flying

Top == stack[Len(stack)]

Outer == SubSeq(stack, 1, Len(stack) - 1)

\* The runs of s that read the fields of holder h.
RunsOf(s, h) == {i \in DOMAIN s : s[i].holder = h}

\* History: b failed in o, so the innermost run that b answers to has its first.
Heard(s, o, b, what) ==
  [i \in DOMAIN s |->
    IF /\ o[b].kind = "check"
       /\ i \in RunsOf(s, Holder(o, b))
       /\ \A j \in RunsOf(s, Holder(o, b)) : j <= i
       /\ s[i].first = "none"
    THEN [s[i] EXCEPT !.first = what]
    ELSE s[i]]

-----------------------------------------------------------------------------

\* A slip: the last failure wins, not the first.
DeliveredLast(o, b, what) ==
  IF o[b].kind = "check" THEN [o EXCEPT ![Holder(o, b)].sink = what] ELSE o

\* _deliver() and _negated_check(): what a failure on b leaves in the builders ...
Delivered(o, b, what) ==
  IF o[b].kind = "check" /\ o[Holder(o, b)].sink = "none"
  THEN [o EXCEPT ![Holder(o, b)].sink = what]
  ELSE o

\* ... and how the caller hears of it.
Spoken(o, b) ==
  CASE o[b].kind = "check" -> "nothing"
    [] o[b].kind = "warn" -> "warned"
    [] o[b].kind = "soft" /\ listening -> "collected"
    [] OTHER -> "raised"

Speak(way) == said' = way /\ flying' = (way = "raised")

\* A slip: a pivot stays in check mode when the run is over.
ReleasedNever(o, h) == o

\* _release_pivots(): the pivots of the run get the mode their holder is back in.
Released(o, h) ==
  [b \in Builder |->
    IF b \in o[h].pivots
    THEN [o[b] EXCEPT !.kind = o[h].kind, !.answersTo = NoOne,
                      !.answering = o[h].answering]
    ELSE IF b = h THEN [o[b] EXCEPT !.pivots = {}] ELSE o[b]]

\* The finally clause of run f.
Restored(f) ==
  LET back == [obj EXCEPT ![f.on].kind = f.kind,
                          ![f.on].answering = IF f.how = "not" THEN f.answering ELSE @,
                          ![f.holder].sink = f.sink,
                          ![f.holder].unmet = f.unmet]
  IN IF f.kind # "check" THEN Released(back, f.holder) ELSE back

-----------------------------------------------------------------------------

Init ==
  /\ made = {Root}
  /\ mode \in RootKind
  /\ obj = [b \in Builder |-> NewBuilder(mode)]
  /\ stack = <<>>
  /\ flying = FALSE
  /\ listening \in BOOLEAN
  /\ said = "nothing"

\* An assertion on b fails.
Fails(b) ==
  /\ Running
  /\ b \in made
  /\ obj' = Delivered(obj, b, "plain")
  /\ stack' = Heard(stack, obj, b, "plain")
  /\ Speak(Spoken(obj, b))
  /\ UNCHANGED <<made, listening, mode>>

\* A slip: a prerequisite is noted whether or not it failed first.
LacksNotingEvery(b) ==
  /\ Running
  /\ b \in made
  /\ obj' = IF obj[b].kind = "check"
            THEN [Delivered(obj, b, "missing") EXCEPT ![Holder(obj, b)].unmet = "missing"]
            ELSE obj
  /\ stack' = Heard(stack, obj, b, "missing")
  /\ Speak(Spoken(obj, b))
  /\ UNCHANGED <<made, listening, mode>>

\* _unmet(): it fails on what the question presupposes.  Raised, it notes nothing.
Lacks(b) ==
  LET h == Holder(obj, b)
      done == Delivered(obj, b, "missing")
  IN /\ Running
     /\ b \in made
     /\ obj' = IF obj[h].sink = "none" /\ Spoken(obj, b) # "raised"
               THEN [done EXCEPT ![h].unmet = IF done[h].sink = "none" THEN "none" ELSE "missing"]
               ELSE done
     /\ stack' = Heard(stack, obj, b, "missing")
     /\ Speak(Spoken(obj, b))
     /\ UNCHANGED <<made, listening, mode>>

\* builder(..., kind=self.kind): b pivots to the new builder p.
Pivot(b, p) ==
  LET h == Holder(obj, b)
      new == NewBuilder(obj[b].kind)
  IN /\ Running
     /\ b \in made /\ p \notin made
     /\ made' = made \cup {p}
     /\ obj' = IF obj[b].kind = "check"
               THEN [obj EXCEPT ![p] = [new EXCEPT !.answersTo = h,
                                                   !.answering = obj[b].answering],
                                ![h].pivots = @ \cup {p}]
               ELSE [obj EXCEPT ![p] = new]
     /\ said' = "nothing"
     /\ UNCHANGED <<stack, flying, listening, mode>>

\* A verdict run on b starts.
Begin(how, b) ==
  LET h == Holder(obj, b)
  IN /\ Running
     /\ b \in made
     /\ Len(stack) < MaxDepth
     /\ stack' = Append(stack,
          [how |-> how, on |-> b, holder |-> h, kind |-> obj[b].kind,
           answering |-> obj[b].answering, sink |-> obj[h].sink,
           unmet |-> obj[h].unmet, first |-> "none"])
     /\ said' = "nothing"
     /\ UNCHANGED <<made, flying, listening, mode>>

BeginNot(b) ==
  /\ Begin("not", b)
  /\ obj' = [obj EXCEPT ![b].kind = "check", ![b].answering = TRUE,
                        ![Holder(obj, b)].sink = "none",
                        ![Holder(obj, b)].unmet = "none"]

BeginCheck(b) ==
  /\ Begin("check", b)
  /\ obj' = [obj EXCEPT ![b].kind = "check", ![Holder(obj, b)].sink = "none"]

\* check() hands the verdict back; nobody fails.
EndCheck ==
  /\ Running
  /\ stack # <<>> /\ Top.how = "check"
  /\ obj' = Restored(Top)
  /\ stack' = Outer
  /\ said' = "nothing"
  /\ UNCHANGED <<made, flying, listening, mode>>

\* A slip: whatever failed is inverted, the missing prerequisite too.
EndNotInvertingAll ==
  /\ Running
  /\ stack # <<>> /\ Top.how = "not"
  /\ LET back == Restored(Top)
     IN IF obj[Top.holder].sink # "none"
        THEN /\ obj' = back /\ stack' = Outer /\ Speak("nothing")
        ELSE /\ obj' = Delivered(back, Top.on, "plain")
             /\ stack' = Heard(Outer, back, Top.on, "plain")
             /\ Speak(Spoken(back, Top.on))
  /\ UNCHANGED <<made, listening, mode>>

\* not_ returns: an unmet prerequisite is passed on as it stands, an ordinary
\* failure is a pass, and an assertion that held is a failure of the negation.
EndNot ==
  /\ Running
  /\ stack # <<>> /\ Top.how = "not"
  /\ LET f == Top
         back == Restored(f)
         passing == IF f.kind = "check" /\ f.sink = "none"
                    THEN [back EXCEPT ![f.holder].unmet = "missing"]
                    ELSE back
     IN \/ /\ obj[f.holder].unmet # "none"
           /\ obj' = Delivered(passing, f.on, "missing")
           /\ stack' = Heard(Outer, back, f.on, "missing")
           /\ Speak(Spoken(back, f.on))
        \/ /\ obj[f.holder].unmet = "none" /\ obj[f.holder].sink # "none"
           /\ obj' = back
           /\ stack' = Outer
           /\ Speak("nothing")
        \/ /\ obj[f.holder].unmet = "none" /\ obj[f.holder].sink = "none"
           /\ obj' = Delivered(back, f.on, "plain")
           /\ stack' = Heard(Outer, back, f.on, "plain")
           /\ Speak(Spoken(back, f.on))
  /\ UNCHANGED <<made, listening, mode>>

\* A slip: without the finally clause.
UnwindUnrestored ==
  /\ flying
  /\ stack # <<>>
  /\ stack' = Outer
  /\ said' = "nothing"
  /\ UNCHANGED <<made, obj, flying, listening, mode>>

\* An exception passes through the innermost run, which only cleans up.
Unwind ==
  /\ flying
  /\ stack # <<>>
  /\ obj' = Restored(Top)
  /\ stack' = Outer
  /\ said' = "nothing"
  /\ UNCHANGED <<made, flying, listening, mode>>

-----------------------------------------------------------------------------

\* The code under a run raises on its own account, and code around catches.
Throw ==
  /\ Running
  /\ stack # <<>>
  /\ flying' = TRUE
  /\ said' = "nothing"
  /\ UNCHANGED <<made, obj, stack, listening, mode>>

Catch ==
  /\ flying
  /\ flying' = FALSE
  /\ said' = "nothing"
  /\ UNCHANGED <<made, obj, stack, listening, mode>>

\* The soft block ends between two assertions.
BlockCloses ==
  /\ stack = <<>> /\ listening
  /\ listening' = FALSE
  /\ said' = "nothing"
  /\ UNCHANGED <<made, obj, stack, flying, mode>>

Next ==
  \/ \E b \in Builder : Fails(b) \/ Lacks(b) \/ BeginNot(b) \/ BeginCheck(b)
  \/ \E b, p \in Builder : Pivot(b, p)
  \/ EndCheck \/ EndNot \/ Unwind
  \/ Throw \/ Catch \/ BlockCloses

Spec == Init /\ [][Next]_vars

-----------------------------------------------------------------------------
(* Properties *)

\* What run i has in the fields it shares: the live field while it is the
\* innermost run of its holder, the copy the next one saved otherwise.
SinkOf(i) ==
  LET later == {j \in RunsOf(stack, stack[i].holder) : j > i}
  IN IF later = {} THEN obj[stack[i].holder].sink
     ELSE stack[CHOOSE j \in later : \A k \in later : j <= k].sink

\* However runs nest, share a holder, pivot, catch or are cut short, what a run
\* has in its sink is the first failure that happened in it, which is the one a
\* strict run stops at.
SinkIsFirst == \A i \in DOMAIN stack : SinkOf(i) = stack[i].first

\* A negation has noted an unmet prerequisite exactly when that was its first
\* failure: one missed after an ordinary failure was never reached.
UnmetIsFirst ==
  \A i \in DOMAIN stack :
    ( /\ stack[i].how = "not"
      /\ \A j \in RunsOf(stack, stack[i].holder) : j <= i )
    => (obj[stack[i].holder].unmet = "missing" <=> stack[i].first = "missing")

\* Each run is told of the first failure that happened in it, and a negation
\* whether that was an unmet prerequisite, which it must not invert.
FirstIsKept == SinkIsFirst /\ UnmetIsFirst

\* A builder is in check mode, where failing makes no noise, only while a run
\* that reads the field its failures go to is still going on.
SilentOnlyInRun ==
  \A b \in made : obj[b].kind = "check" <=> RunsOf(stack, Holder(obj, b)) # {}

\* Once every run is over nothing of them is left, whether they ended or were
\* cut short: every builder is heard in the mode of the first again, pivots made
\* in the runs too; no verdict that a later run would take for its own, and no
\* pivot that still answers to another builder.
NothingLeft ==
  stack = <<>> =>
    \A b \in made :
      /\ obj[b].kind = mode
      /\ obj[b].sink = "none" /\ obj[b].unmet = "none"
      /\ obj[b].answersTo = NoOne /\ obj[b].pivots = {} /\ ~obj[b].answering

\* A negation that ends says nothing, to the caller or to the run around it,
\* just when its assertion failed with an answer.  What it lacked a prerequisite
\* for, and what held, is heard: aloud, or by the enclosing run.
NegationAnswers ==
  [][ EndNot =>
        LET around == RunsOf(Outer, Holder(obj', Top.on))
            quiet == said' = "nothing" /\ \A i \in DOMAIN Outer : stack'[i] = stack[i]
        IN IF Top.first = "plain"
           THEN quiet
           ELSE said' # "nothing" \/ \E i \in around : stack'[i].first # "none" ]_vars

\* A builder is marked as answering another assertion, which keeps a snapshot
\* from being recorded through it, only while some negation runs.
AnsweringOnlyUnderNot ==
  \A b \in made : obj[b].answering => \E i \in DOMAIN stack : stack[i].how = "not"

=============================================================================
