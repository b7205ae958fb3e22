------------------------------ MODULE PassLog ------------------------------
(***************************************************************************)
(* What a log_passes() block is told (assertpy2/_passes.py, with           *)
(* _LogPasses, _scoped_builder and _observe of assertpy.py and the attempts*)
(* of the polls in async_assertions.py).                                   *)
(*                                                                         *)
(* A task runs user code in a context of its own, three variables that a   *)
(* task started inside it copies: the entry of a block its passes go to,   *)
(* the assertion being observed, the poll attempt that holds passes back.  *)
(* A task's stack is the part of its Python stack that matters here:       *)
(*   call     an observed assertion, or a marker that keeps one quiet      *)
(*   attempt  a poll attempt that holds passes                             *)
(*   tell     a callback or a logger being handed a pass                   *)
(*   flush    a passed attempt handing on what it held                     *)
(* Steps of different tasks interleave where user code runs: in the body   *)
(* of an assertion, in a probe, in a callback.  What one operation does    *)
(* between two such places is one step.  An exception leaves one frame at a*)
(* time (Raise), so every choice of where it is caught is covered.         *)
(*                                                                         *)
(* A builder is the entry it reports to; 0 is a builder of the plain class,*)
(* and entry, call and attempt 0 stand for None.                           *)
(***************************************************************************)
EXTENDS Integers, Sequences, FiniteSets, SequencesExt

CONSTANTS
  Task,          \* threads, asyncio tasks, runs of a copied context
  MaxEntries,    \* bound: entries into blocks
  MaxShared,     \* bound: entries into blocks where several tasks run, past what MaxBusy allows
  MaxBusy,       \* bound: what is asked or polled where several tasks run and there are more entries
  MaxCalls,      \* bound: observed assertions
  MaxQuiet,      \* bound: a quiet stretch begins below so many markers, while one task runs
  MaxAttempts    \* bound: poll attempts begun

ASSUME PassLogBounds == {MaxEntries, MaxShared, MaxBusy, MaxCalls, MaxQuiet, MaxAttempts} \subseteq Nat

VARIABLES
  started,     \* the tasks that run
  own,         \* the entries each task has made and not left
  ctx,         \* the context of each
  stack,       \* the frames of each, innermost first
  entries,     \* PassScope objects, in the order they were made
  calls,       \* Observed objects
  attempts,    \* Held objects
  openBlocks,  \* _passes.open_blocks
  factory,     \* _made_builder
  builders,    \* the builders made so far, by where they report
  reported     \* the calls whose pass was handed to a callback or a logger

vars == <<started, own, ctx, stack, entries, calls, attempts, openBlocks,
          factory, builders, reported>>

None == 0
Plain == 0
EntryIds == 1..MaxEntries

-----------------------------------------------------------------------------
(* Reading the context                                                     *)

\* The order entries and attempts began in.
NextBirth == Len(entries) + Len(attempts) + 1

ActiveScope(c) ==
  IF c.scope # None /\ entries[c.scope].active THEN c.scope ELSE None

CurrentCall(c) ==
  IF c.observed # None /\ calls[c.observed].alive THEN c.observed ELSE None

LiveAttempt(c) ==
  IF c.held # None /\ attempts[c.held].alive THEN c.held ELSE None

\* A slip: the attempt holds the passes of its own entry only.
HoldingItsEntry(c, e) ==
  LET a == LiveAttempt(c)
  IN IF a = None \/ attempts[a].scope # e THEN None ELSE a

Holding(c, e) ==
  LET a == LiveAttempt(c)
  IN IF a = None \/ entries[e].born > attempts[a].born THEN None ELSE a

Wants(c, e) ==
  /\ entries[e].active
  /\ LET a == Holding(c, e) IN
     IF a = None THEN entries[e].wants
     ELSE attempts[a].scope = e => attempts[a].wanted

Top(t) == Head(stack[t])
AtTop(t, kind) == stack[t] # <<>> /\ Top(t).kind = kind
UserRuns(t) == t \in started /\ ~AtTop(t, "flush")
\* The bounds are closer where tasks share, and a second one joins within them.
Alone == Cardinality(started) = 1
Asked == Len(calls) + Len(attempts)
MayEnter == Len(entries) < MaxEntries /\ (Alone \/ Len(entries) < MaxShared \/ Asked <= MaxBusy)
MayJoin == Len(entries) <= MaxShared \/ Asked <= MaxBusy
MayAsk == Alone \/ Len(entries) <= MaxShared \/ Asked < MaxBusy
Pushed(t, f) == [stack EXCEPT ![t] = <<f>> \o @]

-----------------------------------------------------------------------------
(* Tasks, blocks and builders                                              *)

Start(t) ==
  /\ t \notin started /\ MayJoin
  /\ started' = started \cup {t}
  /\ UNCHANGED <<own, ctx, stack, entries, calls, attempts, openBlocks,
                 factory, builders, reported>>

Fork(t, u) ==
  /\ UserRuns(t) /\ u \notin started /\ MayJoin
  /\ started' = started \cup {u}
  /\ ctx' = [ctx EXCEPT ![u] = ctx[t]]
  /\ UNCHANGED <<own, stack, entries, calls, attempts, openBlocks, factory,
                 builders, reported>>

FactoryFor(open) == IF open > 0 THEN "scoped" ELSE "plain"

Enter(t, wants) ==
  /\ UserRuns(t) /\ MayEnter
  /\ openBlocks' = openBlocks + 1
  /\ factory' = FactoryFor(openBlocks')
  /\ entries' = Append(entries, [active |-> TRUE, wants |-> wants,
                                 born |-> NextBirth, previous |-> ctx[t].scope])
  /\ ctx' = [ctx EXCEPT ![t].scope = Len(entries')]
  /\ own' = [own EXCEPT ![t] = @ + 1]
  /\ UNCHANGED <<started, stack, calls, attempts, builders, reported>>

\* A slip: a task that leaves its last block puts the plain builder back, whoever else is in one.
LeaveByOwn(t) ==
  /\ UserRuns(t) /\ own[t] > 0
  /\ entries' = [entries EXCEPT ![ctx[t].scope].active = FALSE]
  /\ ctx' = [ctx EXCEPT ![t].scope = entries[@].previous]
  /\ openBlocks' = openBlocks - 1
  /\ factory' = FactoryFor(own[t] - 1)
  /\ own' = [own EXCEPT ![t] = @ - 1]
  /\ UNCHANGED <<started, stack, calls, attempts, builders, reported>>

Leave(t) ==
  /\ UserRuns(t) /\ own[t] > 0
  /\ entries' = [entries EXCEPT ![ctx[t].scope].active = FALSE]
  /\ ctx' = [ctx EXCEPT ![t].scope = entries[@].previous]
  /\ openBlocks' = openBlocks - 1
  /\ factory' = FactoryFor(openBlocks')
  /\ own' = [own EXCEPT ![t] = @ - 1]
  /\ UNCHANGED <<started, stack, calls, attempts, builders, reported>>

(* assert_that().  A pivot of a builder reports where its parent does, so  *)
(* it is the same builder here.                                            *)
Make(t) ==
  /\ UserRuns(t)
  /\ builders' = builders \cup
       {IF factory = "scoped" THEN ActiveScope(ctx[t]) ELSE Plain}
  /\ UNCHANGED <<started, own, ctx, stack, entries, calls, attempts, openBlocks,
                 factory, reported>>

-----------------------------------------------------------------------------
(* An observed assertion                                                   *)

\* The attempts on the task's own stack that a pass into e depends on.
AttemptsAround(t, e) ==
  {a \in {stack[t][i].id : i \in {j \in DOMAIN stack[t] : stack[t][j].kind = "attempt"}} :
     entries[e].born < attempts[a].born}

Observe(t, marker) ==
  /\ calls' = Append(calls, marker)
  /\ ctx' = [ctx EXCEPT ![t].observed = Len(calls')]
  /\ stack' = Pushed(t, [kind |-> "call", id |-> Len(calls'), old |-> ctx[t].observed])
  /\ UNCHANGED <<started, own, entries, attempts, openBlocks, factory, builders,
                 reported>>

AssertionsBegun == Cardinality({c \in DOMAIN calls : calls[c].entry # None})

(* An assertion that is not observed, asked inside another or of a builder *)
(* that reports nowhere, changes nothing here by itself.                   *)
Begin(t, e) ==
  /\ UserRuns(t) /\ AssertionsBegun < MaxCalls /\ MayAsk
  /\ CurrentCall(ctx[t]) = None
  /\ entries[e].active
  /\ Observe(t, [alive |-> TRUE, failed |-> FALSE, passed |-> FALSE, entry |-> e,
                 by |-> t, under |-> AttemptsAround(t, e)])

Quiet(t) ==
  [alive |-> TRUE, failed |-> FALSE, passed |-> FALSE, entry |-> None, by |-> t,
   under |-> {}]

(* A stretch under a marker that reports nothing: an assertion asked for   *)
(* its verdict by check() or not_, a step _replay_quietly() runs again.    *)
BeginQuietly(t) ==
  /\ UserRuns(t) /\ Alone /\ Len(calls) < MaxQuiet
  /\ CurrentCall(ctx[t]) = None /\ openBlocks > 0
  /\ Observe(t, Quiet(t))

\* A failure is delivered without raising: collected or logged.
MarkFailed(t) ==
  /\ UserRuns(t) /\ openBlocks > 0
  /\ LET c == CurrentCall(ctx[t]) IN
     /\ c # None
     /\ calls' = [calls EXCEPT ![c].failed = TRUE]
  /\ UNCHANGED <<started, own, ctx, stack, entries, attempts, openBlocks, factory,
                 builders, reported>>

\* The innermost frame is a call and ends: the marker is dead, the token reset.
CallEnds(t, marked) ==
  /\ calls' = [marked EXCEPT ![Top(t).id].alive = FALSE]
  /\ ctx' = [ctx EXCEPT ![t].observed = Top(t).old]
  /\ stack' = [stack EXCEPT ![t] = Tail(@)]

\* A slip: the callback runs with no marker over it.
TellAloud(t, c, below, marked) ==
  /\ reported' = Append(reported, c)
  /\ calls' = Append(marked, Quiet(t))
  /\ ctx' = [ctx EXCEPT ![t].observed = None]
  /\ stack' = [stack EXCEPT ![t] =
       <<[kind |-> "tell", id |-> Len(calls'), old |-> ctx[t].observed]>> \o below]

(* deliver(): the callback or the logger runs, under a marker of its own   *)
(* that keeps what it asserts quiet.                                       *)
Tell(t, c, below, marked) ==
  /\ reported' = Append(reported, c)
  /\ calls' = Append(marked, Quiet(t))
  /\ ctx' = [ctx EXCEPT ![t].observed = Len(calls')]
  /\ stack' = [stack EXCEPT ![t] =
       <<[kind |-> "tell", id |-> Len(calls'), old |-> ctx[t].observed]>> \o below]

Return(t) ==
  /\ AtTop(t, "call")
  /\ LET c == Top(t).id
         e == calls[c].entry
         toReport == e # None /\ ~calls[c].failed /\ Wants(ctx[t], e)
         a == Holding(ctx[t], e)
         marked == [calls EXCEPT ![c].passed = TRUE]
     IN \/ /\ ~toReport
           /\ CallEnds(t, calls)
           /\ UNCHANGED <<attempts, reported>>
        \/ /\ toReport /\ a # None
           /\ attempts' = [attempts EXCEPT ![a].records =
                Append(@, [call |-> c, asked |-> attempts[a].scope = e])]
           /\ CallEnds(t, marked)
           /\ UNCHANGED reported
        \/ /\ toReport /\ a = None
           /\ Tell(t, c, stack[t], marked)
           /\ UNCHANGED attempts
  /\ UNCHANGED <<started, own, entries, openBlocks, factory, builders>>

(* The callback or the logger is done.  Told by a call, the call ends with *)
(* it, and with it too when it raised.                                     *)
TellEnds(t) ==
  /\ AtTop(t, "tell")
  /\ LET below == stack[t][2]
         silenced == [calls EXCEPT ![Top(t).id].alive = FALSE]
     IN IF below.kind = "call"
        THEN /\ calls' = [silenced EXCEPT ![below.id].alive = FALSE]
             /\ ctx' = [ctx EXCEPT ![t].observed = below.old]
             /\ stack' = [stack EXCEPT ![t] = Tail(Tail(@))]
        ELSE /\ calls' = silenced
             /\ ctx' = [ctx EXCEPT ![t].observed = Top(t).old]
             /\ stack' = [stack EXCEPT ![t] = Tail(@)]
  /\ UNCHANGED <<started, own, entries, attempts, openBlocks, factory, builders,
                 reported>>

-----------------------------------------------------------------------------
(* A poll attempt                                                          *)

(* An attempt begun inside an assertion, or with no block open, holds      *)
(* nothing and changes nothing here.                                       *)
BeginAttempt(t) ==
  /\ UserRuns(t) /\ Len(attempts) < MaxAttempts /\ MayAsk
  /\ openBlocks > 0 /\ CurrentCall(ctx[t]) = None
  /\ LET outer == LiveAttempt(ctx[t])
         found == ActiveScope(ctx[t])
         held(scope, wanted) ==
           [alive |-> TRUE, end |-> "open", scope |-> scope, wanted |-> wanted,
            born |-> NextBirth, records |-> <<>>]
     IN attempts' = Append(attempts,
          IF outer # None THEN held(attempts[outer].scope, attempts[outer].wanted)
          ELSE IF found = None THEN held(None, FALSE)
          ELSE held(found, entries[found].wants))
  /\ ctx' = [ctx EXCEPT ![t].held = Len(attempts')]
  /\ stack' = Pushed(t, [kind |-> "attempt", id |-> Len(attempts'), old |-> ctx[t].held])
  /\ UNCHANGED <<started, own, entries, calls, openBlocks, factory, builders,
                 reported>>

\* A slip: the flag stays up, and only the context forgets the attempt.
ReleaseContext(t, end) ==
  /\ ctx' = [ctx EXCEPT ![t].held = Top(t).old]
  /\ attempts' = [attempts EXCEPT ![Top(t).id].end = end]

Release(t, end) ==
  /\ ctx' = [ctx EXCEPT ![t].held = Top(t).old]
  /\ attempts' = [attempts EXCEPT ![Top(t).id].alive = FALSE, ![Top(t).id].end = end]

\* The attempt holds: it is released, then flushed.
PassAttempt(t) ==
  /\ AtTop(t, "attempt")
  /\ Release(t, "passed")
  /\ stack' = [stack EXCEPT ![t] =
       <<[kind |-> "flush", id |-> Top(t).id, old |-> Top(t).old]>> \o Tail(@)]
  /\ UNCHANGED <<started, own, entries, calls, openBlocks, factory, builders,
                 reported>>

\* A slip: a poll inside another tells its passes itself.
NeverHandsOver(outer, e) == FALSE

\* A slip: the outer attempt is not asked whether it still runs.
HandsOverAnyway(outer, e) ==
  outer # None /\ entries[e].born < attempts[outer].born

\* A pass waits on in the attempt the poll ran inside, unless its block is that attempt's.
HandsOver(outer, e) ==
  /\ outer # None /\ attempts[outer].alive
  /\ entries[e].born < attempts[outer].born

\* A slip: a block left while the attempt ran is told all the same.
HeardWhenLeft(e, asked) == asked \/ entries[e].wants

\* deliver()'s two refusals: the entry has closed, its logger does not want the level.
Heard(e, asked) == entries[e].active /\ (asked \/ entries[e].wants)

\* flush(), one pass at a time; records keeps those still to hand on.
FlushStep(t) ==
  /\ AtTop(t, "flush") /\ attempts[Top(t).id].records # <<>>
  /\ LET a == Top(t).id
         outer == Top(t).old
         record == Head(attempts[a].records)
         e == calls[record.call].entry
         taken == [attempts EXCEPT ![a].records = Tail(@)]
         toOuter == HandsOver(outer, e)
         heard == Heard(e, record.asked)
     IN \/ /\ toOuter
           /\ attempts' = [taken EXCEPT ![outer].records = Append(@, record)]
           /\ UNCHANGED <<ctx, stack, calls, reported>>
        \/ /\ ~toOuter /\ heard
           /\ attempts' = taken
           /\ Tell(t, record.call, stack[t], calls)
        \/ /\ ~toOuter /\ ~heard
           /\ attempts' = taken
           /\ UNCHANGED <<ctx, stack, calls, reported>>
  /\ UNCHANGED <<started, own, entries, openBlocks, factory, builders>>

FlushEnds(t) ==
  /\ AtTop(t, "flush") /\ attempts[Top(t).id].records = <<>>
  /\ stack' = [stack EXCEPT ![t] = Tail(@)]
  /\ UNCHANGED <<started, own, ctx, entries, calls, attempts, openBlocks, factory,
                 builders, reported>>

-----------------------------------------------------------------------------
(* An exception leaves the innermost frame                                 *)

RaiseFromCall(t) ==
  /\ AtTop(t, "call")
  /\ CallEnds(t, calls)
  /\ UNCHANGED <<started, own, entries, attempts, openBlocks, factory, builders,
                 reported>>

\* The poll begins another attempt or lets the exception out: both are steps to come.
RaiseFromAttempt(t) ==
  /\ AtTop(t, "attempt")
  /\ Release(t, "failed")
  /\ stack' = [stack EXCEPT ![t] = Tail(@)]
  /\ UNCHANGED <<started, own, entries, calls, openBlocks, factory, builders,
                 reported>>

\* What the flush has not handed on yet stays with it.
RaiseFromFlush(t) ==
  /\ AtTop(t, "tell") /\ stack[t][2].kind = "flush"
  /\ calls' = [calls EXCEPT ![Top(t).id].alive = FALSE]
  /\ ctx' = [ctx EXCEPT ![t].observed = Top(t).old]
  /\ attempts' = [attempts EXCEPT ![stack[t][2].id].end = "cut"]
  /\ stack' = [stack EXCEPT ![t] = Tail(Tail(@))]
  /\ UNCHANGED <<started, own, entries, openBlocks, factory, builders, reported>>

-----------------------------------------------------------------------------
Init ==
  /\ started = {}
  /\ own = [t \in Task |-> 0]
  /\ ctx = [t \in Task |-> [scope |-> None, observed |-> None, held |-> None]]
  /\ stack = [t \in Task |-> <<>>]
  /\ entries = <<>> /\ calls = <<>> /\ attempts = <<>>
  /\ openBlocks = 0 /\ factory = "plain"
  /\ builders = {Plain}
  /\ reported = <<>>

Next ==
  \E t \in Task :
    \/ Start(t)
    \/ \E u \in Task : Fork(t, u)
    \/ \E wants \in BOOLEAN : Enter(t, wants)
    \/ Leave(t)
    \/ Make(t)
    \/ \E e \in builders \ {Plain} : Begin(t, e)
    \/ BeginQuietly(t)
    \/ MarkFailed(t)
    \/ Return(t)
    \/ TellEnds(t)
    \/ BeginAttempt(t)
    \/ PassAttempt(t)
    \/ FlushStep(t)
    \/ FlushEnds(t)
    \/ RaiseFromCall(t)
    \/ RaiseFromAttempt(t)
    \/ RaiseFromFlush(t)

Spec == Init /\ [][Next]_vars

-----------------------------------------------------------------------------
(* What the reader of the lines may count on                               *)

Frames(t) == ToSet(stack[t])
OnAStack(kinds, id) == \E t \in Task : \E f \in Frames(t) : f.kind \in kinds /\ f.id = id

(* A marker is alive exactly as long as the assertion, the callback or the *)
(* attempt it stands for runs, so a copied context never takes one that is *)
(* over for one still running, however it ended.                           *)
AliveIsRunning ==
  /\ \A c \in DOMAIN calls : calls[c].alive <=> OnAStack({"call", "tell"}, c)
  /\ \A a \in DOMAIN attempts : attempts[a].alive <=> OnAStack({"attempt"}, a)

(* While any task is in an entry, builders are made by the scoped factory, *)
(* and once the last one is left by the plain one: the count is the number *)
(* of entries still open, in whatever order tasks leave them.              *)
FactoryMatches ==
  LET open == {e \in DOMAIN entries : entries[e].active}
  IN /\ openBlocks = Cardinality(open)
     /\ factory = "scoped" <=> open # {}

(* Nothing asked inside an observed assertion, or inside a callback handed *)
(* a pass, is observed or held back as a pass of its own: one line for an  *)
(* assertion the reader wrote.                                             *)
OnlyOutermost ==
  \A t \in Task : \A i, j \in DOMAIN stack[t] :
    i < j /\ stack[t][j].kind \in {"call", "tell"} => stack[t][i].kind = "tell"

JustTold == ToSet(reported') \ ToSet(reported)

(* A pass is handed on only of an assertion that delivered no failure, and *)
(* only once every poll attempt it was asked in, entered after its block,  *)
(* is known to have passed, even when handing on what it held was cut short.*)
OnlyWhatPassed ==
  [][\A c \in JustTold :
       /\ calls[c].entry # None /\ ~calls[c].failed
       /\ \A a \in calls[c].under : attempts[a].end \in {"passed", "cut"}]_vars

(* A pass goes to the entry its builder was made in, while that entry is   *)
(* open and only if it wants one: not to a block left during the assertion,*)
(* or during the attempt that held the pass.                               *)
IntoOpenEntry ==
  [][\A c \in JustTold :
       LET e == calls[c].entry IN entries[e].active /\ entries[e].wants]_vars

BornInAnAttempt(t) ==
  LET mine == {i \in DOMAIN stack[t] : stack[t][i].kind = "attempt"}
  IN IF mine = {} THEN ctx[t].held # None
     ELSE \E i \in mine : (\A j \in mine : j <= i) /\ stack[t][i].old # None

(* The passes of one task into one entry are told in the order they were   *)
(* asked, each once, through every nesting of polls.  A task started inside*)
(* an attempt shares it, and may overtake what the attempt holds.          *)
InOrderOnce ==
  \A i, j \in DOMAIN reported :
    LET c == calls[reported[i]] d == calls[reported[j]] IN
    i < j /\ c.by = d.by /\ c.entry = d.entry /\ ~BornInAnAttempt(c.by)
      => reported[i] < reported[j]

(* No pass is lost: one that was to be reported was told, or waits in an   *)
(* attempt that still runs or flushes, or its attempt failed or was cut    *)
(* short by a callback, or its entry has closed or does not want it.       *)
Accounted ==
  \A c \in DOMAIN calls : calls[c].passed =>
    \/ c \in ToSet(reported)
    \/ ~entries[calls[c].entry].active \/ ~entries[calls[c].entry].wants
    \/ \E a \in DOMAIN attempts :
         /\ c \in {attempts[a].records[i].call : i \in DOMAIN attempts[a].records}
         /\ \/ attempts[a].end \in {"failed", "cut"}
            \/ OnAStack({"attempt", "flush"}, a)

=============================================================================
