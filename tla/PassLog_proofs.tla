--------------------------- MODULE PassLog_proofs ---------------------------
(***************************************************************************)
(* For any tasks and any nesting of blocks, polls, assertions and          *)
(* callbacks: a marker is alive as long as what it stands for runs, a pass *)
(* is told only of what passed, to an entry that is open and wants it,     *)
(* none is lost, and those of a task are told in the order they were asked.*)
(***************************************************************************)
EXTENDS PassLogInvariant_proofs

-----------------------------------------------------------------------------
(* The steps of the model *)

Sound == Inv(stack, ctx, entries, calls, attempts)
SoundAfter == Inv(stack', ctx', entries', calls', attempts')

\* What runs with no assertion observed runs in attempts only.
LEMMA Unobserved ==
  ASSUME Sound, NEW t \in Task, UserRuns(t), CurrentCall(ctx[t]) = None
  PROVE  OnlyAttempts(stack[t])
<1>1. /\ stack[t] \in Seq(FrameT) /\ Shaped(stack[t]) /\ Watched(stack[t], ctx[t])
      /\ FrameNames(stack, calls, attempts) /\ Marked(stack, calls)
  BY DEF Sound, Inv, Typed, Struct, Stacked, Named
<1> SUFFICES ASSUME NEW i \in DOMAIN stack[t] PROVE stack[t][i].kind = "attempt"
  BY DEF OnlyAttempts
<1>2. DOMAIN stack[t] = 1..Len(stack[t]) /\ Len(stack[t]) \in Nat
  BY <1>1, Lengths
<1>3. 1 \in DOMAIN stack[t]
  BY <1>2
<1>4. stack[t][1] \in FrameT /\ stack[t] # <<>> /\ Top(t) = stack[t][1]
  BY <1>1, <1>3, Lengths DEF Top
<1>5. stack[t][1].kind \notin Marks
  <2> SUFFICES ASSUME stack[t][1].kind \in Marks PROVE FALSE
    OBVIOUS
  <2>1. ctx[t].observed = stack[t][1].id /\ stack[t][1].id \in DOMAIN calls
    BY <1>1, <1>3 DEF Watched, FrameNames
  <2>2. calls[stack[t][1].id].alive
    BY <2>1, <1>1, <1>3 DEF Marked, On
  <2>3. stack[t][1].id # None
    <3>1. calls \in Seq(CallT)
      BY DEF Sound, Inv, Typed
    <3> QED
      BY <3>1, <2>1, Lengths DEF None
  <2> QED
    BY <2>1, <2>2, <2>3 DEF CurrentCall
<1>6. stack[t][1].kind # "flush"
  BY <1>4 DEF UserRuns, AtTop
<1>7. stack[t][1].kind = "attempt"
  BY <1>4, <1>5, <1>6 DEF FrameT, Marks, Polls
<1> QED
  BY <1>1, <1>3, <1>5, <1>7, Beneath

\* The innermost frame.
LEMMA Innermost ==
  ASSUME Sound, NEW t \in Task, NEW kind, AtTop(t, kind)
  PROVE  /\ 1 \in DOMAIN stack[t] /\ Top(t) = stack[t][1] /\ stack[t][1].kind = kind /\ stack[t] # <<>>
         /\ stack[t][1] \in FrameT /\ Shaped(stack[t]) /\ Handed(stack[t], ctx[t])
         /\ kind \in Marks => stack[t][1].id \in DOMAIN calls /\ stack[t][1].old \in OrNone(calls)
         /\ kind \in Polls => stack[t][1].id \in DOMAIN attempts /\ stack[t][1].old \in OrNone(attempts)
<1>1. /\ stack[t] \in Seq(FrameT) /\ Shaped(stack[t]) /\ Handed(stack[t], ctx[t])
      /\ FrameNames(stack, calls, attempts) /\ stack[t] # <<>>
  BY DEF Sound, Inv, Typed, Struct, Stacked, Named, AtTop
<1>2. 1 \in DOMAIN stack[t] /\ Head(stack[t]) = stack[t][1]
  BY <1>1
<1> QED
  BY <1>1, <1>2, Lengths DEF AtTop, Top, FrameNames

LEMMA ObserveStep ==
  ASSUME Sound, NEW t \in Task, NEW marker, Markable(t, "call", marker, stack, entries, attempts), Observe(t, marker)
  PROVE  SoundAfter
<1>1. Len(calls') = Len(calls) + 1
  BY Extending DEF Sound, Inv, Typed, Markable, Observe
<1>2. Inv([stack EXCEPT ![t] = <<[kind |-> "call", id |-> Len(calls) + 1, old |-> ctx[t].observed]>> \o @],
          Watching(ctx, t, Len(calls) + 1), entries, Append(calls, marker), attempts)
  BY BeginMark DEF Sound
<1> QED
  BY <1>1, <1>2 DEF Observe, Pushed, Watching, SoundAfter

LEMMA BeginStep ==
  ASSUME Sound, NEW t \in Task, NEW e, e \in DOMAIN entries, Begin(t, e)
  PROVE  SoundAfter
<1> DEFINE around == AttemptsAround(t, e)
           marker == [alive |-> TRUE, failed |-> FALSE, passed |-> FALSE, entry |-> e, by |-> t, under |-> around]
<1>1. OnlyAttempts(stack[t])
  BY Unobserved DEF Begin
<1>2. ASSUME NEW y \in around
      PROVE  /\ entries[e].born < attempts[y].born /\ y \in DOMAIN attempts
             /\ \E j \in DOMAIN stack[t] : stack[t][j].kind = "attempt" /\ stack[t][j].id = y
  <2>1. PICK j \in DOMAIN stack[t] : stack[t][j].kind = "attempt" /\ stack[t][j].id = y
    BY DEF AttemptsAround
  <2>2. y \in DOMAIN attempts
    BY <2>1 DEF Sound, Inv, Named, FrameNames, Polls
  <2> QED
    BY <2>1, <2>2 DEF AttemptsAround
<1>3. DOMAIN attempts \subseteq Nat /\ e \in Nat /\ e # None
  <2>1. attempts \in Seq(AttemptT) /\ entries \in Seq(EntryT)
    BY DEF Sound, Inv, Typed
  <2> QED
    BY <2>1, Lengths DEF None
<1>4. around \in SUBSET Nat /\ around \subseteq DOMAIN attempts
  BY <1>2, <1>3
<1> HIDE DEF around
<1>5. marker \in CallT /\ marker.alive /\ ~marker.passed /\ marker.entry = e /\ marker.under = around /\ marker.by = t
  BY <1>3, <1>4 DEF CallT
<1> HIDE DEF marker
<1>6. Leans(marker, t, stack, entries, attempts)
  BY <1>2, <1>5 DEF Leans
<1>7. Markable(t, "call", marker, stack, entries, attempts)
  BY <1>1, <1>3, <1>4, <1>5, <1>6 DEF Markable, OrNone, OnlyAttempts
<1>8. Observe(t, marker)
  BY DEF Begin, marker, around
<1> QED
  BY <1>7, <1>8, ObserveStep

LEMMA Quieting ==
  ASSUME NEW t \in Task
  PROVE  /\ Quiet(t) \in CallT /\ Quiet(t).alive /\ ~Quiet(t).passed /\ Quiet(t).entry = None
         /\ Quiet(t).under = {} /\ Quiet(t).by = t
BY DEF Quiet, CallT, None

LEMMA BeginQuietlyStep ==
  ASSUME Sound, NEW t \in Task, BeginQuietly(t)
  PROVE  SoundAfter
<1>1. OnlyAttempts(stack[t])
  BY Unobserved DEF BeginQuietly
<1>2. Markable(t, "call", Quiet(t), stack, entries, attempts)
  BY <1>1, Quieting DEF Markable, Leans, OrNone, OnlyAttempts
<1> QED
  BY <1>2, ObserveStep DEF BeginQuietly

LEMMA MarkFailedStep ==
  ASSUME Sound, NEW t \in Task, MarkFailed(t)
  PROVE  SoundAfter
<1> DEFINE c == CurrentCall(ctx[t])
<1>1. c # None /\ c = ctx[t].observed /\ calls[c].alive
  BY DEF MarkFailed, CurrentCall
<1>2. c \in DOMAIN calls
  BY <1>1 DEF Sound, Inv, Named, ContextNames, OrNone
<1>3. calls' = Blamed(calls, c)
  BY DEF MarkFailed, Blamed
<1>4. Inv(stack, ctx, entries, Blamed(calls, c), attempts)
  <2> HIDE DEF c
  <2> QED
    BY <1>1, <1>2, Blaming DEF Sound
<1> QED
  BY <1>3, <1>4 DEF MarkFailed, SoundAfter

\* A call ends that has told no one.
LEMMA CallOver ==
  ASSUME NEW cs, Inv(stack, ctx, entries, cs, attempts), NEW t \in Task, 1 \in DOMAIN stack[t],
         stack[t][1].kind = "call", Top(t) = stack[t][1], CallEnds(t, cs)
  PROVE  /\ Inv(stack', ctx', entries, calls', attempts) /\ calls' = Silenced(cs, stack[t][1].id)
         /\ stack' = [stack EXCEPT ![t] = Tail(@)]
<1> DEFINE o == stack[t][1].old
<1>1. o \in OrNone(cs)
  BY DEF Inv, Named, FrameNames, Marks
<1>2. 2 \in DOMAIN stack[t] => stack[t][2].kind \notin Marks
  <2>1. Shaped(stack[t])
    BY DEF Inv, Struct, Stacked
  <2> QED
    BY <2>1 DEF Shaped, Marks
<1>3. Inv([stack EXCEPT ![t] = Tail(@)], Watching(ctx, t, o), entries, Silenced(cs, stack[t][1].id), attempts)
  <2> HIDE DEF o
  <2>1. stack[t][1].kind \in Marks
    BY DEF Marks
  <2> QED
    BY <2>1, <1>1, <1>2, EndMark
<1>4. calls' = Silenced(cs, stack[t][1].id) /\ ctx' = Watching(ctx, t, o) /\ stack' = [stack EXCEPT ![t] = Tail(@)]
  BY DEF CallEnds, Silenced, Watching
<1> QED
  BY <1>3, <1>4

LEMMA RaiseFromCallStep ==
  ASSUME Sound, NEW t \in Task, RaiseFromCall(t)
  PROVE  SoundAfter
<1>1. 1 \in DOMAIN stack[t] /\ Top(t) = stack[t][1] /\ stack[t][1].kind = "call"
  BY Innermost DEF RaiseFromCall
<1>2. Inv(stack', ctx', entries, calls', attempts)
  BY <1>1, CallOver DEF RaiseFromCall, Sound
<1> QED
  BY <1>2 DEF RaiseFromCall, SoundAfter

LEMMA TellStep ==
  ASSUME NEW cs, NEW hs, Inv(stack, ctx, entries, cs, hs), NEW t \in Task, 1 \in DOMAIN stack[t],
         stack[t][1].kind \in {"call", "flush"}, NEW c, Tell(t, c, stack[t], cs)
  PROVE  Inv(stack', ctx', entries, calls', hs)
<1>1. Markable(t, "tell", Quiet(t), stack, entries, hs)
  BY Quieting DEF Markable, OrNone
<1>2. Len(calls') = Len(cs) + 1 /\ calls' = Append(cs, Quiet(t))
  BY Quieting, Extending DEF Inv, Typed, Tell
<1>3. Inv([stack EXCEPT ![t] = <<[kind |-> "tell", id |-> Len(cs) + 1, old |-> ctx[t].observed]>> \o @],
          Watching(ctx, t, Len(cs) + 1), entries, Append(cs, Quiet(t)), hs)
  BY <1>1, BeginMark
<1> QED
  BY <1>2, <1>3 DEF Tell, Watching

\* A pass that waits in the attempt the assertion was asked in.
LEMMA PassWaits ==
  ASSUME Sound, NEW t \in Task, AtTop(t, "call"), NEW c, c = Top(t).id, NEW e, e = calls[c].entry,
         e # None, ~calls[c].failed, Wants(ctx[t], e), NEW a, a = Holding(ctx[t], e), a # None,
         CallEnds(t, Succeeded(calls, c))
  PROVE  Inv(stack', ctx', entries, calls', Filed(attempts, a, Append(attempts[a].records,
             [call |-> c, asked |-> attempts[a].scope = e])))
<1>0. calls \in Seq(CallT) /\ entries \in Seq(EntryT) /\ attempts \in Seq(AttemptT)
  BY DEF Sound, Inv, Typed
<1>1. /\ 1 \in DOMAIN stack[t] /\ Top(t) = stack[t][1] /\ stack[t][1].kind = "call" /\ c \in DOMAIN calls
      /\ c = stack[t][1].id /\ Shaped(stack[t]) /\ Handed(stack[t], ctx[t]) /\ stack[t] # <<>>
      /\ stack[t] \in Seq(FrameT)
  BY Innermost DEF Marks, Sound, Inv, Typed
<1>2. Inv(stack, ctx, entries, Succeeded(calls, c), attempts)
  BY <1>1, Succeeding DEF Sound
<1>3. /\ Inv(stack', ctx', entries, calls', attempts) /\ calls' = Silenced(Succeeded(calls, c), c)
      /\ stack' = [stack EXCEPT ![t] = Tail(@)]
  BY <1>1, <1>2, CallOver
<1>4. a = LiveAttempt(ctx[t]) /\ a = ctx[t].held /\ attempts[a].alive /\ ~(entries[e].born > attempts[a].born)
  BY DEF Holding, LiveAttempt
<1>5. a \in DOMAIN attempts
  BY <1>4 DEF Sound, Inv, Named, ContextNames, OrNone
<1>6. e \in DOMAIN entries
  BY <1>1 DEF Sound, Inv, Named, CallNames, OrNone
<1>7. entries[e].born < attempts[a].born
  <2>1. entries[e].born \in Nat /\ attempts[a].born \in Nat
    <3>1. entries[e] \in EntryT /\ attempts[a] \in AttemptT
      BY <1>0, <1>5, <1>6, Lengths
    <3> QED
      BY <3>1 DEF EntryT, AttemptT
  <2>2. entries[e].born # attempts[a].born
    BY <1>5, <1>6 DEF Sound, Inv, Births
  <2> QED
    BY <2>1, <2>2, <1>4
<1>8. /\ calls'[c].entry = e /\ ~calls'[c].failed /\ ~calls'[c].alive /\ calls'[c].under = calls[c].under
      /\ c \in DOMAIN calls'
  <2>1. Reflagged(calls, Succeeded(calls, c)) /\ Succeeded(calls, c)[c].failed = calls[c].failed
    BY <1>0, <1>1, Flags
  <2>2. Succeeded(calls, c) \in Seq(CallT) /\ c \in DOMAIN Succeeded(calls, c)
    BY <2>1, <1>1 DEF Reflagged
  <2>3. /\ Reflagged(Succeeded(calls, c), calls') /\ ~calls'[c].alive /\ calls'[c].failed = Succeeded(calls, c)[c].failed
    BY <2>2, <1>3, Flags
  <2> QED
    BY <2>1, <2>2, <2>3, <1>1 DEF Reflagged
<1> DEFINE r == [call |-> c, asked |-> attempts[a].scope = e]
<1>9. r \in RecordT /\ r.call = c /\ r.asked = (attempts[a].scope = e)
  <2>1. c \in Nat
    BY <1>0, <1>1, Lengths
  <2> QED
    BY <2>1 DEF RecordT
<1> HIDE DEF r
<1>a. r.asked => entries[e].wants
  <2>1. attempts[a].scope = e => attempts[a].wanted
    BY DEF Wants
  <2> QED
    BY <2>1, <1>5, <1>9 DEF Sound, Inv, Data, Wanted
<1>b. Leans(calls[c], t, stack, entries, attempts)
  BY <1>1 DEF Sound, Inv, Data, Running, Depends
<1>c. Fit(r, a, entries, calls', attempts)
  BY <1>7, <1>8, <1>9, <1>a, <1>b DEF Fit, Leans
<1>d. ASSUME NEW u \in Task, NEW i \in DOMAIN stack'[u], stack'[u][i].kind \in Polls, stack'[u][i].id = a,
             NEW y \in calls'[r.call].under
      PROVE  Awaited(y, u, i, stack', attempts)
  <2>1. PICK j \in DOMAIN stack[t] : stack[t][j].kind = "attempt" /\ stack[t][j].id = y
    BY <1>8, <1>9, <1>b DEF Leans
  <2>2. j # 1
    BY <2>1, <1>1
  <2>3. 2 \in DOMAIN stack[t] /\ j \in Nat /\ j >= 2
    <3>1. DOMAIN stack[t] = 1..Len(stack[t]) /\ Len(stack[t]) \in Nat
      BY <1>1, Lengths
    <3> QED
      BY <3>1, <2>1, <2>2
  <2>4. stack[t][2].kind = "attempt"
    <3>1. stack[t][2] \in FrameT
      BY <2>3, <1>1, Lengths
    <3>2. stack[t][2].kind \notin {"tell", "call", "flush"}
      BY <2>3, <1>1 DEF Shaped
    <3> QED
      BY <3>1, <3>2 DEF FrameT, Marks, Polls
  <2>5. ctx[t].held = stack[t][2].id
    <3> DEFINE n == 2
    <3>1. n \in DOMAIN stack[t] /\ stack[t][n].kind = "attempt" /\ stack[t][n - 1].kind \in Marks
      BY <2>3, <2>4, <1>1 DEF Marks
    <3> HIDE DEF n
    <3>2. ctx[t].held = stack[t][n].id
      BY <3>1, <1>1 DEF Handed
    <3> QED
      BY <3>2 DEF n
  <2>6. Grown(stack', stack, t, stack[t][1])
    <3>1. stack \in [Task -> Seq(FrameT)] /\ Head(stack[t]) = stack[t][1]
      BY <1>1 DEF Sound, Inv, Typed
    <3>2. Grown([stack EXCEPT ![t] = Tail(@)], stack, t, Head(stack[t]))
      BY <3>1, <1>1, Popping
    <3> QED
      BY <3>1, <3>2, <1>3
  <2>7. 1 \in DOMAIN stack'[t] /\ stack'[t][1] = stack[t][2] /\ j - 1 \in DOMAIN stack'[t] /\ stack'[t][j - 1] = stack[t][j]
    BY <2>1, <2>2, <2>3, <2>6 DEF Grown
  <2>8. Alike(stack'[u][i], stack'[t][1])
    BY <2>4, <2>5, <2>7, <1>4, <1>d DEF Alike, Marks, Polls
  <2>9. u = t /\ i = 1
    BY <2>7, <2>8, <1>3 DEF Inv, Struct, Single
  <2> QED
    BY <2>1, <2>3, <2>7, <2>9 DEF Awaited
<1>e. Fileable(r, a, stack', entries, calls', attempts)
  BY <1>8, <1>9, <1>c, <1>d DEF Fileable
<1>f. Inv(stack', ctx', entries, calls', Filed(attempts, a, Append(attempts[a].records, r)))
  BY <1>3, <1>5, <1>9, <1>e, Keepsake
<1> QED
  BY <1>f DEF r

LEMMA ReturnStep ==
  ASSUME Sound, NEW t \in Task, Return(t)
  PROVE  SoundAfter
<1> DEFINE c == Top(t).id
           e == calls[c].entry
           toReport == e # None /\ ~calls[c].failed /\ Wants(ctx[t], e)
           a == Holding(ctx[t], e)
<1>1. /\ 1 \in DOMAIN stack[t] /\ Top(t) = stack[t][1] /\ stack[t][1].kind = "call" /\ c \in DOMAIN calls
      /\ AtTop(t, "call")
  BY Innermost DEF Return, Marks
<1>2. entries' = entries
  BY DEF Return
<1>3. CASE ~toReport /\ CallEnds(t, calls) /\ UNCHANGED <<attempts, reported>>
  BY <1>1, <1>2, <1>3, CallOver DEF Sound, SoundAfter
<1>4. CASE /\ toReport /\ a # None
           /\ attempts' = [attempts EXCEPT ![a].records =
                Append(@, [call |-> c, asked |-> attempts[a].scope = e])]
           /\ CallEnds(t, [calls EXCEPT ![c].passed = TRUE])
  <2>1. CallEnds(t, Succeeded(calls, c))
    BY <1>4 DEF Succeeded
  <2>2. attempts' = Filed(attempts, a, Append(attempts[a].records, [call |-> c, asked |-> attempts[a].scope = e]))
    BY <1>4 DEF Filed
  <2>3. Inv(stack', ctx', entries, calls', Filed(attempts, a, Append(attempts[a].records,
             [call |-> c, asked |-> attempts[a].scope = e])))
    BY <2>1, <1>1, <1>4, PassWaits
  <2> QED
    BY <2>2, <2>3, <1>2 DEF SoundAfter
<1>5. CASE toReport /\ a = None /\ Tell(t, c, stack[t], [calls EXCEPT ![c].passed = TRUE]) /\ UNCHANGED attempts
  <2>1. Inv(stack, ctx, entries, Succeeded(calls, c), attempts)
    BY <1>1, <1>5, Succeeding DEF Sound
  <2>2. Tell(t, c, stack[t], Succeeded(calls, c))
    BY <1>5 DEF Succeeded
  <2>3. Inv(stack', ctx', entries, calls', attempts)
    BY <2>1, <2>2, <1>1, TellStep
  <2> QED
    BY <2>3, <1>2, <1>5 DEF SoundAfter
<1> QED
  BY <1>3, <1>4, <1>5 DEF Return

LEMMA Overwriting ==
  ASSUME NEW x \in [Task -> CtxT], NEW t \in Task, NEW n \in Nat, NEW m \in Nat
  PROVE  Watching(Watching(x, t, n), t, m) = Watching(x, t, m)
<1>1. Moved(x, Watching(x, t, n), t, x[t].scope, n, x[t].held) /\ Moved(x, Watching(x, t, m), t, x[t].scope, m, x[t].held)
  BY Context
<1> DEFINE y == Watching(x, t, n)
           z == Watching(y, t, m)
           w == Watching(x, t, m)
<1>2. Moved(y, z, t, y[t].scope, m, y[t].held)
  <2>1. y \in [Task -> CtxT]
    BY <1>1 DEF Moved
  <2> HIDE DEF y
  <2> QED
    BY <2>1, Context
<1> HIDE DEF y, z, w
<1>3. z \in [Task -> CtxT] /\ w \in [Task -> CtxT]
  BY <1>1, <1>2 DEF Moved, w
<1>4. z[t] = w[t]
  <2>1. z[t] \in CtxT /\ w[t] \in CtxT
    BY <1>3
  <2>2. z[t].scope = w[t].scope /\ z[t].observed = w[t].observed /\ z[t].held = w[t].held
    BY <1>1, <1>2 DEF Moved, w, y
  <2> QED
    BY <2>1, <2>2 DEF CtxT
<1>5. \A u \in Task : u # t => z[u] = w[u]
  BY <1>1, <1>2 DEF Moved, w, y
<1>6. z = w
  BY <1>3, <1>4, <1>5
<1> QED
  BY <1>6 DEF z, w, y

\* A callback ends that was told by a call, and the call with it; or that a flush told.
LEMMA TellOver ==
  ASSUME Sound, NEW t \in Task, AtTop(t, "tell")
  PROVE  /\ 2 \in DOMAIN stack[t] /\ stack[t][2].kind \in {"call", "flush"}
         /\ stack[t][2].kind = "call" =>
              Inv([stack EXCEPT ![t] = Tail(Tail(@))], Watching(ctx, t, stack[t][2].old), entries,
                  Silenced(Silenced(calls, Top(t).id), stack[t][2].id), attempts)
         /\ stack[t][2].kind = "flush" =>
              Inv([stack EXCEPT ![t] = Tail(@)], Watching(ctx, t, Top(t).old), entries, Silenced(calls, Top(t).id), attempts)
<1> DEFINE f == stack[t][1]
           b == stack[t][2]
           k == [stack EXCEPT ![t] = Tail(@)]
<1>0. stack \in [Task -> Seq(FrameT)] /\ ctx \in [Task -> CtxT] /\ calls \in Seq(CallT)
  BY DEF Sound, Inv, Typed
<1>1. /\ 1 \in DOMAIN stack[t] /\ Top(t) = f /\ f.kind = "tell" /\ f.kind \in Marks /\ stack[t] # <<>> /\ Shaped(stack[t])
      /\ f.id \in DOMAIN calls /\ f.old \in OrNone(calls)
  BY Innermost DEF Marks
<1>2. 2 \in DOMAIN stack[t] /\ b.kind \in {"call", "flush"}
  BY <1>1 DEF Shaped
<1>3. ASSUME b.kind = "flush" PROVE Inv(k, Watching(ctx, t, f.old), entries, Silenced(calls, f.id), attempts)
  <2>1. b.kind \notin Marks
    BY <1>3 DEF Marks
  <2> QED
    BY <2>1, <1>1, EndMark DEF Sound
<1>4. ASSUME b.kind = "call"
      PROVE  Inv([stack EXCEPT ![t] = Tail(Tail(@))], Watching(ctx, t, b.old), entries,
                 Silenced(Silenced(calls, f.id), b.id), attempts)
  <2>1. b.id \in DOMAIN calls /\ b.old \in OrNone(calls) /\ b.kind \in Marks
    BY <1>2, <1>4 DEF Sound, Inv, Named, FrameNames, Marks
  <2> DEFINE x == Watching(ctx, t, b.id)
             cs == Silenced(calls, f.id)
  <2>2. Inv(k, x, entries, cs, attempts)
    <3>1. b.id \in OrNone(calls)
      BY <2>1 DEF OrNone
    <3> QED
      BY <3>1, <1>1, EndMark DEF Sound
  <2>3. Grown(k, stack, t, f) /\ k \in [Task -> Seq(FrameT)]
    <3>1. Head(stack[t]) = f
      BY <1>0, <1>1
    <3>2. k \in [Task -> Seq(FrameT)] /\ Grown(k, stack, t, Head(stack[t]))
      BY <1>0, <1>1, Popping
    <3> QED
      BY <3>1, <3>2
  <2>4. Reflagged(calls, cs)
    BY <1>0, <1>1, Flags
  <2> HIDE DEF k, cs, x
  <2>5. 1 \in DOMAIN k[t] /\ k[t][1] = b /\ \A i \in DOMAIN k[t] : i + 1 \in DOMAIN stack[t] /\ stack[t][i + 1] = k[t][i]
    <3>1. 1 \in DOMAIN k[t] /\ k[t][1] = b
      <4> DEFINE n == 2
      <4>1. n \in DOMAIN stack[t] /\ n # 1 /\ n - 1 = 1 /\ stack[t][n] = b
        BY <1>2
      <4> HIDE DEF n, b
      <4>2. n - 1 \in DOMAIN k[t] /\ stack[t][n] = k[t][n - 1]
        BY <4>1, <2>3 DEF Grown
      <4> QED
        BY <4>1, <4>2
    <3>2. \A i \in DOMAIN k[t] : i + 1 \in DOMAIN stack[t] /\ stack[t][i + 1] = k[t][i]
      BY <2>3 DEF Grown
    <3> QED
      BY <3>1, <3>2
  <2>6. 2 \in DOMAIN k[t] => k[t][2].kind \notin Marks
    <3>1. 2 \in DOMAIN k[t] => 3 \in DOMAIN stack[t] /\ stack[t][3] = k[t][2]
      <4>1. 2 + 1 = 3
        OBVIOUS
      <4> QED
        BY <4>1, <2>5
    <3> QED
      BY <3>1, <1>1 DEF Shaped, Marks
  <2>7. b.old \in OrNone(cs)
    BY <2>1, <2>4 DEF OrNone, Reflagged
  <2>8. Inv([k EXCEPT ![t] = Tail(@)], Watching(x, t, b.old), entries, Silenced(cs, k[t][1].id), attempts)
    <3>1. 1 \in DOMAIN k[t] /\ k[t][1].kind \in Marks
      BY <2>1, <2>5
    <3> HIDE DEF b
    <3> QED
      BY <3>1, <2>2, <2>6, <2>7, EndMark
  <2>9. Watching(x, t, b.old) = Watching(ctx, t, b.old)
    <3>1. b.id \in Nat /\ b.old \in Nat
      BY <2>1, <1>0, Lengths DEF OrNone, None
    <3> QED
      BY <3>1, <1>0, Overwriting DEF x
  <2>10. [k EXCEPT ![t] = Tail(@)] = [stack EXCEPT ![t] = Tail(Tail(@))]
    BY <1>0 DEF k
  <2> QED
    BY <2>5, <2>8, <2>9, <2>10 DEF cs
<1> QED
  BY <1>1, <1>2, <1>3, <1>4

LEMMA TellEndsStep ==
  ASSUME Sound, NEW t \in Task, TellEnds(t)
  PROVE  SoundAfter
<1>1. AtTop(t, "tell") /\ entries' = entries /\ attempts' = attempts
  BY DEF TellEnds
<1>2. stack[t][2].kind \in {"call", "flush"}
  BY <1>1, TellOver
<1>3. CASE stack[t][2].kind = "call"
  <2>1. Inv([stack EXCEPT ![t] = Tail(Tail(@))], Watching(ctx, t, stack[t][2].old), entries,
            Silenced(Silenced(calls, Top(t).id), stack[t][2].id), attempts)
    BY <1>1, <1>3, TellOver
  <2> QED
    BY <2>1, <1>1, <1>3 DEF TellEnds, SoundAfter, Watching, Silenced
<1>4. CASE stack[t][2].kind = "flush"
  <2>1. Inv([stack EXCEPT ![t] = Tail(@)], Watching(ctx, t, Top(t).old), entries, Silenced(calls, Top(t).id), attempts)
    BY <1>1, <1>4, TellOver
  <2>2. stack[t][2].kind # "call"
    BY <1>4
  <2> QED
    BY <2>1, <2>2, <1>1 DEF TellEnds, SoundAfter, Watching, Silenced
<1> QED
  BY <1>2, <1>3, <1>4

LEMMA Second ==
  ASSUME NEW k \in [Task -> Seq(FrameT)], NEW t \in Task, 2 \in DOMAIN k[t], NEW k2, k2 = [k EXCEPT ![t] = Tail(@)]
  PROVE  1 \in DOMAIN k2[t] /\ k2[t][1] = k[t][2]
<1>1. k[t] \in Seq(FrameT)
  OBVIOUS
<1>2. k[t] # <<>>
  BY <1>1
<1>3. Grown(k2, k, t, Head(k[t]))
  BY <1>2, Popping
<1> DEFINE n == 2
<1>4. n \in DOMAIN k[t] /\ n # 1 /\ n - 1 = 1
  OBVIOUS
<1> HIDE DEF n
<1>5. n - 1 \in DOMAIN k2[t] /\ k[t][n] = k2[t][n - 1]
  BY <1>3, <1>4 DEF Grown
<1>6. 1 \in DOMAIN k2[t] /\ k2[t][1] = k[t][n]
  BY <1>4, <1>5
<1> QED
  BY <1>6 DEF n

LEMMA RaiseFromFlushStep ==
  ASSUME Sound, NEW t \in Task, RaiseFromFlush(t)
  PROVE  SoundAfter
<1> DEFINE b == stack[t][2]
           k == [stack EXCEPT ![t] = Tail(@)]
           x == Watching(ctx, t, Top(t).old)
           cs == Silenced(calls, Top(t).id)
<1>1. AtTop(t, "tell") /\ b.kind = "flush" /\ stack \in [Task -> Seq(FrameT)]
  BY DEF RaiseFromFlush, Sound, Inv, Typed
<1>2. 2 \in DOMAIN stack[t] /\ Inv(k, x, entries, cs, attempts)
  BY <1>1, TellOver
<1>3. 1 \in DOMAIN k[t] /\ k[t][1] = b
  BY <1>1, <1>2, Second
<1>4. /\ calls' = cs /\ ctx' = x /\ attempts' = CutShort(attempts, b.id) /\ entries' = entries
      /\ stack' = [k EXCEPT ![t] = Tail(@)]
  BY <1>1 DEF RaiseFromFlush, Silenced, Watching, CutShort
<1> HIDE DEF k, x, cs, b
<1>5. Handed(k[t], x[t]) /\ x \in [Task -> CtxT] /\ attempts \in Seq(AttemptT) /\ b.id \in DOMAIN attempts
  BY <1>1, <1>2, <1>3 DEF Inv, Typed, Struct, Stacked, Named, FrameNames, Polls
<1>6. Moved(x, x, t, x[t].scope, x[t].observed, k[t][1].old)
  BY <1>1, <1>3, <1>5 DEF Moved, Handed
<1>7. Closed(attempts, CutShort(attempts, b.id), b.id, attempts[b.id].alive, "cut")
  BY <1>5, Closing
<1>8. Over(k[t][1], attempts, attempts[b.id].alive, "cut")
  BY <1>1, <1>3 DEF Over
<1>9. Inv([k EXCEPT ![t] = Tail(@)], x, entries, cs, CutShort(attempts, b.id))
  BY <1>2, <1>3, <1>6, <1>7, <1>8, EndPoll
<1> QED
  BY <1>4, <1>9 DEF SoundAfter

LEMMA FlushEndsStep ==
  ASSUME Sound, NEW t \in Task, FlushEnds(t)
  PROVE  SoundAfter
<1> DEFINE f == stack[t][1]
<1>1. /\ 1 \in DOMAIN stack[t] /\ Top(t) = f /\ f.kind = "flush" /\ Handed(stack[t], ctx[t]) /\ f.id \in DOMAIN attempts
  BY Innermost DEF FlushEnds, Polls
<1>2. ctx \in [Task -> CtxT] /\ attempts \in Seq(AttemptT) /\ attempts[f.id].end = "passed"
  BY <1>1 DEF Sound, Inv, Typed, Struct, Ends
<1>3. Moved(ctx, ctx, t, ctx[t].scope, ctx[t].observed, f.old)
  BY <1>1, <1>2 DEF Moved, Handed
<1>4. Closed(attempts, attempts, f.id, attempts[f.id].alive, "passed")
  BY <1>1, <1>2 DEF Closed
<1>5. Over(f, attempts, attempts[f.id].alive, "passed")
  BY <1>1 DEF Over
<1>6. Inv([stack EXCEPT ![t] = Tail(@)], ctx, entries, calls, attempts)
  BY <1>1, <1>3, <1>4, <1>5, EndPoll DEF Sound
<1> QED
  BY <1>6 DEF FlushEnds, SoundAfter

LEMMA RaiseFromAttemptStep ==
  ASSUME Sound, NEW t \in Task, RaiseFromAttempt(t)
  PROVE  SoundAfter
<1> DEFINE f == stack[t][1]
<1>1. /\ 1 \in DOMAIN stack[t] /\ Top(t) = f /\ f.kind = "attempt" /\ f.id \in DOMAIN attempts /\ f.old \in OrNone(attempts)
  BY Innermost DEF RaiseFromAttempt, Polls
<1>2. ctx \in [Task -> CtxT] /\ attempts \in Seq(AttemptT)
  BY DEF Sound, Inv, Typed
<1>3. f.old \in Nat
  BY <1>1, <1>2, Lengths DEF OrNone, None
<1>4. Moved(ctx, Keeping(ctx, t, f.old), t, ctx[t].scope, ctx[t].observed, f.old)
  BY <1>2, <1>3, Context
<1>5. Closed(attempts, Ended(attempts, f.id, "failed"), f.id, FALSE, "failed")
  BY <1>1, <1>2, Closing
<1>6. Over(f, attempts, FALSE, "failed")
  BY <1>1 DEF Over
<1>7. Inv([stack EXCEPT ![t] = Tail(@)], Keeping(ctx, t, f.old), entries, calls, Ended(attempts, f.id, "failed"))
  BY <1>1, <1>4, <1>5, <1>6, EndPoll DEF Sound
<1>8. ctx' = Keeping(ctx, t, f.old) /\ attempts' = Ended(attempts, f.id, "failed")
  BY <1>1 DEF RaiseFromAttempt, Release, Keeping, Ended
<1> QED
  BY <1>7, <1>8 DEF RaiseFromAttempt, SoundAfter

LEMMA PassAttemptStep ==
  ASSUME Sound, NEW t \in Task, PassAttempt(t)
  PROVE  SoundAfter
<1> DEFINE f == stack[t][1]
<1>1. 1 \in DOMAIN stack[t] /\ Top(t) = f /\ f.kind = "attempt"
  BY Innermost DEF PassAttempt
<1>2. Inv([stack EXCEPT ![t] = <<[kind |-> "flush", id |-> f.id, old |-> f.old]>> \o Tail(@)],
          Keeping(ctx, t, f.old), entries, calls, Ended(attempts, f.id, "passed"))
  BY <1>1, Passing DEF Sound
<1>3. ctx' = Keeping(ctx, t, f.old) /\ attempts' = Ended(attempts, f.id, "passed")
  BY <1>1 DEF PassAttempt, Release, Keeping, Ended
<1>4. stack' = [stack EXCEPT ![t] = <<[kind |-> "flush", id |-> f.id, old |-> f.old]>> \o Tail(@)]
  BY <1>1 DEF PassAttempt
<1>5. entries' = entries /\ calls' = calls
  BY DEF PassAttempt
<1> QED
  BY <1>2, <1>3, <1>4, <1>5 DEF SoundAfter

LEMMA BeginAttemptStep ==
  ASSUME Sound, NEW t \in Task, BeginAttempt(t)
  PROVE  SoundAfter
<1> DEFINE outer == LiveAttempt(ctx[t])
           found == ActiveScope(ctx[t])
           held(scope, wanted) ==
             [alive |-> TRUE, end |-> "open", scope |-> scope, wanted |-> wanted, born |-> NextBirth, records |-> <<>>]
           a == IF outer # None THEN held(attempts[outer].scope, attempts[outer].wanted)
                ELSE IF found = None THEN held(None, FALSE)
                ELSE held(found, entries[found].wants)
<1>0. entries \in Seq(EntryT) /\ attempts \in Seq(AttemptT)
  BY DEF Sound, Inv, Typed
<1>1. OnlyAttempts(stack[t])
  BY Unobserved DEF BeginAttempt
<1>2. NextBirth = Moment(entries, attempts) + 1 /\ NextBirth \in Nat
  BY <1>0, Lengths DEF NextBirth, Moment
<1>3. ASSUME NEW scope, scope \in OrNone(entries), NEW wanted, wanted \in BOOLEAN,
             scope # None /\ wanted => entries[scope].wants
      PROVE  Holdable(held(scope, wanted), entries, attempts)
  <2>1. scope \in Nat
    BY <1>0, <1>3, Lengths DEF OrNone, None
  <2>2. <<>> \in Seq(RecordT)
    OBVIOUS
  <2>3. held(scope, wanted) \in AttemptT
    BY <2>1, <2>2, <1>2, <1>3 DEF AttemptT
  <2> QED
    BY <2>3, <1>2, <1>3 DEF Holdable
<1>4. Holdable(a, entries, attempts)
  <2>1. CASE outer # None
    <3>1. outer \in DOMAIN attempts
      BY <2>1 DEF Sound, Inv, Named, ContextNames, OrNone, LiveAttempt
    <3>2. attempts[outer] \in AttemptT /\ attempts[outer].scope \in OrNone(entries)
      BY <3>1, <1>0, Lengths DEF Sound, Inv, Named, AttemptNames
    <3>3. attempts[outer].scope # None /\ attempts[outer].wanted => entries[attempts[outer].scope].wants
      BY <3>1 DEF Sound, Inv, Data, Wanted
    <3>4. attempts[outer].wanted \in BOOLEAN
      BY <3>2 DEF AttemptT
    <3> HIDE DEF outer, found, held
    <3>5. Holdable(held(attempts[outer].scope, attempts[outer].wanted), entries, attempts)
      BY <3>2, <3>3, <3>4, <1>3
    <3> QED
      BY <3>5, <2>1
  <2>2. CASE outer = None /\ found = None
    <3>1. Holdable(held(None, FALSE), entries, attempts)
      <4> HIDE DEF held
      <4> QED
        BY <1>3 DEF OrNone
    <3> QED
      BY <3>1, <2>2
  <2>3. CASE outer = None /\ found # None
    <3>1. found \in DOMAIN entries
      BY <2>3 DEF Sound, Inv, Named, ContextNames, OrNone, ActiveScope
    <3>2. entries[found] \in EntryT
      BY <3>1, <1>0, Lengths
    <3>3. entries[found].wants \in BOOLEAN /\ found \in OrNone(entries)
      BY <3>1, <3>2 DEF EntryT, OrNone
    <3> HIDE DEF outer, found, held
    <3>4. Holdable(held(found, entries[found].wants), entries, attempts)
      BY <3>3, <1>3
    <3> QED
      BY <3>4, <2>3
  <2> QED
    BY <2>1, <2>2, <2>3
<1>5. attempts' = Append(attempts, a)
  BY DEF BeginAttempt
<1> HIDE DEF a
<1>6. Len(attempts') = Len(attempts) + 1
  BY <1>0, <1>4, <1>5, Extending DEF Holdable
<1>7. Inv([stack EXCEPT ![t] = <<[kind |-> "attempt", id |-> Len(attempts) + 1, old |-> ctx[t].held]>> \o @],
          Keeping(ctx, t, Len(attempts) + 1), entries, calls, Append(attempts, a))
  BY <1>1, <1>4, BeginHolding DEF Sound
<1>8. /\ stack' = [stack EXCEPT ![t] = <<[kind |-> "attempt", id |-> Len(attempts) + 1, old |-> ctx[t].held]>> \o @]
      /\ ctx' = Keeping(ctx, t, Len(attempts) + 1) /\ entries' = entries /\ calls' = calls
  BY <1>6 DEF BeginAttempt, Pushed, Keeping
<1> QED
  BY <1>5, <1>7, <1>8 DEF SoundAfter

\* The attempt that t hands on from holds r back.
HeldBack(t, r) == \E m \in DOMAIN attempts[Top(t).id].records : r = attempts[Top(t).id].records[m]

\* A pass that waits on may wait in the outer attempt.
LEMMA WaitsOn ==
  ASSUME Sound, NEW t \in Task, AtTop(t, "flush"), NEW r, HeldBack(t, r),
         HandsOver(Top(t).old, calls[r.call].entry)
  PROVE  Top(t).old \in DOMAIN attempts /\ Fileable(r, Top(t).old, stack, entries, calls, attempts)
<1> DEFINE f == stack[t][1]
           outer == f.old
<1>1. /\ 1 \in DOMAIN stack[t] /\ Top(t) = f /\ f.kind = "flush" /\ Handed(stack[t], ctx[t]) /\ f.id \in DOMAIN attempts
      /\ outer \in OrNone(attempts) /\ Shaped(stack[t]) /\ f.kind \notin Marks /\ f.kind \in Polls
      /\ stack[t] \in Seq(FrameT)
  BY Innermost DEF Polls, Marks, Sound, Inv, Typed
<1>2. outer \in DOMAIN attempts /\ entries[calls[r.call].entry].born < attempts[outer].born
  BY <1>1 DEF HandsOver, OrNone
<1>3. Fileable(r, f.id, stack, entries, calls, attempts)
  <2>1. PICK m \in DOMAIN attempts[f.id].records : r = attempts[f.id].records[m]
    BY <1>1 DEF HeldBack
  <2> QED
    BY <2>1, <1>1, Held DEF Sound
<1>4. Fit(r, outer, entries, calls, attempts) /\ r.call \in DOMAIN calls
  BY <1>2, <1>3 DEF Fileable, Fit
<1>5. ASSUME NEW u \in Task, NEW i \in DOMAIN stack[u], stack[u][i].kind \in Polls, stack[u][i].id = outer,
             NEW y \in calls[r.call].under
      PROVE  Awaited(y, u, i, stack, attempts)
  <2>1. Awaited(y, t, 1, stack, attempts)
    BY <1>1, <1>3 DEF Fileable
  <2>2. ASSUME NEW j \in DOMAIN stack[t], stack[t][j].kind = "attempt", stack[t][j].id = y
        PROVE  Awaited(y, u, i, stack, attempts)
    <3>1. j # 1
      BY <2>2, <1>1
    <3>2. 2 \in DOMAIN stack[t] /\ j \in Nat /\ 2 <= j
      <4>1. DOMAIN stack[t] = 1..Len(stack[t]) /\ Len(stack[t]) \in Nat
        BY <1>1, Lengths
      <4> QED
        BY <4>1, <2>2, <3>1
    <3>3. stack[t][2].kind = "attempt"
      <4>1. \A i2 \in DOMAIN stack[t] : i2 # 1 => stack[t][i2].kind = "attempt"
        <5> HIDE DEF outer
        <5> QED
          BY <1>1, Beneath
      <4> QED
        BY <4>1, <3>2
    <3>4. f.old = stack[t][2].id
      <4> DEFINE n == 1
      <4>1. n \in DOMAIN stack[t] /\ stack[t][n] = f
        BY <1>1
      <4>2. n + 1 = 2
        OBVIOUS
      <4> HIDE DEF n, f
      <4> QED
        BY <4>1, <4>2, <3>2, <1>1 DEF Handed
    <3>5. Alike(stack[u][i], stack[t][2])
      BY <3>3, <3>4, <1>5 DEF Alike, Marks, Polls
    <3>6. u = t /\ i = 2
      BY <3>2, <3>5 DEF Sound, Inv, Struct, Single
    <3> QED
      BY <3>2, <3>6, <2>2 DEF Awaited
  <2> QED
    BY <2>1, <2>2 DEF Awaited
<1>6. Fileable(r, outer, stack, entries, calls, attempts)
  BY <1>4, <1>5 DEF Fileable
<1> QED
  BY <1>1, <1>2, <1>6

\* Whether an attempt may hold a pass back does not depend on what is held back.
LEMMA StillFileable ==
  ASSUME NEW k, NEW es, NEW cs, NEW hs, NEW hs2, NEW a, NEW rs, NEW b \in DOMAIN hs, NEW r,
         CallNames(es, cs, hs), Refiled(hs, hs2, a, rs), Fileable(r, b, k, es, cs, hs)
  PROVE  Fileable(r, b, k, es, cs, hs2)
<1>1. \A y \in cs[r.call].under : y \in DOMAIN hs
  BY DEF CallNames, Fileable
<1>2. \A y \in cs[r.call].under : hs2[y].born = hs[y].born /\ hs2[y].end = hs[y].end
  BY <1>1 DEF Refiled
<1>3. hs2[b].born = hs[b].born
  BY DEF Refiled
<1>4. r.call \in DOMAIN cs /\ Fit(r, b, es, cs, hs2)
  BY <1>2, <1>3 DEF Fileable, Fit
<1>5. ASSUME NEW u \in Task, NEW i \in DOMAIN k[u], k[u][i].kind \in Polls, k[u][i].id = b, NEW y \in cs[r.call].under
      PROVE  Awaited(y, u, i, k, hs2)
  <2>1. Awaited(y, u, i, k, hs)
    BY <1>5 DEF Fileable
  <2> QED
    BY <2>1, <1>2 DEF Awaited
<1> QED
  BY <1>4, <1>5 DEF Fileable

LEMMA FlushStepStep ==
  ASSUME Sound, NEW t \in Task, FlushStep(t)
  PROVE  SoundAfter
<1> DEFINE a == Top(t).id
           outer == Top(t).old
           rs == attempts[a].records
           r == Head(rs)
           e == calls[r.call].entry
           taken == Filed(attempts, a, Tail(rs))
<1>1. /\ AtTop(t, "flush") /\ rs # <<>> /\ 1 \in DOMAIN stack[t] /\ Top(t) = stack[t][1] /\ stack[t][1].kind = "flush"
      /\ a \in DOMAIN attempts
  BY Innermost DEF FlushStep, Polls
<1>2. attempts \in Seq(AttemptT) /\ attempts[a] \in AttemptT /\ CallNames(entries, calls, attempts)
  BY <1>1, Lengths DEF Sound, Inv, Typed, Named
<1>3. rs \in Seq(RecordT)
  BY <1>2 DEF AttemptT
<1>4. Tail(rs) \in Seq(RecordT) /\ 1 \in DOMAIN rs /\ r = rs[1] /\ r \in RecordT
  BY <1>1, <1>3
<1>5. Inv(stack, ctx, entries, calls, taken)
  BY <1>1, Taking DEF Sound
<1>6. Refiled(attempts, taken, a, Tail(rs))
  BY <1>1, <1>2, <1>4, Refiling
<1>7. taken = [attempts EXCEPT ![a].records = Tail(@)]
  BY DEF Filed
<1>8. CASE /\ HandsOver(outer, e) /\ attempts' = [[attempts EXCEPT ![a].records = Tail(@)] EXCEPT ![outer].records = Append(@, r)]
           /\ UNCHANGED <<ctx, stack, calls, reported>>
  <2>6. HeldBack(t, r)
    BY <1>4 DEF HeldBack
  <2>1. outer \in DOMAIN attempts /\ Fileable(r, outer, stack, entries, calls, attempts)
    BY <1>1, <1>8, <2>6, WaitsOn
  <2>2. attempts' = Filed(taken, outer, Append(taken[outer].records, r))
    BY <1>7, <1>8 DEF Filed
  <2> HIDE DEF taken, r, rs, outer, a
  <2>3. Fileable(r, outer, stack, entries, calls, taken)
    <3> DEFINE ts == Tail(rs)
    <3>1. Refiled(attempts, taken, a, ts)
      BY <1>6
    <3>2. CallNames(entries, calls, attempts)
      BY <1>2
    <3> HIDE DEF ts
    <3> QED
      BY <2>1, <3>1, <3>2, StillFileable
  <2>5. outer \in DOMAIN taken
    BY <2>1, <1>6 DEF Refiled
  <2>4. Inv(stack, ctx, entries, calls, Filed(taken, outer, Append(taken[outer].records, r)))
    BY <2>3, <2>5, <1>4, <1>5, Keepsake
  <2> QED
    BY <2>2, <2>4, <1>8 DEF FlushStep, SoundAfter
<1>9. CASE attempts' = [attempts EXCEPT ![a].records = Tail(@)] /\ Tell(t, r.call, stack[t], calls)
  <2>1. Inv(stack', ctx', entries, calls', taken)
    <3> HIDE DEF taken, r, a
    <3> QED
      BY <1>1, <1>5, <1>9, TellStep
  <2> QED
    BY <2>1, <1>7, <1>9 DEF FlushStep, SoundAfter
<1>10. CASE attempts' = [attempts EXCEPT ![a].records = Tail(@)] /\ UNCHANGED <<ctx, stack, calls, reported>>
  BY <1>5, <1>7, <1>10 DEF FlushStep, SoundAfter
<1> QED
  BY <1>8, <1>9, <1>10 DEF FlushStep

LEMMA EnterStep ==
  ASSUME Sound, own \in [Task -> Nat], Blocks(own, ctx, entries), NEW t \in Task, NEW wants \in BOOLEAN, Enter(t, wants)
  PROVE  SoundAfter /\ Blocks(own', ctx', entries') /\ own' \in [Task -> Nat]
<1> DEFINE e == [active |-> TRUE, wants |-> wants, born |-> NextBirth, previous |-> ctx[t].scope]
<1>1. entries \in Seq(EntryT) /\ attempts \in Seq(AttemptT) /\ ctx \in [Task -> CtxT]
  BY DEF Sound, Inv, Typed
<1>2. NextBirth = Moment(entries, attempts) + 1 /\ NextBirth \in Nat
  BY <1>1, Lengths DEF NextBirth, Moment
<1>3. ctx[t].scope \in OrNone(entries) /\ ctx[t].scope \in Nat
  BY <1>1 DEF Sound, Inv, Named, ContextNames, CtxT
<1>4. e \in EntryT /\ e.born = Moment(entries, attempts) + 1 /\ e.previous = ctx[t].scope /\ e.active
  BY <1>2, <1>3 DEF EntryT
<1>5. entries' = Append(entries, e)
  BY DEF Enter
<1> HIDE DEF e
<1>6. Len(entries') = Len(entries) + 1 /\ Len(entries) + 1 \in Nat
  BY <1>1, <1>4, <1>5, Extending DEF Extended
<1>7. ctx' = Scoping(ctx, t, Len(entries) + 1) /\ own' = More(own, t)
  BY <1>6 DEF Enter, Scoping, More
<1>8. Inv(stack, Scoping(ctx, t, Len(entries) + 1), Append(entries, e), calls, attempts)
  BY <1>3, <1>4, Entering DEF Sound
<1>9. Moved(ctx, Scoping(ctx, t, Len(entries) + 1), t, Len(entries) + 1, ctx[t].observed, ctx[t].held)
  BY <1>1, <1>6, Context
<1>10. Blocks(More(own, t), Scoping(ctx, t, Len(entries) + 1), Append(entries, e)) /\ More(own, t) \in [Task -> Nat]
  BY <1>1, <1>4, <1>9, OneMore
<1> QED
  BY <1>5, <1>7, <1>8, <1>10 DEF Enter, SoundAfter

LEMMA LeaveStep ==
  ASSUME Sound, own \in [Task -> Nat], Blocks(own, ctx, entries), NEW t \in Task, Leave(t)
  PROVE  /\ SoundAfter /\ Blocks(own', ctx', entries') /\ own' \in [Task -> Nat]
         /\ ctx[t].scope \in DOMAIN entries /\ entries[ctx[t].scope].active /\ entries' = Shut(entries, ctx[t].scope)
<1> DEFINE e == ctx[t].scope
           n == entries[e].previous
<1>1. entries \in Seq(EntryT) /\ ctx \in [Task -> CtxT] /\ own[t] > 0
  BY DEF Sound, Inv, Typed, Leave
<1>2. ctx' = Scoping(ctx, t, n) /\ entries' = Shut(entries, e) /\ own' = Less(own, t)
  BY DEF Leave, Scoping, Shut, Less
<1>3. ASSUME e \in DOMAIN entries PROVE Moved(ctx, Scoping(ctx, t, n), t, n, ctx[t].observed, ctx[t].held)
  <2>1. n \in OrNone(entries)
    BY <1>3 DEF Sound, Inv, Named, EntryNames
  <2>2. n \in Nat
    BY <2>1, <1>1, Lengths DEF OrNone, None
  <2> HIDE DEF n
  <2> QED
    BY <2>2, <1>1, Context
<1>4. /\ Blocks(Less(own, t), Scoping(ctx, t, n), Shut(entries, e)) /\ Less(own, t) \in [Task -> Nat]
      /\ e \in DOMAIN entries /\ entries[e].active
  BY <1>1, <1>3, OneLess
<1>5. Inv(stack, Scoping(ctx, t, n), Shut(entries, e), calls, attempts)
  BY <1>4, Leaving DEF Sound
<1> QED
  BY <1>2, <1>4, <1>5 DEF Leave, SoundAfter

LEMMA ForkStep ==
  ASSUME Sound, NEW t \in Task, NEW u \in Task, stack[u] = <<>>, Fork(t, u)
  PROVE  SoundAfter
<1>1. Inv(stack, [ctx EXCEPT ![u] = ctx[t]], entries, calls, attempts)
  BY Forking DEF Sound
<1> QED
  BY <1>1 DEF Fork, SoundAfter

-----------------------------------------------------------------------------
(* The inductive invariant *)

Idle == \A t \in Task \ started : own[t] = 0 /\ stack[t] = <<>>

IInv ==
  /\ Sound
  /\ started \subseteq Task /\ own \in [Task -> Nat] /\ Idle
  /\ builders \subseteq OrNone(entries)
  /\ reported \in Seq(Nat)
  /\ Blocks(own, ctx, entries)

\* The steps of a task but those into and out of blocks.
Inner(t) ==
  \/ \E e \in builders \ {Plain} : Begin(t, e)
  \/ BeginQuietly(t) \/ MarkFailed(t) \/ Return(t) \/ TellEnds(t)
  \/ BeginAttempt(t) \/ PassAttempt(t) \/ FlushStep(t) \/ FlushEnds(t)
  \/ RaiseFromCall(t) \/ RaiseFromAttempt(t) \/ RaiseFromFlush(t)

\* They leave alone what is of blocks and of other tasks.
Untouched(t) ==
  /\ UNCHANGED <<started, own, entries, openBlocks, factory, builders>>
  /\ t \in started
  /\ \A u \in Task : (u # t => stack'[u] = stack[u]) /\ ctx'[u].scope = ctx[u].scope

LEMMA Scopes ==
  ASSUME NEW x \in [Task -> CtxT], NEW t \in Task, NEW n, NEW u \in Task
  PROVE  Watching(x, t, n)[u].scope = x[u].scope /\ Keeping(x, t, n)[u].scope = x[u].scope
<1> DEFINE o == [x[t] EXCEPT !.observed = n]
           h == [x[t] EXCEPT !.held = n]
<1>1. x[t] \in CtxT
  OBVIOUS
<1>2. o.scope = x[t].scope /\ h.scope = x[t].scope
  BY <1>1 DEF CtxT
<1>3. Watching(x, t, n) = [x EXCEPT ![t] = o] /\ Keeping(x, t, n) = [x EXCEPT ![t] = h]
  BY DEF Watching, Keeping
<1> HIDE DEF o, h
<1> QED
  BY <1>2, <1>3

LEMMA InnerStep ==
  ASSUME IInv, NEW t \in Task, Inner(t)
  PROVE  SoundAfter /\ Untouched(t)
<1>0. Sound /\ stack \in [Task -> Seq(FrameT)] /\ ctx \in [Task -> CtxT] /\ Idle /\ builders \subseteq OrNone(entries)
  BY DEF IInv, Sound, Inv, Typed
<1>1. \A kind : AtTop(t, kind) => t \in started
  BY <1>0 DEF AtTop, Idle
<1>2. ASSUME NEW s, stack' = [stack EXCEPT ![t] = s] PROVE \A u \in Task : u # t => stack'[u] = stack[u]
  BY <1>0, <1>2
<1>3. ASSUME NEW s, NEW n, stack' = [stack EXCEPT ![t] = s], ctx' = Watching(ctx, t, n)
      PROVE  \A u \in Task : (u # t => stack'[u] = stack[u]) /\ ctx'[u].scope = ctx[u].scope
  <2>1. \A u \in Task : Watching(ctx, t, n)[u].scope = ctx[u].scope
    BY <1>0, Scopes
  <2>2. \A u \in Task : u # t => stack'[u] = stack[u]
    BY <1>2, <1>3
  <2> QED
    BY <2>1, <2>2, <1>3
<1>4. ASSUME NEW s, NEW n, stack' = [stack EXCEPT ![t] = s], ctx' = Keeping(ctx, t, n)
      PROVE  \A u \in Task : (u # t => stack'[u] = stack[u]) /\ ctx'[u].scope = ctx[u].scope
  <2>1. \A u \in Task : Keeping(ctx, t, n)[u].scope = ctx[u].scope
    BY <1>0, Scopes
  <2>2. \A u \in Task : u # t => stack'[u] = stack[u]
    BY <1>2, <1>4
  <2> QED
    BY <2>1, <2>2, <1>4
<1>5. ASSUME NEW marker, Observe(t, marker), t \in started PROVE Untouched(t)
  <2>1. /\ ctx' = Watching(ctx, t, Len(calls'))
        /\ stack' = [stack EXCEPT ![t] = <<[kind |-> "call", id |-> Len(calls'), old |-> ctx[t].observed]>> \o stack[t]]
    BY <1>5 DEF Observe, Watching, Pushed
  <2>2. \A u \in Task : (u # t => stack'[u] = stack[u]) /\ ctx'[u].scope = ctx[u].scope
    BY <2>1, <1>3
  <2> QED
    BY <2>2, <1>5 DEF Observe, Untouched
<1>6. ASSUME NEW cs, CallEnds(t, cs)
      PROVE  \A u \in Task : (u # t => stack'[u] = stack[u]) /\ ctx'[u].scope = ctx[u].scope
  <2>1. ctx' = Watching(ctx, t, Top(t).old) /\ stack' = [stack EXCEPT ![t] = Tail(stack[t])]
    BY <1>6 DEF CallEnds, Watching
  <2> QED
    BY <2>1, <1>3
<1>7. ASSUME NEW cs, NEW c, Tell(t, c, stack[t], cs)
      PROVE  \A u \in Task : (u # t => stack'[u] = stack[u]) /\ ctx'[u].scope = ctx[u].scope
  <2>1. /\ ctx' = Watching(ctx, t, Len(calls'))
        /\ stack' = [stack EXCEPT ![t] = <<[kind |-> "tell", id |-> Len(calls'), old |-> ctx[t].observed]>> \o stack[t]]
    BY <1>7 DEF Tell, Watching
  <2> QED
    BY <2>1, <1>3
<1>8. CASE \E e \in builders \ {Plain} : Begin(t, e)
  <2>1. PICK e \in builders \ {Plain} : Begin(t, e)
    BY <1>8
  <2>2. e \in DOMAIN entries
    BY <1>0 DEF OrNone, None, Plain
  <2>3. t \in started
    BY <2>1 DEF Begin, UserRuns
  <2>4. Untouched(t)
    BY <2>1, <2>3, <1>5 DEF Begin
  <2> QED
    BY <2>1, <2>2, <2>4, <1>0, BeginStep
<1>9. CASE BeginQuietly(t)
  <2>1. t \in started
    BY <1>9 DEF BeginQuietly, UserRuns
  <2>2. Untouched(t)
    BY <2>1, <1>5, <1>9 DEF BeginQuietly
  <2> QED
    BY <2>2, <1>0, <1>9, BeginQuietlyStep
<1>10. CASE MarkFailed(t)
  <2>1. Untouched(t)
    BY <1>10 DEF MarkFailed, UserRuns, Untouched
  <2> QED
    BY <2>1, <1>0, <1>10, MarkFailedStep
<1>11. CASE Return(t)
  <2>1. \A u \in Task : (u # t => stack'[u] = stack[u]) /\ ctx'[u].scope = ctx[u].scope
    BY <1>6, <1>7, <1>11 DEF Return
  <2>2. Untouched(t)
    BY <2>1, <1>1, <1>11 DEF Return, Untouched
  <2> QED
    BY <2>2, <1>0, <1>11, ReturnStep
<1>12. CASE TellEnds(t)
  <2>1. \/ ctx' = Watching(ctx, t, stack[t][2].old) /\ stack' = [stack EXCEPT ![t] = Tail(Tail(stack[t]))]
        \/ ctx' = Watching(ctx, t, Top(t).old) /\ stack' = [stack EXCEPT ![t] = Tail(stack[t])]
    BY <1>12 DEF TellEnds, Watching
  <2>2. \A u \in Task : (u # t => stack'[u] = stack[u]) /\ ctx'[u].scope = ctx[u].scope
    BY <2>1, <1>3
  <2>3. Untouched(t)
    BY <2>2, <1>1, <1>12 DEF TellEnds, Untouched
  <2> QED
    BY <2>3, <1>0, <1>12, TellEndsStep
<1>13. CASE BeginAttempt(t)
  <2>1. /\ ctx' = Keeping(ctx, t, Len(attempts'))
        /\ stack' = [stack EXCEPT ![t] = <<[kind |-> "attempt", id |-> Len(attempts'), old |-> ctx[t].held]>> \o stack[t]]
    BY <1>13 DEF BeginAttempt, Keeping, Pushed
  <2>2. \A u \in Task : (u # t => stack'[u] = stack[u]) /\ ctx'[u].scope = ctx[u].scope
    BY <2>1, <1>4
  <2>3. Untouched(t)
    BY <2>2, <1>13 DEF BeginAttempt, UserRuns, Untouched
  <2> QED
    BY <2>3, <1>0, <1>13, BeginAttemptStep
<1>14. CASE PassAttempt(t)
  <2>1. /\ ctx' = Keeping(ctx, t, Top(t).old)
        /\ stack' = [stack EXCEPT ![t] = <<[kind |-> "flush", id |-> Top(t).id, old |-> Top(t).old]>> \o Tail(stack[t])]
    BY <1>14 DEF PassAttempt, Release, Keeping
  <2>2. \A u \in Task : (u # t => stack'[u] = stack[u]) /\ ctx'[u].scope = ctx[u].scope
    BY <2>1, <1>4
  <2>3. Untouched(t)
    BY <2>2, <1>1, <1>14 DEF PassAttempt, Untouched
  <2> QED
    BY <2>3, <1>0, <1>14, PassAttemptStep
<1>15. CASE FlushStep(t)
  <2>1. \A u \in Task : (u # t => stack'[u] = stack[u]) /\ ctx'[u].scope = ctx[u].scope
    BY <1>7, <1>15 DEF FlushStep
  <2>2. Untouched(t)
    BY <2>1, <1>1, <1>15 DEF FlushStep, Untouched
  <2> QED
    BY <2>2, <1>0, <1>15, FlushStepStep
<1>16. CASE FlushEnds(t)
  <2>1. \A u \in Task : (u # t => stack'[u] = stack[u]) /\ ctx'[u].scope = ctx[u].scope
    BY <1>0, <1>16 DEF FlushEnds
  <2>2. Untouched(t)
    BY <2>1, <1>1, <1>16 DEF FlushEnds, Untouched
  <2> QED
    BY <2>2, <1>0, <1>16, FlushEndsStep
<1>17. CASE RaiseFromCall(t)
  <2>1. \A u \in Task : (u # t => stack'[u] = stack[u]) /\ ctx'[u].scope = ctx[u].scope
    BY <1>6, <1>17 DEF RaiseFromCall
  <2>2. Untouched(t)
    BY <2>1, <1>1, <1>17 DEF RaiseFromCall, Untouched
  <2> QED
    BY <2>2, <1>0, <1>17, RaiseFromCallStep
<1>18. CASE RaiseFromAttempt(t)
  <2>1. ctx' = Keeping(ctx, t, Top(t).old) /\ stack' = [stack EXCEPT ![t] = Tail(stack[t])]
    BY <1>18 DEF RaiseFromAttempt, Release, Keeping
  <2>2. \A u \in Task : (u # t => stack'[u] = stack[u]) /\ ctx'[u].scope = ctx[u].scope
    BY <2>1, <1>4
  <2>3. Untouched(t)
    BY <2>2, <1>1, <1>18 DEF RaiseFromAttempt, Untouched
  <2> QED
    BY <2>3, <1>0, <1>18, RaiseFromAttemptStep
<1>19. CASE RaiseFromFlush(t)
  <2>1. ctx' = Watching(ctx, t, Top(t).old) /\ stack' = [stack EXCEPT ![t] = Tail(Tail(stack[t]))]
    BY <1>19 DEF RaiseFromFlush, Watching
  <2>2. \A u \in Task : (u # t => stack'[u] = stack[u]) /\ ctx'[u].scope = ctx[u].scope
    BY <2>1, <1>3
  <2>3. Untouched(t)
    BY <2>2, <1>1, <1>19 DEF RaiseFromFlush, Untouched
  <2> QED
    BY <2>3, <1>0, <1>19, RaiseFromFlushStep
<1> QED
  BY <1>8, <1>9, <1>10, <1>11, <1>12, <1>13, <1>14, <1>15, <1>16, <1>17, <1>18, <1>19 DEF Inner

-----------------------------------------------------------------------------
(* What is told *)

\* The pass of c may be told.
Tellable(c) ==
  /\ c \in DOMAIN calls /\ calls[c].entry # None /\ ~calls[c].failed
  /\ \A y \in calls[c].under : attempts[y].end \in {"passed", "cut"}
  /\ entries[calls[c].entry].active /\ entries[calls[c].entry].wants

\* No attempt on the stack of t below the first is younger than frame 2.
LEMMA Younger ==
  ASSUME Sound, NEW t \in Task, NEW n, n \in Nat, n \in DOMAIN stack[t], stack[t][n].kind \in Polls,
         NEW j \in DOMAIN stack[t], n <= j, stack[t][j].kind = "attempt"
  PROVE  /\ stack[t][n].id \in DOMAIN attempts /\ stack[t][j].id \in DOMAIN attempts
         /\ attempts[stack[t][n].id].born \in Nat /\ attempts[stack[t][j].id].born \in Nat
         /\ attempts[stack[t][j].id].born <= attempts[stack[t][n].id].born
<1>1. FrameNames(stack, calls, attempts) /\ Nested(stack, attempts) /\ attempts \in Seq(AttemptT) /\ stack[t] \in Seq(FrameT)
  BY DEF Sound, Inv, Named, Struct, Typed
<1>2. stack[t][n].id \in DOMAIN attempts /\ stack[t][j].id \in DOMAIN attempts /\ stack[t][j].kind \in Polls
  BY <1>1 DEF FrameNames, Polls
<1>3. attempts[stack[t][n].id] \in AttemptT /\ attempts[stack[t][j].id] \in AttemptT
  BY <1>1, <1>2, Lengths
<1>4. attempts[stack[t][n].id].born \in Nat /\ attempts[stack[t][j].id].born \in Nat
  BY <1>3 DEF AttemptT
<1>5. CASE n = j
  BY <1>2, <1>4, <1>5
<1>6. CASE n # j
  <2>1. j \in Nat
    BY <1>1, Lengths
  <2>2. n < j
    BY <2>1, <1>6
  <2>3. attempts[stack[t][j].id].born < attempts[stack[t][n].id].born
    BY <2>2, <1>1, <1>2 DEF Nested
  <2> QED
    BY <2>3, <1>2, <1>4
<1> QED
  BY <1>5, <1>6

\* An attempt on the stack of t below its first frame: frame 2 is one, runs, and is what that frame leads to.
LEMMA SecondPoll ==
  ASSUME Sound, NEW t \in Task, NEW kind, kind \in {"call", "flush"}, AtTop(t, kind),
         NEW j \in DOMAIN stack[t], stack[t][j].kind = "attempt"
  PROVE  /\ 2 \in DOMAIN stack[t] /\ stack[t][2].kind = "attempt" /\ 2 <= j
         /\ stack[t][2].id \in DOMAIN attempts /\ attempts[stack[t][2].id].alive
         /\ kind = "call" => ctx[t].held = stack[t][2].id
         /\ kind = "flush" => stack[t][1].old = stack[t][2].id
<1>1. /\ 1 \in DOMAIN stack[t] /\ stack[t][1].kind = kind /\ Shaped(stack[t]) /\ Handed(stack[t], ctx[t])
      /\ stack[t] \in Seq(FrameT)
  BY Innermost DEF Sound, Inv, Typed
<1>2. j # 1
  BY <1>1
<1>3. 2 \in DOMAIN stack[t] /\ j \in Nat /\ 2 <= j
  <2>1. DOMAIN stack[t] = 1..Len(stack[t]) /\ Len(stack[t]) \in Nat
    BY <1>1, Lengths
  <2> QED
    BY <2>1, <1>2
<1>4. stack[t][2].kind = "attempt"
  <2>1. stack[t][2] \in FrameT
    BY <1>1, <1>3, Lengths
  <2>2. stack[t][2].kind \notin {"tell", "call", "flush"}
    BY <1>1, <1>3 DEF Shaped
  <2> QED
    BY <2>1, <2>2 DEF FrameT, Marks, Polls
<1>5. stack[t][2].id \in DOMAIN attempts /\ attempts[stack[t][2].id].alive
  <2>1. stack[t][2].id \in DOMAIN attempts
    BY <1>3, <1>4 DEF Sound, Inv, Named, FrameNames, Polls
  <2>2. On(stack, {"attempt"}, stack[t][2].id)
    BY <1>3, <1>4 DEF On
  <2> QED
    BY <2>1, <2>2 DEF Sound, Inv, Struct, Holds
<1>6. ASSUME kind = "call" PROVE ctx[t].held = stack[t][2].id
  <2> DEFINE n == 2
  <2>1. n \in DOMAIN stack[t] /\ stack[t][n].kind = "attempt" /\ stack[t][n - 1].kind \in Marks
    BY <1>1, <1>3, <1>4, <1>6 DEF Marks
  <2> HIDE DEF n
  <2>2. ctx[t].held = stack[t][n].id
    BY <2>1, <1>1 DEF Handed
  <2> QED
    BY <2>2 DEF n
<1>7. ASSUME kind = "flush" PROVE stack[t][1].old = stack[t][2].id
  <2> DEFINE n == 1
  <2>1. n \in DOMAIN stack[t] /\ stack[t][n].kind \in Polls
    BY <1>1, <1>7 DEF Polls
  <2>2. n + 1 = 2
    OBVIOUS
  <2> HIDE DEF n
  <2>3. stack[t][n].old = stack[t][2].id
    BY <2>1, <2>2, <1>1, <1>3 DEF Handed
  <2> QED
    BY <2>3 DEF n
<1> QED
  BY <1>3, <1>4, <1>5, <1>6, <1>7

LEMMA TellableCall ==
  ASSUME Sound, NEW t \in Task, AtTop(t, "call"), NEW c, c = Top(t).id, NEW e, e = calls[c].entry,
         e # None, ~calls[c].failed, Wants(ctx[t], e), Holding(ctx[t], e) = None
  PROVE  Tellable(c)
<1>0. entries \in Seq(EntryT) /\ attempts \in Seq(AttemptT)
  BY DEF Sound, Inv, Typed
<1>1. 1 \in DOMAIN stack[t] /\ Top(t) = stack[t][1] /\ stack[t][1].kind = "call" /\ c \in DOMAIN calls /\ c = stack[t][1].id
  BY Innermost DEF Marks
<1>2. e \in DOMAIN entries
  BY <1>1 DEF Sound, Inv, Named, CallNames, OrNone
<1>3. Leans(calls[c], t, stack, entries, attempts)
  BY <1>1 DEF Sound, Inv, Data, Running, Depends
<1>4. entries[e].active /\ entries[e].wants
  BY DEF Wants
<1>5. ASSUME NEW y \in calls[c].under PROVE FALSE
  <2>1. entries[e].born < attempts[y].born
    BY <1>3 DEF Leans
  <2>2. PICK j \in DOMAIN stack[t] : stack[t][j].kind = "attempt" /\ stack[t][j].id = y
    BY <1>3 DEF Leans
  <2> DEFINE h == stack[t][2].id
  <2>3. 2 \in DOMAIN stack[t] /\ stack[t][2].kind \in Polls /\ 2 <= j /\ h \in DOMAIN attempts /\ attempts[h].alive /\ ctx[t].held = h
    BY <2>2, SecondPoll DEF Polls
  <2>4. attempts[h].born \in Nat /\ attempts[y].born \in Nat /\ attempts[y].born <= attempts[h].born
    <3> DEFINE n == 2
    <3>1. n \in Nat /\ n \in DOMAIN stack[t] /\ stack[t][n].kind \in Polls /\ n <= j /\ h = stack[t][n].id
      BY <2>3
    <3> HIDE DEF n, h
    <3> QED
      BY <3>1, <2>2, Younger
  <2>5. h # None
    BY <2>3, <1>0, Lengths DEF None
  <2>6. entries[e].born \in Nat
    <3>1. entries[e] \in EntryT
      BY <1>0, <1>2, Lengths
    <3> QED
      BY <3>1 DEF EntryT
  <2> HIDE DEF h
  <2>7. LiveAttempt(ctx[t]) = h
    BY <2>3, <2>5 DEF LiveAttempt
  <2>8. ~(entries[e].born > attempts[h].born)
    BY <2>1, <2>4, <2>6
  <2>9. Holding(ctx[t], e) = h
    BY <2>5, <2>7, <2>8 DEF Holding
  <2> QED
    BY <2>5, <2>9
<1> QED
  BY <1>1, <1>4, <1>5 DEF Tellable

LEMMA Earlier ==
  ASSUME NEW a \in Nat, NEW b \in Nat, NEW c \in Nat, a < b, b <= c
  PROVE  a < c
OBVIOUS

LEMMA Attempted ==
  ASSUME NEW S, NEW s \in Seq(S), NEW i \in DOMAIN s
  PROVE  i # None
BY DEF None

LEMMA TellableRecord ==
  ASSUME Sound, NEW t \in Task, AtTop(t, "flush"), NEW r, HeldBack(t, r),
         ~HandsOver(Top(t).old, calls[r.call].entry),
         Heard(calls[r.call].entry, r.asked)
  PROVE  Tellable(r.call)
<1> DEFINE f == stack[t][1]
           e == calls[r.call].entry
<1>0. entries \in Seq(EntryT) /\ attempts \in Seq(AttemptT)
  BY DEF Sound, Inv, Typed
<1>1. 1 \in DOMAIN stack[t] /\ Top(t) = f /\ f.kind = "flush" /\ f.kind \in Polls /\ f.id \in DOMAIN attempts
  BY Innermost DEF Polls
<1>2. Fileable(r, f.id, stack, entries, calls, attempts)
  <2>1. PICK m \in DOMAIN attempts[f.id].records : r = attempts[f.id].records[m]
    BY <1>1 DEF HeldBack
  <2> QED
    BY <2>1, <1>1, Held DEF Sound
<1>3. r.call \in DOMAIN calls /\ e # None /\ ~calls[r.call].failed /\ (r.asked => entries[e].wants)
  BY <1>2 DEF Fileable, Fit
<1>4. e \in DOMAIN entries
  BY <1>3 DEF Sound, Inv, Named, CallNames, OrNone
<1>5. ASSUME NEW y \in calls[r.call].under PROVE attempts[y].end \in {"passed", "cut"}
  <2>1. Awaited(y, t, 1, stack, attempts) /\ entries[e].born < attempts[y].born
    BY <1>1, <1>2 DEF Fileable, Fit
  <2>2. ASSUME NEW j \in DOMAIN stack[t], stack[t][j].kind = "attempt", stack[t][j].id = y PROVE FALSE
    <3> DEFINE h == stack[t][2].id
    <3>1. /\ 2 \in DOMAIN stack[t] /\ stack[t][2].kind \in Polls /\ 2 <= j /\ h \in DOMAIN attempts /\ attempts[h].alive
          /\ f.old = h
      BY <2>2, SecondPoll DEF Polls
    <3>2. attempts[h].born \in Nat /\ attempts[y].born \in Nat /\ attempts[y].born <= attempts[h].born
      <4> DEFINE n == 2
      <4>1. n \in Nat /\ n \in DOMAIN stack[t] /\ stack[t][n].kind \in Polls /\ n <= j /\ h = stack[t][n].id
        BY <3>1
      <4> HIDE DEF n, h, f
      <4> QED
        BY <4>1, <2>2, Younger
    <3>3. h # None
      BY <3>1, <1>0, Attempted
    <3>4. entries[e].born \in Nat
      <4>1. entries[e] \in EntryT
        BY <1>0, <1>4, Lengths
      <4> QED
        BY <4>1 DEF EntryT
    <3>5. entries[e].born < attempts[h].born
      BY <2>1, <3>2, <3>4, Earlier
    <3> HIDE DEF h, f, e
    <3>6. HandsOver(h, e)
      BY <3>1, <3>3, <3>5 DEF HandsOver
    <3> QED
      BY <3>6, <3>1, <1>1 DEF e
  <2> QED
    BY <2>1, <2>2 DEF Awaited
<1> QED
  BY <1>3, <1>5 DEF Tellable, Heard

LEMMA ToldStep ==
  ASSUME IInv, NEW t \in Task, Inner(t)
  PROVE  reported' = reported \/ \E c : reported' = Append(reported, c) /\ Tellable(c)
<1>1. Sound
  BY DEF IInv
<1>2. CASE Return(t)
  <2> DEFINE c == Top(t).id
             e == calls[c].entry
             toReport == e # None /\ ~calls[c].failed /\ Wants(ctx[t], e)
             a == Holding(ctx[t], e)
  <2>1. CASE toReport /\ a = None /\ Tell(t, c, stack[t], [calls EXCEPT ![c].passed = TRUE])
    <3>1. Tellable(c)
      BY <2>1, <1>1, <1>2, TellableCall DEF Return
    <3> QED
      BY <3>1, <2>1 DEF Tell
  <2>2. CASE UNCHANGED reported
    BY <2>2
  <2> QED
    BY <2>1, <2>2, <1>2 DEF Return
<1>3. CASE FlushStep(t)
  <2> DEFINE rs == attempts[Top(t).id].records
             r == Head(rs)
             e == calls[r.call].entry
  <2>1. CASE ~HandsOver(Top(t).old, e) /\ Heard(e, r.asked) /\ Tell(t, r.call, stack[t], calls)
    <3>1. AtTop(t, "flush") /\ rs # <<>> /\ Top(t) = stack[t][1] /\ Top(t).id \in DOMAIN attempts
      BY <1>1, <1>3, Innermost DEF FlushStep, Polls
    <3>2. rs \in Seq(RecordT)
      <4>1. attempts[Top(t).id] \in AttemptT
        BY <3>1, <1>1, Lengths DEF Sound, Inv, Typed
      <4> QED
        BY <4>1 DEF AttemptT
    <3>3. 1 \in DOMAIN rs /\ r = rs[1]
      BY <3>1, <3>2
    <3>5. HeldBack(t, r)
      BY <3>3 DEF HeldBack
    <3>4. Tellable(r.call)
      BY <3>1, <3>5, <2>1, <1>1, TellableRecord
    <3> QED
      BY <3>4, <2>1 DEF Tell
  <2>2. CASE UNCHANGED reported
    BY <2>2
  <2> QED
    BY <2>1, <2>2, <1>3 DEF FlushStep
<1>4. CASE ~Return(t) /\ ~FlushStep(t)
  BY <1>4 DEF Inner, Begin, BeginQuietly, Observe, MarkFailed, TellEnds, BeginAttempt, PassAttempt, FlushEnds, RaiseFromCall,
              RaiseFromAttempt, RaiseFromFlush
<1> QED
  BY <1>2, <1>3, <1>4

-----------------------------------------------------------------------------
(* The invariant *)

LEMMA InitInv == Init => IInv
<1> SUFFICES ASSUME Init PROVE IInv
  OBVIOUS
<1>1. stack \in [Task -> Seq(FrameT)] /\ \A t \in Task : stack[t] = <<>> /\ DOMAIN stack[t] = {}
  BY DEF Init
<1>2. ctx \in [Task -> CtxT] /\ \A t \in Task : ctx[t].scope = None /\ ctx[t].observed = None /\ ctx[t].held = None
  BY DEF Init, CtxT, None
<1>3. /\ entries \in Seq(EntryT) /\ calls \in Seq(CallT) /\ attempts \in Seq(AttemptT)
      /\ DOMAIN entries = {} /\ DOMAIN calls = {} /\ DOMAIN attempts = {}
  BY DEF Init
<1>4. Typed(stack, ctx, entries, calls, attempts)
  BY <1>1, <1>2, <1>3 DEF Typed
<1>5. Named(stack, ctx, entries, calls, attempts)
  BY <1>1, <1>2, <1>3 DEF Named, ContextNames, FrameNames, EntryNames, CallNames, AttemptNames, RecordNames, OrNone
<1>6. Births(entries, attempts)
  BY <1>3 DEF Births
<1>7. Struct(stack, ctx, calls, attempts)
  BY <1>1, <1>2, <1>3 DEF Struct, Stacked, Shaped, Handed, Watched, Single, Marked, Holds, Ends, Nested
<1>8. Data(stack, entries, calls, attempts)
  BY <1>1, <1>2, <1>3 DEF Data, Running, Recorded, Wanted, Settled, Reportable
<1>9. Sound
  BY <1>4, <1>5, <1>6, <1>7, <1>8 DEF Sound, Inv
<1>10. own \in [Task -> Nat] /\ \A t \in Task : own[t] = 0
  BY DEF Init
<1>11. Blocks(own, ctx, entries)
  <2> DEFINE c == [t \in Task |-> [i \in Nat |-> 0]]
  <2>1. c \in Chains
    BY DEF Chains
  <2> HIDE DEF c
  <2>2. \A t \in Task : ~(own[t] > 0) /\ 1..own[t] = {}
    BY <1>10
  <2> QED
    BY <2>1, <2>2 DEF Blocks, Chained
<1>12. started \subseteq Task /\ builders \subseteq OrNone(entries) /\ reported \in Seq(Nat)
  BY DEF Init, OrNone, None, Plain
<1> QED
  BY <1>1, <1>9, <1>10, <1>11, <1>12 DEF IInv, Idle

LEMMA NextInv == IInv /\ [Next]_vars => IInv'
<1> SUFFICES ASSUME IInv, [Next]_vars PROVE IInv'
  OBVIOUS
<1>0. /\ Sound /\ started \subseteq Task /\ own \in [Task -> Nat] /\ Idle
      /\ builders \subseteq OrNone(entries) /\ reported \in Seq(Nat) /\ Blocks(own, ctx, entries)
  BY DEF IInv
<1>1. stack \in [Task -> Seq(FrameT)] /\ ctx \in [Task -> CtxT] /\ entries \in Seq(EntryT) /\ calls \in Seq(CallT)
  BY <1>0 DEF Sound, Inv, Typed
<1>2. CASE UNCHANGED vars
  BY <1>0, <1>2 DEF vars, IInv, Sound, Inv, Idle, Blocks, Chained, OrNone
<1>3. ASSUME NEW t \in Task, Start(t) PROVE IInv'
  BY <1>0, <1>3 DEF Start, IInv, Sound, Inv, Idle
<1>4. ASSUME NEW t \in Task, NEW u \in Task, Fork(t, u) PROVE IInv'
  <2>1. own[u] = 0 /\ stack[u] = <<>>
    BY <1>0, <1>4 DEF Fork, Idle
  <2>2. SoundAfter
    BY <2>1, <1>0, <1>4, ForkStep
  <2>3. ctx' = [ctx EXCEPT ![u] = ctx[t]]
    BY <1>4 DEF Fork
  <2>4. \A v \in Task : own[v] > 0 => ctx'[v].scope = ctx[v].scope
    BY <2>1, <2>3, <1>1
  <2>5. Blocks(own, ctx', entries)
    BY <2>4, <1>0, SameBlocks
  <2>6. /\ UNCHANGED <<own, stack, entries, builders, reported>> /\ started' = started \cup {u}
    BY <1>4 DEF Fork
  <2> QED
    BY <2>2, <2>5, <2>6, <1>0 DEF IInv, SoundAfter, Sound, Idle
<1>5. ASSUME NEW t \in Task, NEW wants \in BOOLEAN, Enter(t, wants) PROVE IInv'
  <2>1. SoundAfter /\ Blocks(own', ctx', entries') /\ own' \in [Task -> Nat]
    BY <1>0, <1>5, EnterStep
  <2>2. /\ UNCHANGED <<started, stack, builders, reported>> /\ t \in started
        /\ own' = [own EXCEPT ![t] = @ + 1]
    BY <1>5 DEF Enter, UserRuns
  <2>3. Idle'
    BY <2>2, <1>0 DEF Idle
  <2>4. entries' \in Seq(EntryT) /\ DOMAIN entries \subseteq DOMAIN entries'
    <3>1. entries' \in Seq(EntryT) /\ Len(entries') = Len(entries) + 1
      <4>1. PICK e : entries' = Append(entries, e)
        BY <1>5 DEF Enter
      <4>2. entries' \in Seq(EntryT)
        BY <2>1 DEF SoundAfter, Inv, Typed
      <4>3. Len(Append(entries, e)) = Len(entries) + 1
        BY <1>1
      <4> QED
        BY <4>1, <4>2, <4>3
    <3> QED
      BY <3>1, <1>1, Lengths
  <2>5. builders' \subseteq OrNone(entries')
    BY <2>2, <2>4, <1>0 DEF OrNone
  <2> QED
    BY <2>1, <2>2, <2>3, <2>5, <1>0 DEF IInv, SoundAfter, Sound
<1>6. ASSUME NEW t \in Task, Leave(t) PROVE IInv'
  <2>1. /\ SoundAfter /\ Blocks(own', ctx', entries') /\ own' \in [Task -> Nat]
        /\ ctx[t].scope \in DOMAIN entries /\ entries' = Shut(entries, ctx[t].scope)
    BY <1>0, <1>6, LeaveStep
  <2>2. /\ UNCHANGED <<started, stack, builders, reported>> /\ t \in started
        /\ own' = [own EXCEPT ![t] = @ - 1]
    BY <1>6 DEF Leave, UserRuns
  <2>3. Idle'
    BY <2>2, <1>0 DEF Idle
  <2>4. DOMAIN entries' = DOMAIN entries
    BY <2>1, <1>1, Shutting
  <2>5. builders' \subseteq OrNone(entries')
    BY <2>2, <2>4, <1>0 DEF OrNone
  <2> QED
    BY <2>1, <2>2, <2>3, <2>5, <1>0 DEF IInv, SoundAfter, Sound
<1>7. ASSUME NEW t \in Task, Make(t) PROVE IInv'
  <2>1. ActiveScope(ctx[t]) \in OrNone(entries) /\ Plain \in OrNone(entries)
    BY <1>0 DEF Sound, Inv, Named, ContextNames, ActiveScope, OrNone, None, Plain
  <2>2. builders' \subseteq OrNone(entries)
    BY <2>1, <1>0, <1>7 DEF Make
  <2> QED
    BY <2>2, <1>0, <1>7 DEF Make, IInv, Sound, Idle
<1>8. ASSUME NEW t \in Task, Inner(t) PROVE IInv'
  <2>1. SoundAfter /\ Untouched(t)
    BY <1>8, InnerStep
  <2>2. UNCHANGED <<started, own, entries, builders>> /\ t \in started
    BY <2>1 DEF Untouched
  <2>3. Blocks(own, ctx', entries)
    BY <2>1, <1>0, SameBlocks DEF Untouched
  <2>4. Idle'
    BY <2>1, <2>2, <1>0 DEF Idle, Untouched
  <2>5. reported' \in Seq(Nat)
    <3>1. CASE reported' = reported
      BY <3>1, <1>0
    <3>2. ASSUME NEW c, reported' = Append(reported, c), Tellable(c) PROVE reported' \in Seq(Nat)
      <4>1. c \in Nat
        BY <3>2, <1>1, Lengths DEF Tellable
      <4> QED
        BY <4>1, <3>2, <1>0
    <3> QED
      BY <3>1, <3>2, <1>8, ToldStep
  <2> QED
    BY <2>1, <2>2, <2>3, <2>4, <2>5, <1>0 DEF IInv, SoundAfter, Sound
<1> QED
  BY <1>2, <1>3, <1>4, <1>5, <1>6, <1>7, <1>8 DEF Next, Inner

\* What holds of the frames, the calls and the attempts, over every run.
THEOREM PassesHold == Spec => []IInv
<1>1. Init => IInv
  BY InitInv
<1>2. IInv /\ [Next]_vars => IInv'
  BY NextInv
<1> QED
  BY <1>1, <1>2, PTL DEF Spec

LEMMA OnStacks ==
  ASSUME NEW kinds, NEW id
  PROVE  OnAStack(kinds, id) <=> On(stack, kinds, id)
<1>1. ASSUME NEW t \in Task
      PROVE  (\E f \in Frames(t) : f.kind \in kinds /\ f.id = id) <=>
             (\E i \in DOMAIN stack[t] : stack[t][i].kind \in kinds /\ stack[t][i].id = id)
  BY DEF Frames, ToSet
<1> QED
  BY <1>1 DEF OnAStack, On

\* A marker is alive exactly as long as what it stands for runs.
THEOREM MarkersAreTrue == Spec => []AliveIsRunning
<1>1. IInv => AliveIsRunning
  <2> SUFFICES ASSUME IInv PROVE AliveIsRunning
    OBVIOUS
  <2>1. Marked(stack, calls) /\ Holds(stack, attempts)
    BY DEF IInv, Sound, Inv, Struct
  <2>2. ASSUME NEW c \in DOMAIN calls PROVE calls[c].alive <=> OnAStack({"call", "tell"}, c)
    BY <2>1, OnStacks DEF Marked, Marks
  <2>3. ASSUME NEW a \in DOMAIN attempts PROVE attempts[a].alive <=> OnAStack({"attempt"}, a)
    BY <2>1, OnStacks DEF Holds
  <2> QED
    BY <2>2, <2>3 DEF AliveIsRunning
<1> QED
  BY <1>1, PassesHold, PTL

\* Nothing asked inside an observed assertion or a callback is observed itself.
THEOREM InnerIsQuiet == Spec => []OnlyOutermost
<1>1. IInv => OnlyOutermost
  <2> SUFFICES ASSUME IInv, NEW t \in Task, NEW i \in DOMAIN stack[t], NEW j \in DOMAIN stack[t],
                      i < j, stack[t][j].kind \in {"call", "tell"}
               PROVE  stack[t][i].kind = "tell"
    BY DEF OnlyOutermost
  <2>1. Shaped(stack[t]) /\ stack[t] \in Seq(FrameT)
    BY DEF IInv, Sound, Inv, Struct, Stacked, Typed
  <2>2. i \in Nat /\ j \in Nat /\ 1 <= i /\ 1 <= j
    BY <2>1, Lengths
  <2>3. j # 1
    BY <2>2
  <2>4. stack[t][j].kind = "call" /\ j = 2 /\ stack[t][1].kind = "tell"
    BY <2>1, <2>3 DEF Shaped
  <2>5. i = 1
    BY <2>2, <2>4
  <2> QED
    BY <2>4, <2>5
<1> QED
  BY <1>1, PassesHold, PTL

\* Nothing but a step of a task inside blocks, calls and attempts tells a pass.
LEMMA JustOne ==
  ASSUME IInv, [Next]_vars, NEW c \in JustTold
  PROVE  Tellable(c)
<1>1. reported \in Seq(Nat)
  BY DEF IInv
<1>2. CASE reported' = reported
  BY <1>2 DEF JustTold
<1>3. ASSUME NEW d, reported' = Append(reported, d), Tellable(d) PROVE Tellable(c)
  <2>1. d \in Nat
    <3>1. calls \in Seq(CallT)
      BY DEF IInv, Sound, Inv, Typed
    <3> QED
      BY <3>1, <1>3, Lengths DEF Tellable
  <2>2. Extended(reported, reported', Len(reported) + 1, d)
    BY <2>1, <1>1, <1>3, Extending
  <2>3. PICK i \in DOMAIN reported' : c = reported'[i]
    BY DEF JustTold, ToSet
  <2>4. i \notin DOMAIN reported
    BY <2>2, <2>3 DEF JustTold, ToSet, Extended
  <2>5. c = d
    BY <2>2, <2>3, <2>4 DEF Extended
  <2> QED
    BY <2>5, <1>3
<1>4. ASSUME NEW t \in Task, Inner(t) PROVE Tellable(c)
  BY <1>2, <1>3, <1>4, ToldStep
<1>5. CASE \A t \in Task : ~Inner(t)
  <2>1. UNCHANGED reported
    BY <1>5 DEF Next, Inner, vars, Start, Fork, Enter, Leave, Make
  <2> QED
    BY <2>1, <1>2
<1> QED
  BY <1>4, <1>5

\* A pass is told only of an assertion that failed nowhere, once every attempt it leaned on has passed.
THEOREM TellsWhatPassed == Spec => OnlyWhatPassed
<1> DEFINE A == \A c \in JustTold :
                  /\ calls[c].entry # None /\ ~calls[c].failed
                  /\ \A a \in calls[c].under : attempts[a].end \in {"passed", "cut"}
<1>1. IInv /\ [Next]_vars => A
  BY JustOne DEF Tellable
<1>2. Spec => [][A]_vars
  <2> HIDE DEF A
  <2> QED
    BY <1>1, PassesHold, PTL DEF Spec
<1> QED
  BY <1>2 DEF OnlyWhatPassed

\* A pass is told to an entry that is open and wants it.
THEOREM TellsTheOpenBlock == Spec => IntoOpenEntry
<1> DEFINE A == \A c \in JustTold : LET e == calls[c].entry IN entries[e].active /\ entries[e].wants
<1>1. IInv /\ [Next]_vars => A
  BY JustOne DEF Tellable
<1>2. Spec => [][A]_vars
  <2> HIDE DEF A
  <2> QED
    BY <1>1, PassesHold, PTL DEF Spec
<1> QED
  BY <1>2 DEF IntoOpenEntry

-----------------------------------------------------------------------------
(* The factory of builders *)

Open(es) == {e \in DOMAIN es : es[e].active}

LEMMA OpenIsFinite ==
  ASSUME NEW es \in Seq(EntryT)
  PROVE  IsFiniteSet(Open(es)) /\ Cardinality(Open(es)) \in Nat /\ (Cardinality(Open(es)) > 0 <=> Open(es) # {})
<1>1. DOMAIN es = 1..Len(es) /\ 1 \in Int /\ Len(es) \in Int
  BY Lengths
<1>2. IsFiniteSet(DOMAIN es)
  BY <1>1, FS_Interval
<1>3. Open(es) \in SUBSET DOMAIN es
  BY DEF Open
<1>4. IsFiniteSet(Open(es))
  BY <1>2, <1>3, FS_Subset
<1>5. Cardinality(Open(es)) \in Nat
  BY <1>4, FS_CardinalityType
<1>6. Cardinality(Open(es)) = 0 <=> Open(es) = {}
  BY <1>4, FS_EmptySet
<1> QED
  BY <1>4, <1>5, <1>6

\* Builders are made by the scoped factory exactly while some entry is open, and the count is of the open ones.
Matches == openBlocks = Cardinality(Open(entries)) /\ (factory = "scoped" <=> Open(entries) # {})

LEMMA Factories ==
  ASSUME NEW n \in Nat
  PROVE  FactoryFor(n) = "scoped" <=> n > 0
BY DEF FactoryFor

\* A task in any entry has builders made that report, whichever order the entries are left in.
THEOREM BuildersAreScoped == Spec => []FactoryMatches
<1>1. Init => Matches
  <2> SUFFICES ASSUME Init PROVE Matches
    OBVIOUS
  <2>1. Open(entries) = {} /\ openBlocks = 0 /\ factory = "plain"
    BY DEF Init, Open
  <2> QED
    BY <2>1, FS_EmptySet DEF Matches
<1>2. IInv /\ Matches /\ [Next]_vars => Matches'
  <2> SUFFICES ASSUME IInv, Matches, [Next]_vars PROVE Matches'
    OBVIOUS
  <2>0. /\ Sound /\ own \in [Task -> Nat] /\ Blocks(own, ctx, entries) /\ entries \in Seq(EntryT)
        /\ IsFiniteSet(Open(entries)) /\ Cardinality(Open(entries)) \in Nat /\ openBlocks = Cardinality(Open(entries))
    <3>1. Sound /\ own \in [Task -> Nat] /\ Blocks(own, ctx, entries) /\ entries \in Seq(EntryT)
      BY DEF IInv, Sound, Inv, Typed
    <3> QED
      BY <3>1, OpenIsFinite DEF Matches
  <2>1. CASE UNCHANGED <<entries, openBlocks, factory>>
    BY <2>1 DEF Matches, Open
  <2>2. ASSUME NEW t \in Task, NEW wants \in BOOLEAN, Enter(t, wants) PROVE Matches'
    <3> DEFINE e == [active |-> TRUE, wants |-> wants, born |-> NextBirth, previous |-> ctx[t].scope]
               n == Len(entries) + 1
    <3>1. SoundAfter
      BY <2>0, <2>2, EnterStep
    <3>2. entries' = Append(entries, e) /\ openBlocks' = openBlocks + 1 /\ factory' = FactoryFor(openBlocks')
      BY <2>2 DEF Enter
    <3>3. entries' \in Seq(EntryT)
      BY <3>1 DEF SoundAfter, Inv, Typed
    <3>4. e \in EntryT /\ e.active
      <4>1. attempts \in Seq(AttemptT) /\ ctx \in [Task -> CtxT]
        BY <2>0 DEF Sound, Inv, Typed
      <4>2. NextBirth \in Nat /\ ctx[t].scope \in Nat
        BY <4>1, <2>0, Lengths DEF NextBirth, CtxT
      <4> QED
        BY <4>2 DEF EntryT
    <3> HIDE DEF e
    <3>5. Extended(entries, entries', n, e)
      BY <3>2, <3>4, <2>0, Extending
    <3>6. Open(entries') = Open(entries) \cup {n} /\ n \notin Open(entries)
      BY <3>4, <3>5 DEF Extended, Open
    <3>7. Cardinality(Open(entries')) = Cardinality(Open(entries)) + 1
      BY <3>6, <2>0, FS_AddElement
    <3>8. openBlocks' = Cardinality(Open(entries'))
      BY <3>2, <3>7, <2>0
    <3> QED
      BY <3>2, <3>3, <3>8, OpenIsFinite, Factories DEF Matches
  <2>3. ASSUME NEW t \in Task, Leave(t) PROVE Matches'
    <3> DEFINE e == ctx[t].scope
    <3>1. SoundAfter /\ e \in DOMAIN entries /\ entries[e].active /\ entries' = Shut(entries, e)
      BY <2>0, <2>3, LeaveStep
    <3>2. openBlocks' = openBlocks - 1 /\ factory' = FactoryFor(openBlocks')
      BY <2>3 DEF Leave
    <3>3. entries' \in Seq(EntryT)
      BY <3>1 DEF SoundAfter, Inv, Typed
    <3> HIDE DEF e
    <3>4. /\ DOMAIN entries' = DOMAIN entries /\ ~entries'[e].active
          /\ \A d \in DOMAIN entries : d # e => entries'[d] = entries[d]
      BY <3>1, <2>0, Shutting
    <3>5. Open(entries') = Open(entries) \ {e} /\ e \in Open(entries)
      BY <3>1, <3>4 DEF Open
    <3>6. Cardinality(Open(entries')) = Cardinality(Open(entries)) - 1
      BY <3>5, <2>0, FS_RemoveElement
    <3>7. openBlocks' = Cardinality(Open(entries'))
      BY <3>2, <3>6, <2>0
    <3> QED
      BY <3>2, <3>3, <3>7, OpenIsFinite, Factories DEF Matches
  <2>4. ASSUME NEW t \in Task, Inner(t) PROVE Matches'
    <3>1. UNCHANGED <<entries, openBlocks, factory>>
      BY <2>4, InnerStep DEF Untouched
    <3> QED
      BY <3>1, <2>1
  <2>5. ASSUME NEW t \in Task, Start(t) \/ Make(t) \/ \E u \in Task : Fork(t, u) PROVE Matches'
    <3>1. UNCHANGED <<entries, openBlocks, factory>>
      BY <2>5 DEF Start, Make, Fork
    <3> QED
      BY <3>1, <2>1
  <2>6. CASE UNCHANGED vars
    BY <2>1, <2>6 DEF vars
  <2> QED
    BY <2>2, <2>3, <2>4, <2>5, <2>6 DEF Next, Inner
<1>3. Matches => FactoryMatches
  BY DEF Matches, FactoryMatches, Open
<1> QED
  BY <1>1, <1>2, <1>3, PassesHold, PTL DEF Spec

-----------------------------------------------------------------------------
(* No pass is lost *)

\* Attempt a is one that runs or flushes, failed, or was cut short.
Left(a, k, hs) == hs[a].end \in {"failed", "cut"} \/ On(k, Polls, a)

Waits(c, k, hs) ==
  \E a \in DOMAIN hs : Left(a, k, hs) /\ \E i \in DOMAIN hs[a].records : hs[a].records[i].call = c

Unheard(c, es, cs) == ~es[cs[c].entry].active \/ ~es[cs[c].entry].wants

Carried(c, k, es, cs, hs, rep) == c \in ToSet(rep) \/ Unheard(c, es, cs) \/ Waits(c, k, hs)

Accounts(k, es, cs, hs, rep) == \A c \in DOMAIN cs : cs[c].passed => Carried(c, k, es, cs, hs, rep)

\* No call has passed in cs2 that had not in cs.
NoneAnew(cs, cs2) ==
  \A c \in DOMAIN cs2 : cs2[c].passed => c \in DOMAIN cs /\ cs[c].passed /\ cs2[c].entry = cs[c].entry

\* Attempts keep what they hold, and are not let go.
Kept(k, k2, hs, hs2) ==
  \A a \in DOMAIN hs : /\ a \in DOMAIN hs2 /\ hs2[a].records = hs[a].records
                       /\ Left(a, k, hs) /\ DOMAIN hs[a].records # {} => Left(a, k2, hs2)

LEMMA StillAccounted ==
  ASSUME NEW k, NEW k2, NEW es, NEW es2, NEW cs, NEW cs2, NEW hs, NEW hs2, NEW rep, NEW rep2,
         Accounts(k, es, cs, hs, rep),
         \A c \in DOMAIN cs2 : cs2[c].passed =>
           \/ c \in DOMAIN cs /\ cs[c].passed /\ cs2[c].entry = cs[c].entry
           \/ Carried(c, k2, es2, cs2, hs2, rep2),
         ToSet(rep) \subseteq ToSet(rep2),
         \A c \in DOMAIN cs : cs[c].passed => cs[c].entry \in DOMAIN es,
         \A e \in DOMAIN es : (es2[e].active => es[e].active) /\ es2[e].wants = es[e].wants,
         \A c \in DOMAIN cs : cs[c].passed /\ Waits(c, k, hs) => Carried(c, k2, es2, cs2, hs2, rep2)
  PROVE  Accounts(k2, es2, cs2, hs2, rep2)
<1>1. ASSUME NEW c \in DOMAIN cs2, cs2[c].passed, c \in DOMAIN cs, cs[c].passed, cs2[c].entry = cs[c].entry
      PROVE  Carried(c, k2, es2, cs2, hs2, rep2)
  <2>1. Carried(c, k, es, cs, hs, rep)
    BY <1>1 DEF Accounts
  <2>2. CASE c \in ToSet(rep)
    BY <2>2 DEF Carried
  <2>3. CASE Unheard(c, es, cs)
    <3>1. Unheard(c, es2, cs2)
      BY <2>3, <1>1 DEF Unheard
    <3> QED
      BY <3>1 DEF Carried
  <2>4. CASE Waits(c, k, hs)
    BY <2>4, <1>1
  <2> QED
    BY <2>1, <2>2, <2>3, <2>4 DEF Carried
<1> QED
  BY <1>1 DEF Accounts

LEMMA StillWaits ==
  ASSUME NEW k, NEW k2, NEW hs, NEW hs2, Kept(k, k2, hs, hs2), NEW c, Waits(c, k, hs)
  PROVE  Waits(c, k2, hs2)
BY DEF Kept, Waits

LEMMA AnyAppend ==
  ASSUME NEW S, NEW s \in Seq(S), NEW e
  PROVE  Extended(s, Append(s, e), Len(s) + 1, e)
<1>1. s \in Seq(S \cup {e}) /\ e \in S \cup {e}
  OBVIOUS
<1> QED
  BY <1>1, Extending

LEMMA AnyPush ==
  ASSUME NEW k \in [Task -> Seq(FrameT)], NEW t \in Task, NEW f, NEW hs
  PROVE  Kept(k, [k EXCEPT ![t] = <<f>> \o k[t]], hs, hs)
<1> DEFINE s == k[t]
           r == <<f>> \o s
           k2 == [k EXCEPT ![t] = r]
           S == FrameT \cup {f}
<1>1. s \in Seq(S) /\ <<f>> \in Seq(S)
  OBVIOUS
<1>2. Len(r) = Len(s) + 1 /\ Len(s) \in Nat /\ \A i \in 1..Len(s) : r[i + 1] = s[i]
  BY <1>1
<1>3. DOMAIN s = 1..Len(s) /\ DOMAIN r = 1..Len(r)
  BY <1>1
<1>4. k2[t] = r /\ s = k[t] /\ \A u \in Task : u # t => k2[u] = k[u]
  OBVIOUS
<1> HIDE DEF s, r, k2, S
<1>5. \A i \in DOMAIN s : i + 1 \in DOMAIN r /\ r[i + 1] = s[i]
  BY <1>2, <1>3
<1>6. ASSUME NEW id, On(k, Polls, id) PROVE On(k2, Polls, id)
  <2>1. PICK u \in Task : \E i \in DOMAIN k[u] : k[u][i].kind \in Polls /\ k[u][i].id = id
    BY <1>6 DEF On
  <2>2. PICK i \in DOMAIN k[u] : k[u][i].kind \in Polls /\ k[u][i].id = id
    BY <2>1
  <2>3. CASE u = t
    <3>1. i + 1 \in DOMAIN k2[t] /\ k2[t][i + 1] = k[u][i]
      BY <2>3, <1>4, <1>5
    <3> QED
      BY <3>1, <2>2 DEF On
  <2>4. CASE u # t
    BY <2>2, <2>4, <1>4 DEF On
  <2> QED
    BY <2>3, <2>4
<1>7. Kept(k, k2, hs, hs)
  BY <1>6 DEF Kept, Left
<1> QED
  BY <1>7 DEF k2, r, s

\* A frame that is of no attempt goes.
LEMMA MarkGoes ==
  ASSUME NEW k \in [Task -> Seq(FrameT)], NEW t \in Task, k[t] # <<>>, Head(k[t]).kind \notin Polls, NEW hs
  PROVE  Kept(k, [k EXCEPT ![t] = Tail(@)], hs, hs) /\ [k EXCEPT ![t] = Tail(@)] \in [Task -> Seq(FrameT)]
<1> DEFINE k2 == [k EXCEPT ![t] = Tail(@)]
<1>1. Grown(k2, k, t, Head(k[t])) /\ k2 \in [Task -> Seq(FrameT)]
  BY Popping
<1> HIDE DEF k2
<1>2. \A id : On(k, Polls, id) => On(k2, Polls, id)
  BY <1>1, Names
<1>3. Kept(k, k2, hs, hs)
  BY <1>2 DEF Kept, Left
<1> QED
  BY <1>1, <1>3 DEF k2

\* The frame of an attempt goes, that holds nothing or has come to its end.
LEMMA PollGoes ==
  ASSUME NEW k \in [Task -> Seq(FrameT)], NEW t \in Task, k[t] # <<>>, NEW a, a = Head(k[t]).id, NEW hs, NEW hs2,
         \A b \in DOMAIN hs : /\ b \in DOMAIN hs2 /\ hs2[b].records = hs[b].records
                              /\ b # a => hs2[b].end = hs[b].end,
         (DOMAIN hs[a].records = {} /\ hs2 = hs) \/ hs2[a].end \in {"failed", "cut"}
  PROVE  Kept(k, [k EXCEPT ![t] = Tail(@)], hs, hs2)
<1> DEFINE k2 == [k EXCEPT ![t] = Tail(@)]
<1>1. Grown(k2, k, t, Head(k[t])) /\ k2 \in [Task -> Seq(FrameT)]
  BY Popping
<1> HIDE DEF k2
<1>2. \A id : On(k, Polls, id) => On(k2, Polls, id) \/ id = a
  BY <1>1, Names
<1>3. Kept(k, k2, hs, hs2)
  BY <1>2 DEF Kept, Left
<1> QED
  BY <1>3 DEF k2

LEMMA PollIsOver ==
  ASSUME NEW k \in [Task -> Seq(FrameT)], NEW t \in Task, k[t] # <<>>, NEW a, a = Head(k[t]).id, NEW hs, NEW hs2,
         NEW alive, NEW end, end \in {"failed", "cut"}, Closed(hs, hs2, a, alive, end)
  PROVE  Kept(k, [k EXCEPT ![t] = Tail(@)], hs, hs2)
<1>1. \A b \in DOMAIN hs : /\ b \in DOMAIN hs2 /\ hs2[b].records = hs[b].records
                           /\ b # a => hs2[b].end = hs[b].end
  BY DEF Closed
<1>2. hs2[a].end \in {"failed", "cut"}
  BY DEF Closed
<1> QED
  BY <1>1, <1>2, PollGoes

\* What calls may change so that none has passed anew.
LEMMA Unpassed ==
  ASSUME NEW cs \in Seq(CallT)
  PROVE  /\ \A c \in DOMAIN cs : NoneAnew(cs, Silenced(cs, c)) /\ NoneAnew(cs, Blamed(cs, c))
         /\ \A m : ~m.passed => NoneAnew(cs, Append(cs, m))
<1>1. ASSUME NEW c \in DOMAIN cs PROVE NoneAnew(cs, Silenced(cs, c)) /\ NoneAnew(cs, Blamed(cs, c))
  <2>1. Reflagged(cs, Silenced(cs, c)) /\ \A d \in DOMAIN cs : Silenced(cs, c)[d].passed = cs[d].passed
    BY Flags
  <2>2. Reflagged(cs, Blamed(cs, c)) /\ \A d \in DOMAIN cs : Blamed(cs, c)[d].passed = cs[d].passed
    BY Flags
  <2>3. NoneAnew(cs, Silenced(cs, c))
    BY <2>1 DEF Reflagged, NoneAnew
  <2>4. NoneAnew(cs, Blamed(cs, c))
    BY <2>2 DEF Reflagged, NoneAnew
  <2> QED
    BY <2>3, <2>4
<1>2. ASSUME NEW m, ~m.passed PROVE NoneAnew(cs, Append(cs, m))
  <2>1. Extended(cs, Append(cs, m), Len(cs) + 1, m)
    BY AnyAppend
  <2> QED
    BY <2>1, <1>2 DEF Extended, NoneAnew
<1> QED
  BY <1>1, <1>2

Accounted0 == Accounts(stack, entries, calls, attempts, reported)
AccountedAfter == Accounts(stack', entries', calls', attempts', reported')

LEMMA PassedSomewhere ==
  ASSUME Sound, NEW c \in DOMAIN calls, calls[c].passed
  PROVE  calls[c].entry \in DOMAIN entries
BY DEF Sound, Inv, Data, Reportable, Named, CallNames, OrNone

\* A step at which nothing passes and nothing is told.
LEMMA QuietAccount ==
  ASSUME Sound, Accounted0, NoneAnew(calls, calls'), UNCHANGED <<entries, reported>>,
         Kept(stack, stack', attempts, attempts')
  PROVE  AccountedAfter
<1>1. \A c : Waits(c, stack, attempts) => Waits(c, stack', attempts')
  BY StillWaits
<1>2. \A c : Waits(c, stack, attempts) => Carried(c, stack', entries', calls', attempts', reported')
  BY <1>1 DEF Carried
<1>3. \A c \in DOMAIN calls : calls[c].passed => calls[c].entry \in DOMAIN entries
  BY PassedSomewhere
<1>4. \A c \in DOMAIN calls' : calls'[c].passed => c \in DOMAIN calls /\ calls[c].passed /\ calls'[c].entry = calls[c].entry
  BY DEF NoneAnew
<1>5. entries' = entries /\ ToSet(reported) \subseteq ToSet(reported')
  OBVIOUS
<1> QED
  BY <1>2, <1>3, <1>4, <1>5, StillAccounted DEF Accounted0, AccountedAfter

\* The steps at which no pass is held, handed on or told.
Passless(t) ==
  \/ \E e \in builders \ {Plain} : Begin(t, e)
  \/ BeginQuietly(t) \/ MarkFailed(t) \/ TellEnds(t)
  \/ BeginAttempt(t) \/ PassAttempt(t) \/ FlushEnds(t)
  \/ RaiseFromCall(t) \/ RaiseFromAttempt(t) \/ RaiseFromFlush(t)

LEMMA PasslessStep ==
  ASSUME Sound, Accounted0, NEW t \in Task, Passless(t)
  PROVE  AccountedAfter
<1>0. /\ stack \in [Task -> Seq(FrameT)] /\ calls \in Seq(CallT) /\ attempts \in Seq(AttemptT)
  BY DEF Sound, Inv, Typed
<1>1. ASSUME NEW m, ~m.passed, Observe(t, m) PROVE AccountedAfter
  <2>1. /\ calls' = Append(calls, m) /\ UNCHANGED <<entries, reported, attempts>>
        /\ stack' = [stack EXCEPT ![t] = <<[kind |-> "call", id |-> Len(calls'), old |-> ctx[t].observed]>> \o stack[t]]
    BY <1>1 DEF Observe, Pushed
  <2>2. Kept(stack, stack', attempts, attempts')
    BY <2>1, <1>0, AnyPush
  <2>3. NoneAnew(calls, calls')
    BY <2>1, <1>0, <1>1, Unpassed
  <2> QED
    BY <2>1, <2>2, <2>3, QuietAccount
<1>2. CASE \E e \in builders \ {Plain} : Begin(t, e)
  <2>1. PICK e \in builders \ {Plain} : Begin(t, e)
    BY <1>2
  <2> DEFINE m == [alive |-> TRUE, failed |-> FALSE, passed |-> FALSE, entry |-> e, by |-> t, under |-> AttemptsAround(t, e)]
  <2>2. Observe(t, m) /\ ~m.passed
    BY <2>1 DEF Begin
  <2> HIDE DEF m
  <2> QED
    BY <2>2, <1>1
<1>3. CASE BeginQuietly(t)
  BY <1>1, <1>3, Quieting DEF BeginQuietly
<1>4. CASE MarkFailed(t)
  <2> DEFINE c == CurrentCall(ctx[t])
  <2>1. c \in DOMAIN calls
    BY <1>4 DEF MarkFailed, CurrentCall, Sound, Inv, Named, ContextNames, OrNone
  <2>2. calls' = Blamed(calls, c) /\ UNCHANGED <<entries, reported, stack, attempts>>
    BY <1>4 DEF MarkFailed, Blamed
  <2> HIDE DEF c
  <2>3. NoneAnew(calls, calls')
    BY <2>1, <2>2, <1>0, Unpassed
  <2>4. Kept(stack, stack', attempts, attempts')
    BY <2>2 DEF Kept, Left
  <2> QED
    BY <2>2, <2>3, <2>4, QuietAccount
<1>5. CASE RaiseFromCall(t)
  <2>1. stack[t] # <<>> /\ Head(stack[t]).kind \notin Polls /\ Top(t).id \in DOMAIN calls
    BY <1>5, Innermost DEF RaiseFromCall, Polls, Marks, Top
  <2>2. calls' = Silenced(calls, Top(t).id) /\ UNCHANGED <<entries, reported, attempts>> /\ stack' = [stack EXCEPT ![t] = Tail(@)]
    BY <1>5 DEF RaiseFromCall, CallEnds, Silenced
  <2>3. Kept(stack, stack', attempts, attempts')
    BY <2>1, <2>2, <1>0, MarkGoes
  <2>4. NoneAnew(calls, calls')
    BY <2>1, <2>2, <1>0, Unpassed
  <2> QED
    BY <2>2, <2>3, <2>4, QuietAccount
<1>6. CASE BeginAttempt(t)
  <2>1. PICK h : attempts' = Append(attempts, h)
    BY <1>6 DEF BeginAttempt
  <2>2. /\ UNCHANGED <<calls, entries, reported>>
        /\ stack' = [stack EXCEPT ![t] = <<[kind |-> "attempt", id |-> Len(attempts'), old |-> ctx[t].held]>> \o stack[t]]
    BY <1>6 DEF BeginAttempt, Pushed
  <2>3. Kept(stack, stack', attempts, attempts)
    BY <2>2, <1>0, AnyPush
  <2>4. Extended(attempts, attempts', Len(attempts) + 1, h)
    BY <2>1, <1>0, AnyAppend
  <2>5. Kept(stack, stack', attempts, attempts')
    BY <2>3, <2>4 DEF Kept, Left, Extended
  <2>6. NoneAnew(calls, calls')
    BY <2>2 DEF NoneAnew
  <2> QED
    BY <2>2, <2>5, <2>6, QuietAccount
<1>7. CASE PassAttempt(t)
  <2> DEFINE f == stack[t][1]
             g == [kind |-> "flush", id |-> f.id, old |-> f.old]
  <2>1. /\ 1 \in DOMAIN stack[t] /\ Top(t) = f /\ f.kind = "attempt" /\ f \in FrameT /\ f.id \in DOMAIN attempts
        /\ stack[t] # <<>>
    BY <1>7, Innermost DEF PassAttempt, Polls
  <2>2. /\ attempts' = Ended(attempts, f.id, "passed") /\ UNCHANGED <<calls, entries, reported>>
        /\ stack' = [stack EXCEPT ![t] = <<g>> \o Tail(@)]
    BY <2>1, <1>7 DEF PassAttempt, Release, Ended
  <2>3. g \in FrameT /\ g.kind = "flush" /\ g.id = f.id
    BY <2>1 DEF FrameT, Polls
  <2>4. f = stack[t][1]
    OBVIOUS
  <2> HIDE DEF f, g
  <2>5. Replaced(stack, stack', t, g)
    BY <2>1, <2>2, <2>3, <1>0, Replacing
  <2>6. Closed(attempts, attempts', f.id, FALSE, "passed")
    BY <2>1, <2>2, <1>0, Closing
  <2>7. ASSUME NEW id, On(stack, Polls, id) PROVE On(stack', Polls, id)
    <3>1. PICK u \in Task : \E i \in DOMAIN stack[u] : stack[u][i].kind \in Polls /\ stack[u][i].id = id
      BY <2>7 DEF On
    <3>2. PICK i \in DOMAIN stack[u] : stack[u][i].kind \in Polls /\ stack[u][i].id = id
      BY <3>1
    <3>3. i \in DOMAIN stack'[u]
      BY <2>5 DEF Replaced
    <3>4. CASE u = t /\ i = 1
      <4>1. stack'[u][i] = g /\ g.id = id /\ g.kind \in Polls
        BY <3>2, <3>4, <2>3, <2>4, <2>5 DEF Replaced, Polls
      <4> QED
        BY <4>1, <3>3 DEF On
    <3>5. CASE ~(u = t /\ i = 1)
      <4>1. stack'[u][i] = stack[u][i]
        BY <3>5, <2>5 DEF Replaced
      <4> QED
        BY <4>1, <3>2, <3>3 DEF On
    <3> QED
      BY <3>4, <3>5
  <2>8. On(stack, Polls, f.id)
    BY <2>1, <2>4 DEF On, Polls
  <2>9. Kept(stack, stack', attempts, attempts')
    BY <2>6, <2>7, <2>8 DEF Kept, Left, Closed
  <2>10. NoneAnew(calls, calls')
    BY <2>2 DEF NoneAnew
  <2> QED
    BY <2>2, <2>9, <2>10, QuietAccount
<1>8. CASE FlushEnds(t)
  <2>1. stack[t] # <<>> /\ attempts[Head(stack[t]).id].records = <<>>
    BY <1>8, Innermost DEF FlushEnds, Top
  <2>2. UNCHANGED <<calls, entries, reported, attempts>> /\ stack' = [stack EXCEPT ![t] = Tail(@)]
    BY <1>8 DEF FlushEnds
  <2>3. DOMAIN attempts[Head(stack[t]).id].records = {}
    BY <2>1
  <2>4. Kept(stack, stack', attempts, attempts')
    BY <2>1, <2>2, <2>3, <1>0, PollGoes
  <2>5. NoneAnew(calls, calls')
    BY <2>2 DEF NoneAnew
  <2> QED
    BY <2>2, <2>4, <2>5, QuietAccount
<1>9. CASE RaiseFromAttempt(t)
  <2> DEFINE a == Head(stack[t]).id
  <2>1. stack[t] # <<>> /\ a \in DOMAIN attempts
    BY <1>9, Innermost DEF RaiseFromAttempt, Top, Polls
  <2>2. /\ UNCHANGED <<calls, entries, reported>> /\ stack' = [stack EXCEPT ![t] = Tail(@)]
        /\ attempts' = Ended(attempts, a, "failed")
    BY <1>9 DEF RaiseFromAttempt, Release, Ended, Top
  <2>3. a = Head(stack[t]).id
    OBVIOUS
  <2> HIDE DEF a
  <2>4. Closed(attempts, attempts', a, FALSE, "failed")
    BY <2>1, <2>2, <1>0, Closing
  <2>5. Kept(stack, stack', attempts, attempts')
    BY <2>1, <2>2, <2>3, <2>4, <1>0, PollIsOver
  <2>6. NoneAnew(calls, calls')
    BY <2>2 DEF NoneAnew
  <2> QED
    BY <2>2, <2>5, <2>6, QuietAccount
<1>10. CASE TellEnds(t) \/ RaiseFromFlush(t)
  <2> DEFINE k == [stack EXCEPT ![t] = Tail(@)]
             cs == Silenced(calls, Top(t).id)
             b == stack[t][2]
  <2>1. AtTop(t, "tell")
    BY <1>10 DEF TellEnds, RaiseFromFlush
  <2>2. stack[t] # <<>> /\ Head(stack[t]).kind \notin Polls /\ Top(t).id \in DOMAIN calls /\ Shaped(stack[t])
    BY <2>1, Innermost DEF Polls, Marks, Top
  <2>3. 2 \in DOMAIN stack[t] /\ b.kind \in {"call", "flush"} /\ 1 \in DOMAIN k[t] /\ k[t][1] = b
    BY <2>1, <1>0, TellOver, Second
  <2>4. /\ b.kind = "call" => b.id \in DOMAIN calls
        /\ b.kind = "flush" => b.id \in DOMAIN attempts
    BY <2>3 DEF Sound, Inv, Named, FrameNames, Marks, Polls
  <2>5. Kept(stack, k, attempts, attempts) /\ k \in [Task -> Seq(FrameT)]
    BY <2>2, <1>0, MarkGoes
  <2>6. NoneAnew(calls, cs) /\ cs \in Seq(CallT) /\ DOMAIN cs = DOMAIN calls
    BY <2>2, <1>0, Unpassed, Flags DEF Reflagged
  <2>7. k[t] # <<>> /\ Head(k[t]) = b
    <3>1. k[t] \in Seq(FrameT)
      BY <2>5
    <3> HIDE DEF k, b
    <3> QED
      BY <3>1, <2>3
  <2>8. UNCHANGED <<entries, reported>>
    BY <1>10 DEF TellEnds, RaiseFromFlush
  <2>9. CASE TellEnds(t) /\ b.kind = "flush"
    <3>1. stack' = k /\ calls' = cs /\ attempts' = attempts
      BY <2>9 DEF TellEnds, Silenced
    <3> QED
      BY <3>1, <2>5, <2>6, <2>8, QuietAccount
  <2>10. CASE TellEnds(t) /\ b.kind = "call"
    <3>1. stack' = [k EXCEPT ![t] = Tail(@)] /\ calls' = Silenced(cs, b.id) /\ attempts' = attempts
      BY <2>10 DEF TellEnds, Silenced
    <3>2. Head(k[t]).kind \notin Polls
      BY <2>7, <2>10 DEF Polls
    <3> HIDE DEF k, cs, b
    <3>3. Kept(k, stack', attempts, attempts)
      BY <3>1, <3>2, <2>5, <2>7, MarkGoes
    <3>4. Kept(stack, stack', attempts, attempts')
      BY <3>1, <3>3, <2>5 DEF Kept
    <3>5. NoneAnew(cs, calls')
      BY <3>1, <2>4, <2>6, <2>10, Unpassed
    <3>6. NoneAnew(calls, calls')
      BY <3>5, <2>6 DEF NoneAnew
    <3> QED
      BY <3>4, <3>6, <2>8, QuietAccount
  <2>11. CASE RaiseFromFlush(t)
    <3>1. /\ stack' = [k EXCEPT ![t] = Tail(@)] /\ calls' = cs /\ attempts' = CutShort(attempts, b.id)
          /\ b.kind = "flush"
      BY <2>11 DEF RaiseFromFlush, Silenced, CutShort
    <3> HIDE DEF k, cs, b
    <3>2. Closed(attempts, attempts', b.id, attempts[b.id].alive, "cut")
      BY <3>1, <2>4, <1>0, Closing
    <3>3. Kept(k, stack', attempts, attempts')
      BY <3>1, <3>2, <2>5, <2>7, PollIsOver
    <3>4. Kept(stack, stack', attempts, attempts')
      BY <3>3, <2>5 DEF Kept
    <3> QED
      BY <3>1, <3>4, <2>6, <2>8, QuietAccount
  <2> QED
    BY <2>3, <2>9, <2>10, <2>11, <1>10
<1> QED
  BY <1>2, <1>3, <1>4, <1>5, <1>6, <1>7, <1>8, <1>9, <1>10 DEF Passless

\* A call is among those an attempt holds back.
Among(c, rs) == \E i \in DOMAIN rs : rs[i].call = c

LEMMA Waiting ==
  ASSUME NEW c, NEW k, NEW hs
  PROVE  Waits(c, k, hs) <=> \E a \in DOMAIN hs : Left(a, k, hs) /\ Among(c, hs[a].records)
BY DEF Waits, Among

LEMMA StillAmong ==
  ASSUME NEW rs \in Seq(RecordT), NEW r
  PROVE  /\ \A c : Among(c, rs) => Among(c, Append(rs, r))
         /\ Among(r.call, Append(rs, r))
         /\ rs # <<>> => \A c : Among(c, rs) => Among(c, Tail(rs)) \/ c = Head(rs).call
<1>1. Extended(rs, Append(rs, r), Len(rs) + 1, r)
  BY AnyAppend
<1>2. Among(r.call, Append(rs, r)) /\ \A c : Among(c, rs) => Among(c, Append(rs, r))
  BY <1>1 DEF Extended, Among
<1>3. ASSUME rs # <<>>, NEW c, Among(c, rs) PROVE Among(c, Tail(rs)) \/ c = Head(rs).call
  <2> DEFINE ts == Tail(rs)
             h == Head(rs)
  <2>1. ts \in Seq(RecordT) /\ Len(ts) = Len(rs) - 1 /\ Len(rs) \in Nat /\ h = rs[1]
    BY <1>3
  <2>2. \A j \in 1..Len(ts) : ts[j] = rs[j + 1]
    BY <1>3, <2>1
  <2>3. DOMAIN rs = 1..Len(rs) /\ DOMAIN ts = 1..Len(ts)
    BY <2>1
  <2>4. PICK i \in DOMAIN rs : rs[i].call = c
    BY <1>3 DEF Among
  <2> HIDE DEF ts, h
  <2>5. CASE i = 1
    BY <2>1, <2>4, <2>5 DEF h
  <2>6. CASE i # 1
    <3> DEFINE j == i - 1
    <3>1. j \in 1..Len(ts) /\ j + 1 = i
      BY <2>1, <2>3, <2>6
    <3> HIDE DEF j
    <3>2. ts[j].call = c
      BY <3>1, <2>2, <2>4
    <3> QED
      BY <3>1, <3>2, <2>3 DEF Among, ts
  <2> QED
    BY <2>5, <2>6
<1> QED
  BY <1>2, <1>3

\* What is left does not depend on what is held back.
LEMMA StillLeft ==
  ASSUME NEW k, NEW hs, NEW hs2, NEW a, NEW rs, Refiled(hs, hs2, a, rs), NEW b \in DOMAIN hs
  PROVE  b \in DOMAIN hs2 /\ (Left(b, k, hs) <=> Left(b, k, hs2))
BY DEF Refiled, Left

StillWaiting(k, hs, hs2) == \A c : Waits(c, k, hs) => Waits(c, k, hs2)

\* An attempt holds one more.
LEMMA WaitsToo ==
  ASSUME NEW k, NEW hs \in Seq(AttemptT), NEW a \in DOMAIN hs, NEW r \in RecordT, NEW hs2,
         hs2 = Filed(hs, a, Append(hs[a].records, r))
  PROVE  /\ StillWaiting(k, hs, hs2)
         /\ Left(a, k, hs) => Waits(r.call, k, hs2)
<1>1. hs[a].records \in Seq(RecordT)
  <2>1. hs[a] \in AttemptT
    BY Lengths
  <2> QED
    BY <2>1 DEF AttemptT
<1> DEFINE rs == Append(hs[a].records, r)
<1>2. rs \in Seq(RecordT) /\ Among(r.call, rs) /\ \A c : Among(c, hs[a].records) => Among(c, rs)
  BY <1>1, StillAmong
<1> HIDE DEF rs
<1>3. Refiled(hs, hs2, a, rs)
  BY <1>2, Refiling DEF rs
<1>4. ASSUME NEW c, Waits(c, k, hs) PROVE Waits(c, k, hs2)
  <2>1. PICK b \in DOMAIN hs : Left(b, k, hs) /\ Among(c, hs[b].records)
    BY <1>4, Waiting
  <2>2. b \in DOMAIN hs2 /\ Left(b, k, hs2)
    BY <2>1, <1>3, StillLeft
  <2>3. Among(c, hs2[b].records)
    BY <2>1, <1>2, <1>3 DEF Refiled
  <2> QED
    BY <2>2, <2>3, Waiting
<1>5. ASSUME Left(a, k, hs) PROVE Waits(r.call, k, hs2)
  <2>1. a \in DOMAIN hs2 /\ Left(a, k, hs2)
    BY <1>3, <1>5, StillLeft
  <2>2. Among(r.call, hs2[a].records)
    BY <1>2, <1>3 DEF Refiled
  <2> QED
    BY <2>1, <2>2, Waiting
<1> QED
  BY <1>4, <1>5 DEF StillWaiting

\* An attempt holds its first no longer.
LEMMA WaitsStill ==
  ASSUME NEW k, NEW hs \in Seq(AttemptT), NEW a \in DOMAIN hs, hs[a].records # <<>>, NEW hs2,
         hs2 = Filed(hs, a, Tail(hs[a].records)), NEW c, Waits(c, k, hs)
  PROVE  Waits(c, k, hs2) \/ c = Head(hs[a].records).call
<1>1. hs[a].records \in Seq(RecordT)
  <2>1. hs[a] \in AttemptT
    BY Lengths
  <2> QED
    BY <2>1 DEF AttemptT
<1> DEFINE rs == Tail(hs[a].records)
<1>2. rs \in Seq(RecordT) /\ (Among(c, hs[a].records) => Among(c, rs) \/ c = Head(hs[a].records).call)
  BY <1>1, StillAmong
<1> HIDE DEF rs
<1>3. Refiled(hs, hs2, a, rs)
  BY <1>2, Refiling DEF rs
<1>4. PICK b \in DOMAIN hs : Left(b, k, hs) /\ Among(c, hs[b].records)
  BY Waiting
<1>5. b \in DOMAIN hs2 /\ Left(b, k, hs2)
  BY <1>3, <1>4, StillLeft
<1>6. CASE b # a
  <2>1. Among(c, hs2[b].records)
    BY <1>3, <1>4, <1>6 DEF Refiled
  <2> QED
    BY <2>1, <1>5, Waiting
<1>7. CASE b = a /\ Among(c, rs)
  <2>1. Among(c, hs2[b].records)
    BY <1>3, <1>7 DEF Refiled
  <2> QED
    BY <2>1, <1>5, Waiting
<1> QED
  BY <1>2, <1>4, <1>6, <1>7

LEMMA ReturnAccount ==
  ASSUME Sound, reported \in Seq(Nat), Accounted0, NEW t \in Task, Return(t)
  PROVE  AccountedAfter
<1> DEFINE c == Top(t).id
           e == calls[c].entry
           toReport == e # None /\ ~calls[c].failed /\ Wants(ctx[t], e)
           a == Holding(ctx[t], e)
           cs == Succeeded(calls, c)
           k == [stack EXCEPT ![t] = Tail(@)]
<1>0. /\ stack \in [Task -> Seq(FrameT)] /\ calls \in Seq(CallT) /\ attempts \in Seq(AttemptT) /\ ctx \in [Task -> CtxT]
  BY DEF Sound, Inv, Typed
<1>1. stack[t] # <<>> /\ Head(stack[t]).kind \notin Polls /\ c \in DOMAIN calls /\ entries' = entries
  <2>1. AtTop(t, "call") /\ entries' = entries
    BY DEF Return
  <2> QED
    BY <2>1, Innermost DEF Polls, Marks, Top
<1>2. Kept(stack, k, attempts, attempts)
  BY <1>0, <1>1, MarkGoes
<1>3. /\ cs \in Seq(CallT) /\ DOMAIN cs = DOMAIN calls
      /\ \A d \in DOMAIN calls : cs[d].entry = calls[d].entry /\ (d # c => cs[d].passed = calls[d].passed)
  <2>1. Reflagged(calls, cs) /\ \A d \in DOMAIN calls : d # c => cs[d].passed = calls[d].passed
    BY <1>0, <1>1, Flags
  <2> QED
    BY <2>1 DEF Reflagged
<1>4. \A d \in DOMAIN calls : calls[d].passed => calls[d].entry \in DOMAIN entries
  BY PassedSomewhere
<1>5. ASSUME NoneAnew(cs, calls'), Carried(c, stack', entries', calls', attempts', reported'),
             ToSet(reported) \subseteq ToSet(reported'),
             \A d : Waits(d, stack, attempts) => Waits(d, stack', attempts')
      PROVE  AccountedAfter
  <2>1. \A d \in DOMAIN calls' : calls'[d].passed =>
          \/ d \in DOMAIN calls /\ calls[d].passed /\ calls'[d].entry = calls[d].entry
          \/ Carried(d, stack', entries', calls', attempts', reported')
    <3> HIDE DEF c, cs
    <3> QED
      BY <1>3, <1>5 DEF NoneAnew
  <2>2. \A d : Waits(d, stack, attempts) => Carried(d, stack', entries', calls', attempts', reported')
    BY <1>5 DEF Carried
  <2>3. \A d \in DOMAIN entries : (entries'[d].active => entries[d].active) /\ entries'[d].wants = entries[d].wants
    BY <1>1
  <2> QED
    BY <2>1, <2>2, <2>3, <1>4, <1>5, StillAccounted DEF Accounted0, AccountedAfter
<1>6. CASE ~toReport /\ CallEnds(t, calls) /\ UNCHANGED <<attempts, reported>>
  <2>1. calls' = Silenced(calls, c) /\ stack' = k
    BY <1>6 DEF CallEnds, Silenced
  <2>2. NoneAnew(calls, calls')
    BY <2>1, <1>0, <1>1, Unpassed
  <2>3. Kept(stack, stack', attempts, attempts')
    BY <2>1, <1>2, <1>6
  <2> QED
    BY <2>2, <2>3, <1>1, <1>6, QuietAccount
<1>7. CASE /\ toReport /\ a # None
           /\ attempts' = [attempts EXCEPT ![a].records =
                Append(@, [call |-> c, asked |-> attempts[a].scope = e])]
           /\ CallEnds(t, [calls EXCEPT ![c].passed = TRUE])
           /\ UNCHANGED reported
  <2> DEFINE r == [call |-> c, asked |-> attempts[a].scope = e]
  <2>1. attempts' = Filed(attempts, a, Append(attempts[a].records, r)) /\ calls' = Silenced(cs, c) /\ stack' = k
    BY <1>7 DEF Filed, CallEnds, Silenced, Succeeded
  <2>2. a \in DOMAIN attempts /\ attempts[a].alive
    <3>1. a = ctx[t].held /\ attempts[a].alive /\ a # None
      BY <1>7 DEF Holding, LiveAttempt
    <3> QED
      BY <3>1 DEF Sound, Inv, Named, ContextNames, OrNone
  <2>3. r \in RecordT /\ r.call = c
    <3>1. c \in Nat
      BY <1>0, <1>1, Lengths
    <3> QED
      BY <3>1 DEF RecordT
  <2> HIDE DEF r, a, k, cs
  <2>4. Left(a, stack, attempts)
    BY <2>2 DEF Left, Sound, Inv, Struct, Holds, On, Polls
  <2>5. Left(a, k, attempts)
    <3>1. a \in DOMAIN attempts /\ On(stack, Polls, a)
      BY <2>2 DEF Sound, Inv, Struct, Holds, On, Polls
    <3>2. Grown(k, stack, t, Head(stack[t])) /\ k \in [Task -> Seq(FrameT)]
      BY <1>0, <1>1, Popping DEF k
    <3>3. On(k, Polls, a)
      BY <3>1, <3>2, <1>1, Names
    <3> QED
      BY <3>3 DEF Left
  <2>6. /\ \A d : Waits(d, k, attempts) => Waits(d, k, attempts')
        /\ Waits(r.call, k, attempts')
    <3>1. ASSUME NEW d, Waits(d, k, attempts) PROVE Waits(d, k, attempts')
      <4>1. StillWaiting(k, attempts, attempts')
        BY <2>1, <2>2, <2>3, <1>0, WaitsToo
      <4> QED
        BY <4>1, <3>1 DEF StillWaiting
    <3>2. Left(a, k, attempts) => Waits(r.call, k, attempts')
      BY <2>1, <2>2, <2>3, <1>0, WaitsToo
    <3> QED
      BY <3>1, <3>2, <2>5
  <2>7. \A d : Waits(d, stack, attempts) => Waits(d, k, attempts)
    BY <1>2, StillWaits
  <2>8. NoneAnew(cs, calls')
    BY <2>1, <1>1, <1>3, Unpassed
  <2>9. Carried(c, stack', entries', calls', attempts', reported')
    BY <2>1, <2>3, <2>6 DEF Carried
  <2>10. reported' = reported
    BY <1>7
  <2> QED
    BY <2>1, <2>6, <2>7, <2>8, <2>9, <2>10, <1>5 DEF k
<1>8. CASE toReport /\ a = None /\ Tell(t, c, stack[t], [calls EXCEPT ![c].passed = TRUE]) /\ UNCHANGED attempts
  <2>1. /\ calls' = Append(cs, Quiet(t)) /\ reported' = Append(reported, c)
        /\ stack' = [stack EXCEPT ![t] = <<[kind |-> "tell", id |-> Len(calls'), old |-> ctx[t].observed]>> \o stack[t]]
    BY <1>8 DEF Tell, Succeeded
  <2>2. Kept(stack, stack', attempts, attempts')
    BY <2>1, <1>0, <1>8, AnyPush
  <2>3. NoneAnew(cs, calls')
    <3> HIDE DEF cs
    <3> QED
      BY <2>1, <1>3, Unpassed, Quieting
  <2>4. Extended(reported, reported', Len(reported) + 1, c)
    BY <2>1, AnyAppend
  <2>5. c \in ToSet(reported') /\ ToSet(reported) \subseteq ToSet(reported')
    <3> HIDE DEF c
    <3> QED
      BY <2>4 DEF ToSet, Extended
  <2>6. \A d : Waits(d, stack, attempts) => Waits(d, stack', attempts')
    BY <2>2, StillWaits
  <2>7. Carried(c, stack', entries', calls', attempts', reported')
    BY <2>5 DEF Carried
  <2> QED
    BY <2>3, <2>5, <2>6, <2>7, <1>5
<1> QED
  BY <1>6, <1>7, <1>8 DEF Return

LEMMA FlushAccount ==
  ASSUME Sound, reported \in Seq(Nat), Accounted0, NEW t \in Task, FlushStep(t)
  PROVE  AccountedAfter
<1> DEFINE a == Top(t).id
           outer == Top(t).old
           rs == attempts[a].records
           r == Head(rs)
           c == r.call
           e == calls[c].entry
           taken == Filed(attempts, a, Tail(rs))
<1>0. /\ stack \in [Task -> Seq(FrameT)] /\ calls \in Seq(CallT) /\ attempts \in Seq(AttemptT) /\ ctx \in [Task -> CtxT]
  BY DEF Sound, Inv, Typed
<1>1. AtTop(t, "flush") /\ rs # <<>> /\ entries' = entries
  BY DEF FlushStep
<1>2. a \in DOMAIN attempts
  BY <1>1, Innermost DEF Polls
<1>3. rs \in Seq(RecordT)
  <2>1. attempts[a] \in AttemptT
    BY <1>0, <1>2, Lengths
  <2> QED
    BY <2>1 DEF AttemptT
<1>4. 1 \in DOMAIN rs /\ r = rs[1] /\ r \in RecordT /\ Tail(rs) \in Seq(RecordT)
  BY <1>1, <1>3
<1>5. \A d, k : Waits(d, k, attempts) => Waits(d, k, taken) \/ d = c
  BY <1>0, <1>1, <1>2, WaitsStill
<1>6. \A d \in DOMAIN calls : calls[d].passed => calls[d].entry \in DOMAIN entries
  BY PassedSomewhere
<1>7. ASSUME NoneAnew(calls, calls'), Carried(c, stack', entries', calls', attempts', reported'),
             ToSet(reported) \subseteq ToSet(reported'),
             \A d : Waits(d, stack, taken) => Waits(d, stack', attempts')
      PROVE  AccountedAfter
  <2>1. \A d : Waits(d, stack, attempts) => Waits(d, stack', attempts') \/ d = c
    BY <1>5, <1>7
  <2>2. \A d : Waits(d, stack, attempts) => Carried(d, stack', entries', calls', attempts', reported')
    BY <1>7, <2>1 DEF Carried
  <2>3. \A d \in DOMAIN entries : (entries'[d].active => entries[d].active) /\ entries'[d].wants = entries[d].wants
    BY <1>1
  <2>4. \A d \in DOMAIN calls' : calls'[d].passed => d \in DOMAIN calls /\ calls[d].passed /\ calls'[d].entry = calls[d].entry
    BY <1>7 DEF NoneAnew
  <2> QED
    BY <2>2, <2>3, <2>4, <1>6, <1>7, StillAccounted DEF Accounted0, AccountedAfter
<1>8. taken = [attempts EXCEPT ![a].records = Tail(@)] /\ taken \in Seq(AttemptT) /\ DOMAIN taken = DOMAIN attempts
  <2>1. Refiled(attempts, taken, a, Tail(rs))
    BY <1>0, <1>2, <1>4, Refiling
  <2> QED
    BY <2>1 DEF Refiled, Filed
<1>9. CASE /\ HandsOver(outer, e) /\ attempts' = [[attempts EXCEPT ![a].records = Tail(@)] EXCEPT ![outer].records = Append(@, r)]
           /\ UNCHANGED <<ctx, stack, calls, reported>>
  <2>0. HeldBack(t, r)
    BY <1>4 DEF HeldBack
  <2>1. outer \in DOMAIN attempts
    BY <1>1, <1>9, <2>0, WaitsOn
  <2>2. attempts[outer].alive
    BY <1>9 DEF HandsOver
  <2>3. attempts' = Filed(taken, outer, Append(taken[outer].records, r))
    BY <1>8, <1>9 DEF Filed
  <2>4. Left(outer, stack, taken)
    BY <2>1, <2>2 DEF Left, Sound, Inv, Struct, Holds, On, Polls
  <2>5. c = r.call
    OBVIOUS
  <2> HIDE DEF taken, r, rs, outer, a
  <2>6. outer \in DOMAIN taken
    BY <2>1, <1>8
  <2>7. StillWaiting(stack, taken, attempts')
    BY <2>3, <2>6, <1>4, <1>8, WaitsToo
  <2>8. Waits(r.call, stack, attempts')
    BY <2>3, <2>4, <2>6, <1>4, <1>8, WaitsToo
  <2>9. Carried(c, stack', entries', calls', attempts', reported') /\ stack' = stack /\ reported' = reported
    BY <2>5, <2>8, <1>9 DEF Carried
  <2>10. NoneAnew(calls, calls')
    BY <1>9 DEF NoneAnew
  <2> QED
    BY <2>7, <2>9, <2>10, <1>7 DEF StillWaiting
<1>10. CASE attempts' = [attempts EXCEPT ![a].records = Tail(@)] /\ Tell(t, c, stack[t], calls)
  <2>1. /\ calls' = Append(calls, Quiet(t)) /\ reported' = Append(reported, c) /\ attempts' = taken
        /\ stack' = [stack EXCEPT ![t] = <<[kind |-> "tell", id |-> Len(calls'), old |-> ctx[t].observed]>> \o stack[t]]
    BY <1>8, <1>10 DEF Tell
  <2> HIDE DEF taken, c
  <2>2. Kept(stack, stack', taken, attempts')
    BY <2>1, <1>0, AnyPush
  <2>3. NoneAnew(calls, calls')
    BY <2>1, <1>0, Unpassed, Quieting
  <2>4. Extended(reported, reported', Len(reported) + 1, c)
    BY <2>1, AnyAppend
  <2>5. c \in ToSet(reported') /\ ToSet(reported) \subseteq ToSet(reported')
    BY <2>4 DEF ToSet, Extended
  <2>6. \A d : Waits(d, stack, taken) => Waits(d, stack', attempts')
    BY <2>2, StillWaits
  <2>7. Carried(c, stack', entries', calls', attempts', reported')
    BY <2>5 DEF Carried
  <2> QED
    BY <2>3, <2>5, <2>6, <2>7, <1>7
<1>11. CASE /\ ~Heard(e, r.asked) /\ attempts' = [attempts EXCEPT ![a].records = Tail(@)]
            /\ UNCHANGED <<ctx, stack, calls, reported>>
  <2>1. Unheard(c, entries', calls')
    BY <1>1, <1>11 DEF Heard, Unheard
  <2>2. Carried(c, stack', entries', calls', attempts', reported')
    BY <2>1 DEF Carried
  <2>3. NoneAnew(calls, calls')
    BY <1>11 DEF NoneAnew
  <2>4. stack' = stack /\ attempts' = taken /\ reported' = reported
    BY <1>8, <1>11
  <2> HIDE DEF taken, c
  <2> QED
    BY <2>2, <2>3, <2>4, <1>7
<1> QED
  BY <1>9, <1>10, <1>11 DEF FlushStep

\* The steps into and out of blocks, and those of tasks and builders.
LEMMA BlockAccount ==
  ASSUME Sound, Accounted0, UNCHANGED <<calls, attempts, stack, reported>>,
         \A e \in DOMAIN entries : (entries'[e].active => entries[e].active) /\ entries'[e].wants = entries[e].wants
  PROVE  AccountedAfter
<1>1. \A c : Waits(c, stack, attempts) => Carried(c, stack', entries', calls', attempts', reported')
  BY DEF Carried
<1>2. \A c \in DOMAIN calls : calls[c].passed => calls[c].entry \in DOMAIN entries
  BY PassedSomewhere
<1>3. \A c \in DOMAIN calls' : calls'[c].passed => c \in DOMAIN calls /\ calls[c].passed /\ calls'[c].entry = calls[c].entry
  OBVIOUS
<1>4. ToSet(reported) \subseteq ToSet(reported')
  OBVIOUS
<1> QED
  BY <1>1, <1>2, <1>3, <1>4, StillAccounted DEF Accounted0, AccountedAfter

\* A pass that was to be reported is told, or waits, or can be told no more for a reason.
THEOREM NoPassIsLost == Spec => []Accounted
<1>1. Init => Accounted0
  BY DEF Init, Accounted0, Accounts
<1>2. IInv /\ Accounted0 /\ [Next]_vars => Accounted0'
  <2> SUFFICES ASSUME IInv, Accounted0, [Next]_vars PROVE AccountedAfter
    BY DEF Accounted0, AccountedAfter
  <2>0. Sound /\ reported \in Seq(Nat) /\ own \in [Task -> Nat] /\ Blocks(own, ctx, entries) /\ entries \in Seq(EntryT)
    BY DEF IInv, Sound, Inv, Typed
  <2>1. ASSUME NEW t \in Task, Passless(t) PROVE AccountedAfter
    BY <2>0, <2>1, PasslessStep
  <2>2. ASSUME NEW t \in Task, Return(t) PROVE AccountedAfter
    BY <2>0, <2>2, ReturnAccount
  <2>3. ASSUME NEW t \in Task, FlushStep(t) PROVE AccountedAfter
    BY <2>0, <2>3, FlushAccount
  <2>4. ASSUME NEW t \in Task, Start(t) \/ Make(t) \/ \E u \in Task : Fork(t, u) PROVE AccountedAfter
    <3>1. UNCHANGED <<calls, attempts, stack, reported, entries>>
      BY <2>4 DEF Start, Make, Fork
    <3> QED
      BY <3>1, <2>0, BlockAccount
  <2>5. ASSUME NEW t \in Task, NEW wants \in BOOLEAN, Enter(t, wants) PROVE AccountedAfter
    <3>1. PICK e : entries' = Append(entries, e)
      BY <2>5 DEF Enter
    <3>2. Extended(entries, entries', Len(entries) + 1, e)
      BY <3>1, <2>0, AnyAppend
    <3>3. \A d \in DOMAIN entries : entries'[d] = entries[d]
      BY <3>2 DEF Extended
    <3>4. UNCHANGED <<calls, attempts, stack, reported>>
      BY <2>5 DEF Enter
    <3> QED
      BY <3>3, <3>4, <2>0, BlockAccount
  <2>6. ASSUME NEW t \in Task, Leave(t) PROVE AccountedAfter
    <3> DEFINE e == ctx[t].scope
    <3>1. e \in DOMAIN entries /\ entries' = Shut(entries, e)
      BY <2>0, <2>6, LeaveStep
    <3> HIDE DEF e
    <3>2. /\ ~entries'[e].active /\ \A d \in DOMAIN entries : d # e => entries'[d] = entries[d]
          /\ \A d \in DOMAIN entries : entries'[d].wants = entries[d].wants
      BY <3>1, <2>0, Shutting
    <3>3. UNCHANGED <<calls, attempts, stack, reported>>
      BY <2>6 DEF Leave
    <3> QED
      BY <3>2, <3>3, <2>0, BlockAccount
  <2>7. CASE UNCHANGED vars
    <3>1. UNCHANGED <<calls, attempts, stack, reported, entries>>
      BY <2>7 DEF vars
    <3> QED
      BY <3>1, <2>0, BlockAccount
  <2> QED
    BY <2>1, <2>2, <2>3, <2>4, <2>5, <2>6, <2>7 DEF Next, Passless
<1>3. Accounted0 => Accounted
  <2> SUFFICES ASSUME Accounted0, NEW c \in DOMAIN calls, calls[c].passed
               PROVE  \/ c \in ToSet(reported)
                      \/ ~entries[calls[c].entry].active \/ ~entries[calls[c].entry].wants
                      \/ \E a \in DOMAIN attempts :
                           /\ c \in {attempts[a].records[i].call : i \in DOMAIN attempts[a].records}
                           /\ \/ attempts[a].end \in {"failed", "cut"}
                              \/ OnAStack({"attempt", "flush"}, a)
    BY DEF Accounted
  <2>1. \A a : On(stack, Polls, a) <=> OnAStack({"attempt", "flush"}, a)
    BY OnStacks DEF Polls
  <2>2. Carried(c, stack, entries, calls, attempts, reported)
    BY DEF Accounted0, Accounts
  <2> QED
    BY <2>1, <2>2 DEF Carried, Unheard, Waits, Left
<1> QED
  BY <1>1, <1>2, <1>3, PassesHold, PTL DEF Spec

-----------------------------------------------------------------------------
(* The passes of a task are told in order *)

\* Attempt a runs or flushes on the stack of t.
Mine(k, t, a) == \E i \in DOMAIN k[t] : k[t][i].kind \in Polls /\ k[t][i].id = a

\* It has one to which the passes of another go on, or an exception leads back.
Leads(k, t, n) == \E i \in DOMAIN k[t] : k[t][i].kind \in Polls /\ k[t][i].old = n

\* t was not started inside an attempt: all that can hold back its passes is its own.
Apart(k, x, t) == \A n : n # None /\ (x[t].held = n \/ Leads(k, t, n)) => Mine(k, t, n)

\* Two assertions of t that report to one entry.
SameLine(cs, t, c, d) == cs[c].by = t /\ cs[d].by = t /\ cs[c].entry = cs[d].entry

ToldInOrder(t, cs, rep) == \A i, j \in DOMAIN rep : i < j /\ SameLine(cs, t, rep[i], rep[j]) => rep[i] < rep[j]

HeldInOrder(t, cs, rs) ==
  \A m, n \in DOMAIN rs : m < n /\ SameLine(cs, t, rs[m].call, rs[n].call) => rs[m].call < rs[n].call

\* What was told, and what an attempt further out holds, was asked before what this one holds.
After(t, cs, c, rs) == \A d \in DOMAIN cs : Among(d, rs) /\ SameLine(cs, t, c, d) => c < d

ToldFirst(t, cs, rep, rs)  == \A i \in DOMAIN rep : After(t, cs, rep[i], rs)
OuterFirst(t, cs, qs, rs)  == \A c \in DOMAIN cs : Among(c, qs) => After(t, cs, c, rs)

Sorted(t, k, cs, hs, rep) ==
  /\ ToldInOrder(t, cs, rep)
  /\ \A a \in DOMAIN hs : Mine(k, t, a) =>
       HeldInOrder(t, cs, hs[a].records) /\ ToldFirst(t, cs, rep, hs[a].records)
  /\ \A a, b \in DOMAIN hs : Mine(k, t, a) /\ Mine(k, t, b) /\ hs[b].born < hs[a].born =>
       OuterFirst(t, cs, hs[b].records, hs[a].records)
  /\ \A a \in DOMAIN hs : \A u \in Task : Mine(k, u, a) /\ u # t =>
       \A d \in DOMAIN cs : Among(d, hs[a].records) => cs[d].by # t

SortedApart(k, x, cs, hs, rep) == \A t \in Task : Apart(k, x, t) => Sorted(t, k, cs, hs, rep)

\* The call of t that runs was asked after all that was told or held back of t.
Runs(k, t) == 1 \in DOMAIN k[t] /\ k[t][1].kind = "call"

Out(d, hs, rep) == (\E i \in DOMAIN rep : rep[i] = d) \/ \E a \in DOMAIN hs : Among(d, hs[a].records)

Latest(k, cs, hs, rep) ==
  \A t \in Task : Runs(k, t) => \A d \in DOMAIN cs : Out(d, hs, rep) /\ cs[d].by = t => d < k[t][1].id

ToldNames(cs, rep) == \A i \in DOMAIN rep : rep[i] \in DOMAIN cs

Askers(begun, cs) == \A c \in DOMAIN cs : cs[c].by \in begun

Order ==
  /\ SortedApart(stack, ctx, calls, attempts, reported) /\ Latest(stack, calls, attempts, reported)
  /\ ToldNames(calls, reported) /\ Askers(started, calls)

\* The attempts of tasks, once t has one frame more.
MorePolls(k, k2, t, f) ==
  \A u \in Task : /\ \A a : Mine(k2, u, a) <=> Mine(k, u, a) \/ (u = t /\ f.kind \in Polls /\ f.id = a)
                  /\ \A n : Leads(k2, u, n) <=> Leads(k, u, n) \/ (u = t /\ f.kind \in Polls /\ f.old = n)

LEMMA PollFrames ==
  ASSUME NEW k \in [Task -> Seq(FrameT)], NEW k2, NEW t \in Task, NEW f, Grown(k, k2, t, f)
  PROVE  MorePolls(k, k2, t, f)
<1> SUFFICES ASSUME NEW u \in Task
             PROVE  /\ \A a : Mine(k2, u, a) <=> Mine(k, u, a) \/ (u = t /\ f.kind \in Polls /\ f.id = a)
                    /\ \A n : Leads(k2, u, n) <=> Leads(k, u, n) \/ (u = t /\ f.kind \in Polls /\ f.old = n)
  BY DEF MorePolls
<1>1. Shifted(k, k2, t, f) /\ 1 \in DOMAIN k2[t] /\ k2[t][1] = f
  BY Positions DEF Grown
<1>2. ASSUME NEW i \in DOMAIN k[u] PROVE \E j \in DOMAIN k2[u] : k2[u][j] = k[u][i]
  BY <1>1 DEF Shifted
<1>3. ASSUME NEW i \in DOMAIN k2[u] PROVE (u = t /\ k2[u][i] = f) \/ \E j \in DOMAIN k[u] : k2[u][i] = k[u][j]
  BY <1>1 DEF Shifted
<1>4. ASSUME NEW a PROVE Mine(k2, u, a) <=> Mine(k, u, a) \/ (u = t /\ f.kind \in Polls /\ f.id = a)
  BY <1>1, <1>2, <1>3 DEF Mine
<1>5. ASSUME NEW n PROVE Leads(k2, u, n) <=> Leads(k, u, n) \/ (u = t /\ f.kind \in Polls /\ f.old = n)
  BY <1>1, <1>2, <1>3 DEF Leads
<1> QED
  BY <1>4, <1>5

\* No attempt of a task has come and none has gone, and it leads where it led.
SamePolls(k, k2) ==
  \A u \in Task : /\ \A a : Mine(k2, u, a) <=> Mine(k, u, a)
                  /\ \A n : Leads(k2, u, n) <=> Leads(k, u, n)

\* None has come, and no task is apart that was not.
Fewer(k, x, k2, x2) ==
  \A u \in Task : /\ \A a : Mine(k2, u, a) => Mine(k, u, a)
                  /\ Apart(k2, x2, u) => Apart(k, x, u)

LEMMA MarkComes ==
  ASSUME NEW k \in [Task -> Seq(FrameT)], NEW k2, NEW t \in Task, NEW f, Grown(k, k2, t, f), f.kind \notin Polls
  PROVE  SamePolls(k, k2)
BY PollFrames DEF MorePolls, SamePolls

LEMMA MarkLeaves ==
  ASSUME NEW k, NEW k2 \in [Task -> Seq(FrameT)], NEW t \in Task, NEW f, Grown(k2, k, t, f), f.kind \notin Polls
  PROVE  SamePolls(k, k2)
BY PollFrames DEF MorePolls, SamePolls

LEMMA NoneFewer ==
  ASSUME NEW k, NEW k2, NEW x, NEW x2, SamePolls(k, k2), \A u \in Task : x2[u].held = x[u].held
  PROVE  Fewer(k, x, k2, x2)
BY DEF SamePolls, Fewer, Apart

\* The innermost attempt of t is over.
LEMMA PollLeaves ==
  ASSUME NEW k, NEW k2 \in [Task -> Seq(FrameT)], NEW t \in Task, NEW f, Grown(k2, k, t, f), f.kind \in Polls,
         NEW x, NEW x2, \A u \in Task : u # t => x2[u].held = x[u].held,
         x[t].held \in {f.id, f.old}, x2[t].held = f.old
  PROVE  Fewer(k, x, k2, x2)
<1> SUFFICES ASSUME NEW u \in Task
             PROVE  /\ \A a : Mine(k2, u, a) => Mine(k, u, a)
                    /\ Apart(k2, x2, u) => Apart(k, x, u)
  BY DEF Fewer
<1>0. MorePolls(k2, k, t, f)
  BY PollFrames
<1>1. /\ \A a : Mine(k, u, a) <=> Mine(k2, u, a) \/ (u = t /\ f.id = a)
      /\ \A n : Leads(k, u, n) <=> Leads(k2, u, n) \/ (u = t /\ f.old = n)
  BY <1>0 DEF MorePolls
<1>2. CASE u # t
  BY <1>1, <1>2 DEF Apart
<1>3. CASE u = t
  BY <1>1, <1>3 DEF Apart
<1> QED
  BY <1>2, <1>3

\* A task is in attempts that have begun; then one more has, and no task is apart that was not.
Known(k, x, hs) == \A u \in Task : \A n : n # None /\ (x[u].held = n \/ Leads(k, u, n)) => n \in DOMAIN hs

PollMore(k, x, k2, x2, hs) ==
  \A u \in Task : /\ Apart(k2, x2, u) => Apart(k, x, u)
                  /\ \A a \in DOMAIN hs : Mine(k2, u, a) => Mine(k, u, a)

\* An attempt begins, with a frame that leads to the one t was in.
LEMMA PollComes ==
  ASSUME NEW k \in [Task -> Seq(FrameT)], NEW k2, NEW t \in Task, NEW f, Grown(k, k2, t, f), f.kind \in Polls,
         NEW x, NEW x2, \A u \in Task : u # t => x2[u].held = x[u].held,
         x[t].held = f.old, x2[t].held = f.id,
         NEW hs, f.id \notin DOMAIN hs, Known(k, x, hs)
  PROVE  PollMore(k, x, k2, x2, hs)
<1>1. MorePolls(k, k2, t, f)
  BY PollFrames
<1>2. ASSUME NEW u \in Task, NEW a \in DOMAIN hs, Mine(k2, u, a) PROVE Mine(k, u, a)
  BY <1>1, <1>2 DEF MorePolls
<1>3. ASSUME NEW u \in Task, Apart(k2, x2, u), NEW n, n # None, x[u].held = n \/ Leads(k, u, n) PROVE Mine(k, u, n)
  <2>1. n \in DOMAIN hs
    BY <1>3 DEF Known
  <2>2. x2[u].held = n \/ Leads(k2, u, n)
    BY <1>1, <1>3 DEF MorePolls
  <2>3. Mine(k2, u, n)
    BY <2>2, <1>3 DEF Apart
  <2> QED
    BY <2>1, <2>3, <1>2
<1>4. ASSUME NEW u \in Task, Apart(k2, x2, u) PROVE Apart(k, x, u)
  BY <1>3, <1>4 DEF Apart
<1> QED
  BY <1>2, <1>4 DEF PollMore

\* An attempt that passed flushes.
LEMMA PollTurns ==
  ASSUME NEW k, NEW k2, NEW t \in Task, NEW g, Replaced(k, k2, t, g), 1 \in DOMAIN k[t],
         g.kind \in Polls, k[t][1].kind \in Polls, g.id = k[t][1].id, g.old = k[t][1].old,
         NEW x, NEW x2, \A u \in Task : u # t => x2[u].held = x[u].held,
         x[t].held = g.id
  PROVE  Fewer(k, x, k2, x2)
<1> SUFFICES ASSUME NEW u \in Task
             PROVE  /\ \A a : Mine(k2, u, a) => Mine(k, u, a)
                    /\ Apart(k2, x2, u) => Apart(k, x, u)
  BY DEF Fewer
<1>1. CASE u # t
  <2>1. k2[u] = k[u]
    BY <1>1 DEF Replaced
  <2> QED
    BY <2>1, <1>1 DEF Mine, Leads, Apart
<1>2. CASE u = t
  <2>1. DOMAIN k2[u] = DOMAIN k[u] /\ \A i \in DOMAIN k[u] :
          k2[u][i].kind \in Polls <=> k[u][i].kind \in Polls
    BY <1>2 DEF Replaced
  <2>2. \A i \in DOMAIN k[u] : k2[u][i].id = k[u][i].id /\ k2[u][i].old = k[u][i].old
    BY <1>2 DEF Replaced
  <2>3. \A a : Mine(k2, u, a) <=> Mine(k, u, a)
    BY <2>1, <2>2 DEF Mine
  <2>4. \A n : Leads(k2, u, n) <=> Leads(k, u, n)
    BY <2>1, <2>2 DEF Leads
  <2>5. Mine(k, u, x[u].held)
    BY <1>2 DEF Mine
  <2> QED
    BY <2>3, <2>4, <2>5 DEF Apart
<1> QED
  BY <1>1, <1>2

\* What is asked stays as it was; attempts keep what they hold, and a new one holds nothing.
SameAsked(cs, cs2) ==
  \A c \in DOMAIN cs : c \in DOMAIN cs2 /\ cs2[c].by = cs[c].by /\ cs2[c].entry = cs[c].entry

SameHeld(hs, hs2) ==
  \A a \in DOMAIN hs2 : \/ a \in DOMAIN hs /\ hs2[a].records = hs[a].records /\ hs2[a].born = hs[a].born
                        \/ DOMAIN hs2[a].records = {}

LEMMA HeldNames ==
  ASSUME NEW cs, NEW hs, RecordNames(cs, hs), NEW a \in DOMAIN hs, NEW d, Among(d, hs[a].records)
  PROVE  d \in DOMAIN cs
BY DEF RecordNames, Among

LEMMA SortedStays ==
  ASSUME NEW t \in Task, NEW k, NEW k2, NEW cs, NEW cs2, NEW hs, NEW hs2, NEW rep,
         Sorted(t, k, cs, hs, rep), ToldNames(cs, rep), RecordNames(cs, hs),
         SameAsked(cs, cs2), SameHeld(hs, hs2),
         \A u \in Task : \A a \in DOMAIN hs : Mine(k2, u, a) => Mine(k, u, a)
  PROVE  Sorted(t, k2, cs2, hs2, rep)
<1>1. ToldInOrder(t, cs2, rep)
  BY DEF Sorted, ToldInOrder, SameLine, ToldNames, SameAsked
<1>2. ASSUME NEW a \in DOMAIN hs, NEW c \in DOMAIN cs, After(t, cs, c, hs[a].records) PROVE After(t, cs2, c, hs[a].records)
  <2>1. \A d : Among(d, hs[a].records) => d \in DOMAIN cs
    BY HeldNames
  <2> QED
    BY <2>1, <1>2 DEF After, SameLine, SameAsked
<1>3. ASSUME NEW rs, DOMAIN rs = {}
      PROVE  /\ HeldInOrder(t, cs2, rs) /\ ToldFirst(t, cs2, rep, rs)
             /\ \A qs : OuterFirst(t, cs2, qs, rs) /\ OuterFirst(t, cs2, rs, qs)
             /\ \A d : ~Among(d, rs)
  BY <1>3 DEF HeldInOrder, ToldFirst, OuterFirst, After, Among
<1>4. ASSUME NEW a \in DOMAIN hs2, Mine(k2, t, a)
      PROVE  HeldInOrder(t, cs2, hs2[a].records) /\ ToldFirst(t, cs2, rep, hs2[a].records)
  <2>1. CASE DOMAIN hs2[a].records = {}
    BY <2>1, <1>3
  <2>2. CASE a \in DOMAIN hs /\ hs2[a].records = hs[a].records
    <3>1. HeldInOrder(t, cs, hs[a].records) /\ ToldFirst(t, cs, rep, hs[a].records)
      BY <2>2, <1>4 DEF Sorted
    <3>2. HeldInOrder(t, cs2, hs[a].records)
      BY <3>1, <2>2 DEF HeldInOrder, SameLine, SameAsked, RecordNames
    <3>3. ToldFirst(t, cs2, rep, hs[a].records)
      BY <3>1, <2>2, <1>2 DEF ToldFirst, ToldNames
    <3> QED
      BY <3>2, <3>3, <2>2
  <2> QED
    BY <2>1, <2>2 DEF SameHeld
<1>5. ASSUME NEW a \in DOMAIN hs2, NEW b \in DOMAIN hs2, Mine(k2, t, a), Mine(k2, t, b), hs2[b].born < hs2[a].born
      PROVE  OuterFirst(t, cs2, hs2[b].records, hs2[a].records)
  <2>1. CASE DOMAIN hs2[a].records = {} \/ DOMAIN hs2[b].records = {}
    BY <2>1, <1>3
  <2>2. CASE /\ a \in DOMAIN hs /\ hs2[a].records = hs[a].records /\ hs2[a].born = hs[a].born
             /\ b \in DOMAIN hs /\ hs2[b].records = hs[b].records /\ hs2[b].born = hs[b].born
    <3>1. OuterFirst(t, cs, hs[b].records, hs[a].records)
      BY <2>2, <1>5 DEF Sorted
    <3>2. \A d : Among(d, hs[b].records) => d \in DOMAIN cs
      BY <2>2, HeldNames
    <3>3. OuterFirst(t, cs2, hs[b].records, hs[a].records)
      BY <3>1, <3>2, <2>2, <1>2 DEF OuterFirst
    <3> QED
      BY <3>3, <2>2
  <2> QED
    BY <2>1, <2>2 DEF SameHeld
<1>6. ASSUME NEW a \in DOMAIN hs2, NEW u \in Task, Mine(k2, u, a), u # t, NEW d \in DOMAIN cs2, Among(d, hs2[a].records)
      PROVE  cs2[d].by # t
  <2>1. a \in DOMAIN hs /\ hs2[a].records = hs[a].records
    BY <1>3, <1>6 DEF SameHeld
  <2>2. d \in DOMAIN cs /\ Mine(k, u, a)
    BY <2>1, <1>6, HeldNames
  <2>3. cs[d].by # t
    BY <2>1, <2>2, <1>6 DEF Sorted
  <2> QED
    BY <2>2, <2>3 DEF SameAsked
<1> QED
  BY <1>1, <1>4, <1>5, <1>6 DEF Sorted

\* Nothing was asked by t yet.
LEMMA NothingAsked ==
  ASSUME NEW t \in Task, NEW k, NEW cs, NEW hs, NEW rep, ToldNames(cs, rep), RecordNames(cs, hs),
         \A c \in DOMAIN cs : cs[c].by # t
  PROVE  Sorted(t, k, cs, hs, rep)
<1>1. ToldInOrder(t, cs, rep)
  BY DEF ToldInOrder, SameLine, ToldNames
<1>2. \A c : \A rs : After(t, cs, c, rs)
  BY DEF After, SameLine
<1>3. \A a \in DOMAIN hs : HeldInOrder(t, cs, hs[a].records)
  BY DEF HeldInOrder, SameLine, RecordNames
<1> QED
  BY <1>1, <1>2, <1>3 DEF Sorted, ToldFirst, OuterFirst

-----------------------------------------------------------------------------
(* A pass more, and a pass less *)

\* What rs holds of the line of c was asked before it.
AllBefore(t, cs, rs, c) == \A d \in DOMAIN cs : Among(d, rs) /\ SameLine(cs, t, d, c) => d < c

LEMMA AmongMore ==
  ASSUME NEW rs \in Seq(RecordT), NEW r
  PROVE  \A d : Among(d, Append(rs, r)) <=> Among(d, rs) \/ d = r.call
<1>1. Extended(rs, Append(rs, r), Len(rs) + 1, r)
  BY AnyAppend
<1> QED
  BY <1>1 DEF Extended, Among

LEMMA HeldOneMore ==
  ASSUME NEW t, NEW cs, NEW rs \in Seq(RecordT), NEW r, HeldInOrder(t, cs, rs), AllBefore(t, cs, rs, r.call),
         \A i \in DOMAIN rs : rs[i].call \in DOMAIN cs
  PROVE  HeldInOrder(t, cs, Append(rs, r))
<1> DEFINE qs == Append(rs, r)
<1>1. Extended(rs, qs, Len(rs) + 1, r)
  BY AnyAppend
<1>2. DOMAIN rs = 1 .. Len(rs) /\ Len(rs) \in Nat
  BY Lengths
<1> HIDE DEF qs
<1> SUFFICES ASSUME NEW m \in DOMAIN qs, NEW n \in DOMAIN qs, m < n, SameLine(cs, t, qs[m].call, qs[n].call)
             PROVE  qs[m].call < qs[n].call
  BY DEF HeldInOrder, qs
<1>3. m \in DOMAIN rs /\ qs[m] = rs[m]
  BY <1>1, <1>2 DEF Extended
<1>4. CASE n \in DOMAIN rs
  <2>1. qs[n] = rs[n]
    BY <1>1, <1>4 DEF Extended
  <2> QED
    BY <2>1, <1>3, <1>4 DEF HeldInOrder
<1>5. CASE n \notin DOMAIN rs
  <2>1. qs[n] = r
    BY <1>1, <1>5 DEF Extended
  <2>2. Among(rs[m].call, rs) /\ rs[m].call \in DOMAIN cs
    BY <1>3 DEF Among
  <2> QED
    BY <2>1, <2>2, <1>3 DEF AllBefore
<1> QED
  BY <1>4, <1>5

LEMMA HeldOneLess ==
  ASSUME NEW t, NEW cs, NEW rs \in Seq(RecordT), rs # <<>>
  PROVE  /\ Tail(rs) \in Seq(RecordT) /\ Head(rs) \in RecordT /\ Among(Head(rs).call, rs)
         /\ \A d : Among(d, Tail(rs)) => Among(d, rs)
         /\ HeldInOrder(t, cs, rs) => HeldInOrder(t, cs, Tail(rs)) /\ After(t, cs, Head(rs).call, Tail(rs))
<1> DEFINE ts == Tail(rs)
<1>1. ts \in Seq(RecordT) /\ Len(ts) = Len(rs) - 1 /\ Len(rs) \in Nat /\ Len(rs) > 0 /\ Head(rs) = rs[1]
  OBVIOUS
<1>2. \A i \in 1 .. Len(ts) : ts[i] = rs[i + 1]
  BY <1>1
<1>3. DOMAIN ts = 1 .. Len(ts) /\ DOMAIN rs = 1 .. Len(rs)
  BY <1>1
<1> HIDE DEF ts
<1>4. 1 \in DOMAIN rs /\ \A i \in DOMAIN ts : i + 1 \in DOMAIN rs /\ ts[i] = rs[i + 1] /\ i \in Nat /\ 1 < i + 1
  BY <1>1, <1>2, <1>3
<1>5. \A i, j \in DOMAIN ts : i < j => i + 1 < j + 1
  BY <1>4
<1>6. ASSUME HeldInOrder(t, cs, rs) PROVE HeldInOrder(t, cs, ts)
  BY <1>4, <1>5, <1>6 DEF HeldInOrder
<1>7. ASSUME HeldInOrder(t, cs, rs) PROVE After(t, cs, rs[1].call, ts)
  <2> SUFFICES ASSUME NEW d \in DOMAIN cs, Among(d, ts), SameLine(cs, t, rs[1].call, d) PROVE rs[1].call < d
    BY DEF After
  <2>1. PICK i \in DOMAIN ts : ts[i].call = d
    BY DEF Among
  <2>2. PICK j \in DOMAIN rs : j = i + 1
    BY <1>4
  <2>3. 1 < j /\ rs[j].call = d
    BY <1>4, <2>1, <2>2
  <2> QED
    BY <2>3, <1>4, <1>7 DEF HeldInOrder
<1>8. \A d : Among(d, ts) => Among(d, rs)
  BY <1>4 DEF Among
<1>9. rs[1] \in RecordT /\ Among(rs[1].call, rs)
  BY <1>4, Lengths DEF Among
<1> QED
  BY <1>1, <1>6, <1>7, <1>8, <1>9 DEF ts

\* Pass c may be told next: it was asked after what was told of its line.
DueNext(t, cs, rep, c) == \A i \in DOMAIN rep : SameLine(cs, t, rep[i], c) => rep[i] < c

\* Attempt a may hold c back as its last: after what the ones further out hold, before what those inside it hold.
Fits(t, k, cs, hs, rep, a, c) ==
  /\ Mine(k, t, a) /\ DueNext(t, cs, rep, c)
  /\ \A b \in DOMAIN hs : Mine(k, t, b) =>
       \/ hs[b].born <= hs[a].born /\ AllBefore(t, cs, hs[b].records, c)
       \/ hs[b].born > hs[a].born /\ After(t, cs, c, hs[b].records)

LEMMA Placing ==
  ASSUME NEW t \in Task, NEW k, NEW cs, NEW hs \in Seq(AttemptT), NEW rep, Sorted(t, k, cs, hs, rep),
         ToldNames(cs, rep), RecordNames(cs, hs),
         NEW a \in DOMAIN hs, NEW r \in RecordT, r.call \in DOMAIN cs,
         cs[r.call].by = t => Fits(t, k, cs, hs, rep, a, r.call),
         \A u \in Task : Mine(k, t, a) /\ Mine(k, u, a) => u = t,
         NEW hs2, hs2 = Filed(hs, a, Append(hs[a].records, r))
  PROVE  Sorted(t, k, cs, hs2, rep)
<1> DEFINE rs == hs[a].records
           qs == Append(rs, r)
<1>0. rs \in Seq(RecordT) /\ \A b \in DOMAIN hs : hs[b].born \in Nat
  <2>1. \A b \in DOMAIN hs : hs[b] \in AttemptT
    BY Lengths
  <2> QED
    BY <2>1 DEF AttemptT
<1>1. qs \in Seq(RecordT) /\ \A d : Among(d, qs) <=> Among(d, rs) \/ d = r.call
  <2> HIDE DEF rs
  <2> QED
    BY <1>0, AmongMore
<1>2. Refiled(hs, hs2, a, qs)
  <2> HIDE DEF qs
  <2>1. Refiled(hs, Filed(hs, a, qs), a, qs)
    BY <1>1, Refiling
  <2> QED
    BY <2>1 DEF qs
<1>3. /\ DOMAIN hs2 = DOMAIN hs /\ hs2[a].records = qs
      /\ \A b \in DOMAIN hs : hs2[b].born = hs[b].born /\ (b # a => hs2[b].records = hs[b].records)
  BY <1>2 DEF Refiled
<1>4. \A i \in DOMAIN rs : rs[i].call \in DOMAIN cs
  BY DEF RecordNames
<1>5. HeldInOrder(t, cs, rs) /\ AllBefore(t, cs, rs, r.call) => HeldInOrder(t, cs, qs)
  <2> HIDE DEF rs
  <2> QED
    BY <1>0, <1>4, HeldOneMore
<1> HIDE DEF rs, qs
<1>6. CASE cs[r.call].by = t
  <2>1. Mine(k, t, a) /\ DueNext(t, cs, rep, r.call) /\ AllBefore(t, cs, rs, r.call)
    BY <1>6, <1>0 DEF Fits, rs
  <2>2. ASSUME NEW b \in DOMAIN hs, Mine(k, t, b)
        PROVE  HeldInOrder(t, cs, hs2[b].records) /\ ToldFirst(t, cs, rep, hs2[b].records)
    <3>1. HeldInOrder(t, cs, hs[b].records) /\ ToldFirst(t, cs, rep, hs[b].records)
      BY <2>2 DEF Sorted
    <3>2. CASE b # a
      BY <3>1, <3>2, <1>3
    <3>3. CASE b = a
      <4>1. HeldInOrder(t, cs, qs)
        BY <3>1, <3>3, <2>1, <1>5 DEF rs
      <4>2. ToldFirst(t, cs, rep, qs)
        BY <3>1, <3>3, <2>1, <1>1 DEF ToldFirst, After, DueNext, rs
      <4> QED
        BY <4>1, <4>2, <3>3, <1>3
    <3> QED
      BY <3>2, <3>3
  <2>3. ASSUME NEW b \in DOMAIN hs, NEW c \in DOMAIN hs, Mine(k, t, b), Mine(k, t, c), hs[c].born < hs[b].born
        PROVE  OuterFirst(t, cs, hs2[c].records, hs2[b].records)
    <3>1. OuterFirst(t, cs, hs[c].records, hs[b].records)
      BY <2>3 DEF Sorted
    <3>2. CASE b # a /\ c # a
      BY <3>1, <3>2, <1>3
    <3>3. CASE b = a
      <4>1. c # a /\ ~ hs[c].born > hs[a].born
        BY <3>3, <2>3, <1>0
      <4>2. AllBefore(t, cs, hs[c].records, r.call)
        BY <4>1, <2>3, <1>6 DEF Fits
      <4>3. OuterFirst(t, cs, hs[c].records, qs)
        BY <4>2, <3>1, <3>3, <1>1 DEF OuterFirst, After, AllBefore, rs
      <4> QED
        BY <4>1, <4>3, <3>3, <1>3
    <3>4. CASE c = a
      <4>1. b # a /\ ~ hs[b].born <= hs[a].born
        BY <3>4, <2>3, <1>0
      <4>2. After(t, cs, r.call, hs[b].records)
        BY <4>1, <2>3, <1>6 DEF Fits
      <4>3. OuterFirst(t, cs, qs, hs[b].records)
        BY <4>2, <3>1, <3>4, <1>1 DEF OuterFirst, rs
      <4> QED
        BY <4>1, <4>3, <3>4, <1>3
    <3> QED
      BY <3>2, <3>3, <3>4
  <2>4. ASSUME NEW b \in DOMAIN hs, NEW u \in Task, Mine(k, u, b), u # t, NEW d \in DOMAIN cs, Among(d, hs2[b].records)
        PROVE  cs[d].by # t
    <3>1. b # a
      BY <2>1, <2>4
    <3> QED
      BY <3>1, <2>4, <1>3 DEF Sorted
  <2> QED
    BY <2>2, <2>3, <2>4, <1>3 DEF Sorted
<1>7. CASE cs[r.call].by # t
  <2>1. \A c : After(t, cs, c, rs) => After(t, cs, c, qs)
    BY <1>7, <1>1 DEF After, SameLine
  <2>2. \A c : After(t, cs, r.call, c)
    BY <1>7 DEF After, SameLine
  <2>3. AllBefore(t, cs, rs, r.call)
    BY <1>7 DEF AllBefore, SameLine
  <2>4. ASSUME NEW b \in DOMAIN hs, Mine(k, t, b)
        PROVE  HeldInOrder(t, cs, hs2[b].records) /\ ToldFirst(t, cs, rep, hs2[b].records)
    <3>1. HeldInOrder(t, cs, hs[b].records) /\ ToldFirst(t, cs, rep, hs[b].records)
      BY <2>4 DEF Sorted
    <3>2. CASE b # a
      BY <3>1, <3>2, <1>3
    <3>3. CASE b = a
      BY <3>1, <3>3, <2>1, <2>3, <1>3, <1>5 DEF ToldFirst, rs
    <3> QED
      BY <3>2, <3>3
  <2>5. ASSUME NEW b \in DOMAIN hs, NEW c \in DOMAIN hs, Mine(k, t, b), Mine(k, t, c), hs[c].born < hs[b].born
        PROVE  OuterFirst(t, cs, hs2[c].records, hs2[b].records)
    <3>1. OuterFirst(t, cs, hs[c].records, hs[b].records)
      BY <2>5 DEF Sorted
    <3>2. c # b
      BY <2>5, <1>0
    <3>3. CASE b # a /\ c # a
      BY <3>1, <3>3, <1>3
    <3>4. CASE b = a
      <4>1. OuterFirst(t, cs, hs[c].records, qs)
        BY <3>1, <3>4, <2>1 DEF OuterFirst, rs
      <4> QED
        BY <4>1, <3>2, <3>4, <1>3
    <3>5. CASE c = a
      <4>1. OuterFirst(t, cs, qs, hs[b].records)
        BY <3>1, <3>5, <2>2, <1>1 DEF OuterFirst, rs
      <4> QED
        BY <4>1, <3>2, <3>5, <1>3
    <3> QED
      BY <3>3, <3>4, <3>5
  <2>6. ASSUME NEW b \in DOMAIN hs, NEW u \in Task, Mine(k, u, b), u # t, NEW d \in DOMAIN cs, Among(d, hs2[b].records)
        PROVE  cs[d].by # t
    <3>1. Among(d, hs[b].records) \/ d = r.call
      BY <2>6, <1>1, <1>3 DEF rs
    <3> QED
      BY <3>1, <2>6, <1>7 DEF Sorted
  <2> QED
    BY <2>4, <2>5, <2>6, <1>3 DEF Sorted
<1> QED
  BY <1>6, <1>7

LEMMA Telling ==
  ASSUME NEW t \in Task, NEW k, NEW cs, NEW hs, NEW rep \in Seq(Nat), Sorted(t, k, cs, hs, rep), NEW c \in Nat,
         cs[c].by = t => /\ DueNext(t, cs, rep, c)
                         /\ \A b \in DOMAIN hs : Mine(k, t, b) => After(t, cs, c, hs[b].records)
  PROVE  Sorted(t, k, cs, hs, Append(rep, c))
<1> DEFINE rep2 == Append(rep, c)
<1>1. Extended(rep, rep2, Len(rep) + 1, c)
  BY AnyAppend
<1>2. DOMAIN rep = 1 .. Len(rep) /\ Len(rep) \in Nat
  BY Lengths
<1> HIDE DEF rep2
<1>3. ToldInOrder(t, cs, rep2)
  <2> SUFFICES ASSUME NEW i \in DOMAIN rep2, NEW j \in DOMAIN rep2, i < j, SameLine(cs, t, rep2[i], rep2[j])
               PROVE  rep2[i] < rep2[j]
    BY DEF ToldInOrder
  <2>1. i \in DOMAIN rep /\ rep2[i] = rep[i]
    BY <1>1, <1>2 DEF Extended
  <2>2. CASE j \in DOMAIN rep
    <3>1. rep2[j] = rep[j]
      BY <1>1, <2>2 DEF Extended
    <3> QED
      BY <3>1, <2>1, <2>2 DEF Sorted, ToldInOrder
  <2>3. CASE j \notin DOMAIN rep
    <3>1. rep2[j] = c
      BY <1>1, <2>3 DEF Extended
    <3>2. DueNext(t, cs, rep, c)
      BY <3>1 DEF SameLine
    <3> QED
      BY <3>1, <3>2, <2>1 DEF DueNext
  <2> QED
    BY <2>2, <2>3
<1>4. ASSUME NEW b \in DOMAIN hs, Mine(k, t, b) PROVE ToldFirst(t, cs, rep2, hs[b].records)
  <2>1. ToldFirst(t, cs, rep, hs[b].records)
    BY <1>4 DEF Sorted
  <2>2. After(t, cs, c, hs[b].records)
    BY <1>4 DEF After, SameLine
  <2> QED
    BY <2>1, <2>2, <1>1 DEF ToldFirst, Extended
<1>5. Sorted(t, k, cs, hs, rep2)
  BY <1>3, <1>4 DEF Sorted
<1> QED
  BY <1>5 DEF rep2

\* Attempt a hands its first on: it holds the others in the same order.
LEMMA HandingOn ==
  ASSUME NEW t \in Task, NEW k, NEW cs, NEW hs \in Seq(AttemptT), NEW rep, Sorted(t, k, cs, hs, rep),
         NEW a \in DOMAIN hs, hs[a].records # <<>>, NEW hs2, hs2 = Filed(hs, a, Tail(hs[a].records))
  PROVE  Sorted(t, k, cs, hs2, rep)
<1> DEFINE rs == hs[a].records
           ts == Tail(rs)
<1>0. rs \in Seq(RecordT)
  <2>1. hs[a] \in AttemptT
    BY Lengths
  <2> QED
    BY <2>1 DEF AttemptT
<1>1. ts \in Seq(RecordT) /\ (\A d : Among(d, ts) => Among(d, rs)) /\ (HeldInOrder(t, cs, rs) => HeldInOrder(t, cs, ts))
  <2> HIDE DEF rs
  <2> QED
    BY <1>0, HeldOneLess DEF rs
<1>2. Refiled(hs, hs2, a, ts)
  <2> HIDE DEF ts
  <2>1. Refiled(hs, Filed(hs, a, ts), a, ts)
    BY <1>1, Refiling
  <2> QED
    BY <2>1 DEF ts
<1>3. /\ DOMAIN hs2 = DOMAIN hs
      /\ \A b \in DOMAIN hs : /\ hs2[b].born = hs[b].born
                              /\ \A d : Among(d, hs2[b].records) => Among(d, hs[b].records)
                              /\ HeldInOrder(t, cs, hs[b].records) => HeldInOrder(t, cs, hs2[b].records)
  <2> HIDE DEF ts
  <2>1. \A b \in DOMAIN hs : hs2[b].born = hs[b].born /\ (b # a => hs2[b].records = hs[b].records)
    BY <1>2 DEF Refiled
  <2>2. DOMAIN hs2 = DOMAIN hs /\ hs2[a].records = ts
    BY <1>2 DEF Refiled
  <2> QED
    BY <2>1, <2>2, <1>1
<1> HIDE DEF ts, rs
<1>4. \A b \in DOMAIN hs : \A c : After(t, cs, c, hs[b].records) => After(t, cs, c, hs2[b].records)
  BY <1>3 DEF After
<1>5. ASSUME NEW b \in DOMAIN hs, Mine(k, t, b)
      PROVE  HeldInOrder(t, cs, hs2[b].records) /\ ToldFirst(t, cs, rep, hs2[b].records)
  BY <1>3, <1>4, <1>5 DEF Sorted, ToldFirst
<1>6. ASSUME NEW b \in DOMAIN hs, NEW c \in DOMAIN hs, Mine(k, t, b), Mine(k, t, c), hs[c].born < hs[b].born
      PROVE  OuterFirst(t, cs, hs2[c].records, hs2[b].records)
  <2>1. OuterFirst(t, cs, hs[c].records, hs[b].records)
    BY <1>6 DEF Sorted
  <2> QED
    BY <2>1, <1>3, <1>4 DEF OuterFirst
<1>7. ASSUME NEW b \in DOMAIN hs, NEW u \in Task, Mine(k, u, b), u # t, NEW d \in DOMAIN cs, Among(d, hs2[b].records)
      PROVE  cs[d].by # t
  BY <1>3, <1>7 DEF Sorted
<1> QED
  BY <1>3, <1>5, <1>6, <1>7 DEF Sorted

-----------------------------------------------------------------------------
(* What a call, a flush and the steps beside them leave in order *)

OrderAfter ==
  /\ SortedApart(stack', ctx', calls', attempts', reported') /\ Latest(stack', calls', attempts', reported')
  /\ ToldNames(calls', reported') /\ Askers(started', calls')

LEMMA OneOwner ==
  ASSUME NEW k, Single(k), NEW t \in Task, NEW u \in Task, NEW a, Mine(k, t, a), Mine(k, u, a)
  PROVE  t = u
<1>1. PICK i \in DOMAIN k[t] : k[t][i].kind \in Polls /\ k[t][i].id = a
  BY DEF Mine
<1>2. PICK j \in DOMAIN k[u] : k[u][j].kind \in Polls /\ k[u][j].id = a
  BY DEF Mine
<1>3. Alike(k[t][i], k[u][j])
  BY <1>1, <1>2 DEF Alike, Polls, Marks
<1> QED
  BY <1>3 DEF Single

\* An attempt of t that is not the one on top: it is as old as the one in frame 2, or older.
LEMMA FurtherOut ==
  ASSUME Sound, NEW t \in Task, NEW kind, kind \in {"call", "flush"}, AtTop(t, kind), NEW b, Mine(stack, t, b),
         kind = "flush" => b # Top(t).id
  PROVE  /\ b \in DOMAIN attempts /\ attempts[b].born \in Nat
         /\ stack[t][2].id \in DOMAIN attempts /\ attempts[stack[t][2].id].born \in Nat /\ attempts[stack[t][2].id].alive
         /\ attempts[b].born <= attempts[stack[t][2].id].born
         /\ kind = "call" => ctx[t].held = stack[t][2].id
         /\ kind = "flush" => Top(t).old = stack[t][2].id /\ attempts[stack[t][2].id].born < attempts[Top(t).id].born
<1>1. /\ 1 \in DOMAIN stack[t] /\ stack[t][1].kind = kind /\ Shaped(stack[t]) /\ Top(t) = stack[t][1]
      /\ stack[t] \in Seq(FrameT) /\ Nested(stack, attempts)
  BY Innermost DEF Sound, Inv, Typed, Struct
<1>2. PICK j \in DOMAIN stack[t] : stack[t][j].kind \in Polls /\ stack[t][j].id = b
  BY DEF Mine
<1>3. j # 1
  BY <1>1, <1>2 DEF Polls
<1>4. stack[t][j].kind = "attempt"
  BY <1>1, <1>2, <1>3 DEF Shaped, Polls
<1>5. /\ 2 \in DOMAIN stack[t] /\ stack[t][2].kind = "attempt" /\ 2 <= j
      /\ stack[t][2].id \in DOMAIN attempts /\ attempts[stack[t][2].id].alive
      /\ kind = "call" => ctx[t].held = stack[t][2].id
      /\ kind = "flush" => stack[t][1].old = stack[t][2].id
  BY <1>1, <1>4, SecondPoll
<1>6. /\ b \in DOMAIN attempts /\ attempts[b].born \in Nat /\ attempts[stack[t][2].id].born \in Nat
      /\ attempts[b].born <= attempts[stack[t][2].id].born
  <2> DEFINE n == 2
  <2>1. n \in Nat /\ n \in DOMAIN stack[t] /\ stack[t][n].kind \in Polls /\ n <= j
    BY <1>5 DEF Polls
  <2> HIDE DEF n
  <2>2. /\ b \in DOMAIN attempts /\ attempts[b].born \in Nat /\ attempts[stack[t][n].id].born \in Nat
        /\ attempts[b].born <= attempts[stack[t][n].id].born
    BY <2>1, <1>2, <1>4, Younger
  <2> QED
    BY <2>2 DEF n
<1>7. kind = "flush" => attempts[stack[t][2].id].born < attempts[stack[t][1].id].born
  BY <1>1, <1>5 DEF Nested, Polls
<1> QED
  BY <1>1, <1>5, <1>6, <1>7

LEMMA StillLatest ==
  ASSUME NEW k, NEW k2, NEW cs, NEW cs2, NEW hs, NEW hs2, NEW rep, NEW rep2, Latest(k, cs, hs, rep), SameAsked(cs, cs2),
         \A d \in DOMAIN cs2 : Out(d, hs2, rep2) => d \in DOMAIN cs /\ (Out(d, hs, rep) \/ ~Runs(k2, cs[d].by)),
         \A u \in Task : Runs(k2, u) => \/ Runs(k, u) /\ k2[u][1].id = k[u][1].id
                                        \/ \A d \in DOMAIN cs : d < k2[u][1].id
  PROVE  Latest(k2, cs2, hs2, rep2)
<1> SUFFICES ASSUME NEW u \in Task, Runs(k2, u), NEW d \in DOMAIN cs2, Out(d, hs2, rep2), cs2[d].by = u
             PROVE  d < k2[u][1].id
  BY DEF Latest
<1>1. d \in DOMAIN cs /\ cs[d].by = u /\ Out(d, hs, rep)
  BY DEF SameAsked
<1> QED
  BY <1>1 DEF Latest

LEMMA OutNames ==
  ASSUME NEW cs, NEW hs, NEW rep, RecordNames(cs, hs), ToldNames(cs, rep), NEW d, Out(d, hs, rep)
  PROVE  d \in DOMAIN cs
BY HeldNames DEF Out, ToldNames

\* A step at which nothing is told, held back or handed on.
LEMMA QuietOrder ==
  ASSUME Sound, Order, reported' = reported, SameAsked(calls, calls'), SameHeld(attempts, attempts'),
         \A u \in Task : \A a \in DOMAIN attempts : Mine(stack', u, a) => Mine(stack, u, a),
         \A u \in Task : Apart(stack', ctx', u) => Apart(stack, ctx, u) \/ \A c \in DOMAIN calls : calls[c].by # u,
         \A u \in Task : Runs(stack', u) => \/ Runs(stack, u) /\ stack'[u][1].id = stack[u][1].id
                                            \/ \A d \in DOMAIN calls : d < stack'[u][1].id,
         Askers(started', calls')
  PROVE  OrderAfter
<1>1. RecordNames(calls, attempts) /\ ToldNames(calls, reported)
  BY DEF Sound, Inv, Named, Order
<1>2. ASSUME NEW u \in Task, Apart(stack', ctx', u) PROVE Sorted(u, stack', calls', attempts', reported')
  <2>1. Sorted(u, stack, calls, attempts, reported)
    BY <1>1, <1>2, NothingAsked DEF Order, SortedApart
  <2> QED
    BY <2>1, <1>1, SortedStays
<1>3. \A d : Out(d, attempts', reported') => Out(d, attempts, reported)
  BY DEF Out, SameHeld, Among
<1>4. Latest(stack', calls', attempts', reported')
  <2>1. \A d : Out(d, attempts', reported') => d \in DOMAIN calls
    BY <1>1, <1>3, OutNames
  <2>2. Latest(stack, calls, attempts, reported)
    BY DEF Order
  <2> QED
    BY <2>1, <2>2, <1>3, StillLatest
<1>5. ToldNames(calls', reported')
  BY <1>1 DEF ToldNames, SameAsked
<1> QED
  BY <1>2, <1>4, <1>5 DEF OrderAfter, SortedApart

\* Pass c may be told: of its line, nothing is held back that was asked before it.
Foremost(t, k, cs, hs, rep, c) ==
  DueNext(t, cs, rep, c) /\ \A b \in DOMAIN hs : Mine(k, t, b) => After(t, cs, c, hs[b].records)

\* A callback is handed the pass of c; what is held back is hs, the calls are cs.
LEMMA TellOrder ==
  ASSUME Sound, Order, reported \in Seq(Nat), NEW t \in Task, t \in started, started' = started,
         NEW cs, Reflagged(calls, cs), NEW hs, hs = attempts', RecordNames(cs, hs),
         NEW c, c \in DOMAIN calls, Tell(t, c, stack[t], cs),
         \A d : Out(d, hs, reported) => Out(d, attempts, reported),
         Out(c, attempts, reported) \/ calls[c].by = t,
         \A s \in Task : Apart(stack, ctx, s) =>
           Sorted(s, stack, cs, hs, reported) /\ (cs[c].by = s => Foremost(s, stack, cs, hs, reported, c))
  PROVE  OrderAfter
<1> DEFINE f == [kind |-> "tell", id |-> Len(cs) + 1, old |-> ctx[t].observed]
<1>0. stack \in [Task -> Seq(FrameT)] /\ ctx \in [Task -> CtxT] /\ calls \in Seq(CallT) /\ cs \in Seq(CallT)
  BY DEF Sound, Inv, Typed, Reflagged
<1>1. ToldNames(calls, reported) /\ Latest(stack, calls, attempts, reported) /\ Askers(started, calls)
  BY DEF Order
<1>2. /\ calls' = Append(cs, Quiet(t)) /\ Len(calls') = Len(cs) + 1 /\ reported' = Append(reported, c)
      /\ Extended(cs, calls', Len(cs) + 1, Quiet(t)) /\ Extended(reported, reported', Len(reported) + 1, c)
  <2>1. calls' = Append(cs, Quiet(t)) /\ reported' = Append(reported, c)
    BY DEF Tell
  <2>2. Extended(cs, calls', Len(cs) + 1, Quiet(t)) /\ Len(calls') = Len(cs) + 1
    BY <2>1, <1>0, Quieting, Extending
  <2> QED
    BY <2>1, <2>2, AnyAppend
<1>3. stack' = [stack EXCEPT ![t] = <<f>> \o @] /\ ctx' = Watching(ctx, t, Len(cs) + 1)
  BY <1>2 DEF Tell, Watching
<1>4. f \in FrameT /\ f.kind = "tell" /\ Len(cs) + 1 \in Nat
  <2>1. Len(cs) + 1 \in Nat /\ ctx[t] \in CtxT
    BY <1>0
  <2> QED
    BY <2>1 DEF FrameT, CtxT, Marks
<1> HIDE DEF f
<1>5. Grown(stack, stack', t, f)
  BY <1>0, <1>3, <1>4, Pushing
<1>6. SamePolls(stack, stack')
  <2>1. f.kind \notin Polls
    BY <1>4 DEF Polls
  <2> QED
    BY <2>1, <1>0, <1>5, MarkComes
<1>7. \A u \in Task : ctx'[u].held = ctx[u].held
  <2>1. Moved(ctx, ctx', t, ctx[t].scope, Len(cs) + 1, ctx[t].held)
    BY <1>0, <1>3, <1>4, Context
  <2> QED
    BY <2>1 DEF Moved
<1>8. Fewer(stack, ctx, stack', ctx')
  BY <1>6, <1>7, NoneFewer
<1>9. SameAsked(calls, cs) /\ SameAsked(cs, calls') /\ SameAsked(calls, calls') /\ DOMAIN cs = DOMAIN calls
  <2>1. SameAsked(calls, cs) /\ DOMAIN cs = DOMAIN calls
    BY DEF Reflagged, SameAsked
  <2>2. SameAsked(cs, calls')
    BY <1>2 DEF Extended, SameAsked
  <2> QED
    BY <2>1, <2>2 DEF SameAsked
<1>10. ToldNames(calls, reported') /\ ToldNames(cs, reported') /\ ToldNames(calls', reported') /\ ToldNames(cs, reported)
  <2>1. ToldNames(calls, reported')
    BY <1>1, <1>2 DEF ToldNames, Extended
  <2> QED
    BY <2>1, <1>1, <1>9 DEF ToldNames, SameAsked
<1>11. ASSUME NEW s \in Task, Apart(stack', ctx', s) PROVE Sorted(s, stack', calls', attempts', reported')
  <2>1. Apart(stack, ctx, s)
    BY <1>8, <1>11 DEF Fewer
  <2>2. Sorted(s, stack, cs, hs, reported) /\ (cs[c].by = s => Foremost(s, stack, cs, hs, reported, c))
    BY <2>1
  <2>3. Sorted(s, stack, cs, hs, Append(reported, c))
    <3>1. c \in Nat
      BY <1>0, Lengths
    <3> QED
      BY <2>2, <3>1, Telling DEF Foremost
  <2>4. Sorted(s, stack, cs, hs, reported')
    BY <2>3, <1>2
  <2>5. SameHeld(hs, hs)
    BY DEF SameHeld
  <2>6. \A u \in Task : \A a \in DOMAIN hs : Mine(stack', u, a) => Mine(stack, u, a)
    BY <1>8 DEF Fewer
  <2>7. Sorted(s, stack', calls', hs, reported')
    BY <2>4, <2>5, <2>6, <1>9, <1>10, SortedStays
  <2> QED
    BY <2>7
<1>12. Latest(stack', calls', attempts', reported')
  <2>1. ~ Runs(stack', t) /\ \A u \in Task : u # t => stack'[u] = stack[u]
    BY <1>4, <1>5 DEF Runs, Grown
  <2>2. \A d : Out(d, hs, reported') => Out(d, attempts, reported) \/ d = c
    <3>1. \A d : Out(d, hs, reported') => Out(d, hs, reported) \/ d = c
      BY <1>2 DEF Out, Extended
    <3> QED
      BY <3>1
  <2>3. RecordNames(calls, attempts)
    BY DEF Sound, Inv, Named
  <2>4. \A d \in DOMAIN calls' : Out(d, hs, reported') =>
          d \in DOMAIN calls /\ (Out(d, attempts, reported) \/ ~ Runs(stack', calls[d].by))
    <3>1. \A d : Out(d, attempts, reported) => d \in DOMAIN calls
      BY <2>3, <1>1, OutNames
    <3> QED
      BY <3>1, <2>1, <2>2
  <2>5. \A u \in Task : Runs(stack', u) => Runs(stack, u) /\ stack'[u][1].id = stack[u][1].id
    BY <2>1 DEF Runs
  <2> QED
    BY <2>4, <2>5, <1>1, <1>9, StillLatest
<1>13. Askers(started', calls')
  BY <1>1, <1>2, <1>9, Quieting DEF Askers, Extended, SameAsked
<1> QED
  BY <1>10, <1>11, <1>12, <1>13 DEF OrderAfter, SortedApart

\* What t hands on next from attempt a, which it flushes: it was asked before the rest of a, and after what is further out.
LEMMA FirstHeld ==
  ASSUME Sound, Order, NEW t \in Task, AtTop(t, "flush"), NEW a, a = Top(t).id, attempts[a].records # <<>>,
         NEW r, r = Head(attempts[a].records), NEW hs, hs = Filed(attempts, a, Tail(attempts[a].records)),
         NEW s \in Task, Apart(stack, ctx, s)
  PROVE  /\ Sorted(s, stack, calls, hs, reported)
         /\ calls[r.call].by = s =>
              /\ s = t /\ DueNext(s, calls, reported, r.call) /\ After(s, calls, r.call, hs[a].records)
              /\ \A b \in DOMAIN hs : Mine(stack, s, b) /\ b # a => AllBefore(s, calls, hs[b].records, r.call)
<1> DEFINE rs == attempts[a].records
           ts == Tail(rs)
<1>1. /\ 1 \in DOMAIN stack[t] /\ Top(t) = stack[t][1] /\ stack[t][1].kind = "flush" /\ a \in DOMAIN attempts
      /\ attempts \in Seq(AttemptT) /\ RecordNames(calls, attempts)
  BY Innermost DEF Polls, Sound, Inv, Typed, Named
<1>2. Mine(stack, t, a)
  BY <1>1 DEF Mine, Polls
<1>3. rs \in Seq(RecordT) /\ rs # <<>>
  <2>1. attempts[a] \in AttemptT
    BY <1>1, Lengths
  <2> QED
    BY <2>1 DEF AttemptT
<1>4. Sorted(s, stack, calls, attempts, reported)
  BY DEF Order, SortedApart
<1>5. Sorted(s, stack, calls, hs, reported)
  BY <1>1, <1>4, HandingOn
<1>6. ts \in Seq(RecordT) /\ r \in RecordT /\ Among(r.call, rs)
      /\ (HeldInOrder(s, calls, rs) => After(s, calls, r.call, ts))
  <2> HIDE DEF rs
  <2> QED
    BY <1>3, HeldOneLess DEF rs
<1>7. Refiled(attempts, hs, a, ts)
  <2> HIDE DEF ts
  <2>1. Refiled(attempts, Filed(attempts, a, ts), a, ts)
    BY <1>1, <1>6, Refiling
  <2> QED
    BY <2>1 DEF ts
<1> HIDE DEF ts
<1>8. hs[a].records = ts /\ DOMAIN hs = DOMAIN attempts /\ \A b \in DOMAIN attempts : b # a => hs[b].records = attempts[b].records
  BY <1>7 DEF Refiled
<1>9. Among(r.call, attempts[a].records) /\ r.call \in DOMAIN calls
  <2>1. Among(r.call, attempts[a].records)
    BY <1>6
  <2> QED
    BY <2>1, <1>1, HeldNames
<1> HIDE DEF rs
<1>10. ASSUME calls[r.call].by = s PROVE s = t
  BY <1>1, <1>2, <1>4, <1>9, <1>10 DEF Sorted
<1>11. ASSUME s = t PROVE DueNext(s, calls, reported, r.call) /\ After(s, calls, r.call, hs[a].records)
  <2>1. HeldInOrder(s, calls, attempts[a].records) /\ ToldFirst(s, calls, reported, attempts[a].records)
    BY <1>1, <1>2, <1>4, <1>11 DEF Sorted
  <2>2. DueNext(s, calls, reported, r.call)
    BY <2>1, <1>9 DEF ToldFirst, After, DueNext
  <2> QED
    BY <2>1, <2>2, <1>6, <1>8 DEF rs
<1>12. ASSUME s = t, NEW b \in DOMAIN hs, Mine(stack, s, b), b # a PROVE AllBefore(s, calls, hs[b].records, r.call)
  <2>1. attempts[b].born < attempts[a].born
    <3>1. /\ attempts[b].born \in Nat /\ attempts[stack[t][2].id].born \in Nat
          /\ attempts[b].born <= attempts[stack[t][2].id].born
          /\ attempts[stack[t][2].id].born < attempts[a].born
      BY <1>1, <1>12, FurtherOut
    <3>2. attempts[a].born \in Nat
      <4>1. attempts[a] \in AttemptT
        BY <1>1, Lengths
      <4> QED
        BY <4>1 DEF AttemptT
    <3> QED
      BY <3>1, <3>2
  <2>2. OuterFirst(s, calls, attempts[b].records, attempts[a].records)
    BY <2>1, <1>1, <1>2, <1>4, <1>8, <1>12 DEF Sorted
  <2>3. AllBefore(s, calls, attempts[b].records, r.call)
    BY <2>2, <1>9 DEF OuterFirst, After, AllBefore
  <2> QED
    BY <2>3, <1>8, <1>12
<1> QED
  BY <1>5, <1>10, <1>11, <1>12

\* Nothing is told, and what is held back was held back before or is the pass c of t.
LEMMA HeldOrder ==
  ASSUME Order, UNCHANGED <<started, stack, ctx, calls, reported>>, NEW hs, hs = attempts',
         \A s \in Task : Apart(stack, ctx, s) => Sorted(s, stack, calls, hs, reported),
         \A d : Out(d, hs, reported) => Out(d, attempts, reported)
  PROVE  OrderAfter
<1>1. Latest(stack, calls, hs, reported)
  BY DEF Order, Latest
<1>2. SortedApart(stack, ctx, calls, hs, reported)
  BY DEF SortedApart
<1> QED
  BY <1>1, <1>2 DEF Order, OrderAfter

LEMMA FlushOrder ==
  ASSUME Sound, Order, reported \in Seq(Nat), NEW t \in Task, t \in started, FlushStep(t)
  PROVE  OrderAfter
<1> DEFINE a == Top(t).id
           outer == Top(t).old
           rs == attempts[a].records
           r == Head(rs)
           c == r.call
           e == calls[c].entry
           taken == Filed(attempts, a, Tail(rs))
<1>1. /\ AtTop(t, "flush") /\ rs # <<>> /\ a \in DOMAIN attempts /\ 1 \in DOMAIN stack[t] /\ Top(t) = stack[t][1]
      /\ stack[t][1].kind = "flush" /\ outer \in OrNone(attempts) /\ started' = started
  BY Innermost DEF FlushStep, Polls
<1>2. attempts \in Seq(AttemptT) /\ calls \in Seq(CallT) /\ RecordNames(calls, attempts)
  BY DEF Sound, Inv, Typed, Named
<1>3. rs \in Seq(RecordT) /\ rs # <<>>
  <2>1. attempts[a] \in AttemptT
    BY <1>1, <1>2, Lengths
  <2> QED
    BY <1>1, <2>1 DEF AttemptT
<1>4. r \in RecordT /\ Tail(rs) \in Seq(RecordT) /\ Among(c, rs) /\ \A d : Among(d, Tail(rs)) => Among(d, rs)
  <2> HIDE DEF rs
  <2> QED
    BY <1>3, HeldOneLess
<1>5. Refiled(attempts, taken, a, Tail(rs))
  BY <1>1, <1>2, <1>4, Refiling
<1>6. c \in DOMAIN calls
  BY <1>1, <1>2, <1>4, HeldNames
<1>7. RecordNames(calls, taken)
  <2>1. Inv(stack, ctx, entries, calls, taken)
    BY <1>1, Taking DEF Sound
  <2> QED
    BY <2>1 DEF Inv, Named
<1>8. \A s \in Task : Apart(stack, ctx, s) =>
        /\ Sorted(s, stack, calls, taken, reported)
        /\ calls[c].by = s =>
             /\ s = t /\ DueNext(s, calls, reported, c) /\ After(s, calls, c, taken[a].records)
             /\ \A b \in DOMAIN taken : Mine(stack, s, b) /\ b # a => AllBefore(s, calls, taken[b].records, c)
  BY <1>1, FirstHeld
<1>9. taken = [attempts EXCEPT ![a].records = Tail(@)]
  BY DEF Filed
<1>10. /\ \A d : Out(d, taken, reported) => Out(d, attempts, reported)
       /\ Out(c, attempts, reported)
  <2> DEFINE ts == Tail(rs)
  <2>1. Refiled(attempts, taken, a, ts) /\ \A d : Among(d, ts) => Among(d, rs)
    BY <1>4, <1>5
  <2> HIDE DEF ts, taken
  <2>2. \A b \in DOMAIN taken : b \in DOMAIN attempts /\ \A d : Among(d, taken[b].records) => Among(d, attempts[b].records)
    BY <2>1 DEF Refiled
  <2> QED
    BY <2>2, <1>1, <1>4 DEF Out
<1>11. DOMAIN taken = DOMAIN attempts /\ taken \in Seq(AttemptT) /\ \A b \in DOMAIN taken : taken[b].born = attempts[b].born
  BY <1>5 DEF Refiled
<1>12. a = Top(t).id /\ outer = Top(t).old
  OBVIOUS
<1>13. ASSUME NEW b, Mine(stack, t, b), b # a
       PROVE  /\ b \in DOMAIN attempts /\ attempts[b].born \in Nat /\ outer = stack[t][2].id
              /\ outer \in DOMAIN attempts /\ attempts[outer].alive /\ attempts[outer].born \in Nat
              /\ attempts[b].born <= attempts[outer].born /\ attempts[outer].born < attempts[a].born
  BY <1>1, <1>13, FurtherOut
<1>14. CASE /\ HandsOver(outer, e) /\ attempts' = [[attempts EXCEPT ![a].records = Tail(@)] EXCEPT ![outer].records = Append(@, r)]
            /\ UNCHANGED <<ctx, stack, calls, reported>>
  <2>1. attempts' = Filed(taken, outer, Append(taken[outer].records, r))
    BY <1>9, <1>14 DEF Filed
  <2>2. outer # None /\ outer \in DOMAIN attempts /\ attempts[outer].alive
    BY <1>1, <1>14 DEF HandsOver, OrNone
  <2>3. outer # a
    <3>1. On(stack, {"attempt"}, outer) /\ Single(stack)
      BY <2>2 DEF Sound, Inv, Struct, Holds
    <3>2. PICK u \in Task : \E i \in DOMAIN stack[u] : stack[u][i].kind \in {"attempt"} /\ stack[u][i].id = outer
      BY <3>1 DEF On
    <3>3. PICK i \in DOMAIN stack[u] : stack[u][i].kind \in {"attempt"} /\ stack[u][i].id = outer
      BY <3>2
    <3> HIDE DEF outer
    <3> SUFFICES ASSUME outer = a PROVE FALSE
      OBVIOUS
    <3>4. Alike(stack[u][i], stack[t][1])
      BY <3>3, <1>1 DEF Alike, Marks
    <3>5. u = t /\ i = 1
      BY <3>1, <3>4, <1>1 DEF Single
    <3> QED
      BY <3>3, <3>5, <1>1
  <2>4. Leads(stack, t, outer)
    BY <1>1 DEF Leads, Polls
  <2>5. RecordNames(calls, taken) /\ ToldNames(calls, reported) /\ outer \in DOMAIN taken
    BY <2>2, <1>7, <1>11 DEF Order
  <2>6. Single(stack)
    BY DEF Sound, Inv, Struct
  <2> HIDE DEF taken, r, rs, outer, a, e
  <2>7. ASSUME NEW s \in Task, Apart(stack, ctx, s) PROVE Sorted(s, stack, calls, attempts', reported)
    <3>1. ASSUME calls[c].by = s PROVE Fits(s, stack, calls, taken, reported, outer, c)
      <4>1. /\ s = t /\ DueNext(s, calls, reported, c) /\ After(s, calls, c, taken[a].records)
            /\ \A b \in DOMAIN taken : Mine(stack, s, b) /\ b # a => AllBefore(s, calls, taken[b].records, c)
        BY <2>7, <3>1, <1>8
      <4>2. Mine(stack, t, outer)
        BY <2>2, <2>4, <2>7, <4>1 DEF Apart
      <4>3. attempts[outer].born < attempts[a].born /\ attempts[outer].born \in Nat
        BY <2>3, <4>2, <1>13
      <4>4. ASSUME NEW b \in DOMAIN taken, Mine(stack, s, b)
            PROVE  \/ taken[b].born <= taken[outer].born /\ AllBefore(s, calls, taken[b].records, c)
                   \/ taken[b].born > taken[outer].born /\ After(s, calls, c, taken[b].records)
        <5>1. CASE b = a
          <6>1. taken[b].born = attempts[a].born /\ taken[outer].born = attempts[outer].born
            BY <5>1, <2>5, <4>4, <1>11
          <6>2. attempts[a].born \in Nat
            <7>1. attempts[a] \in AttemptT
              BY <1>1, <1>2, Lengths
            <7> QED
              BY <7>1 DEF AttemptT
          <6>3. taken[b].born > taken[outer].born
            BY <6>1, <6>2, <4>3
          <6> QED
            BY <6>3, <5>1, <4>1
        <5>2. CASE b # a
          <6>1. attempts[b].born <= attempts[outer].born
            BY <5>2, <4>1, <4>4, <1>13
          <6>2. taken[b].born <= taken[outer].born
            BY <6>1, <2>5, <4>4, <1>11
          <6> QED
            BY <6>2, <5>2, <4>1, <4>4
        <5> QED
          BY <5>1, <5>2
      <4> QED
        BY <4>1, <4>2, <4>4 DEF Fits
    <3>2. \A u \in Task : Mine(stack, s, outer) /\ Mine(stack, u, outer) => u = s
      BY <2>6, OneOwner
    <3>3. Sorted(s, stack, calls, taken, reported)
      BY <2>7, <1>8
    <3> QED
      BY <3>1, <3>2, <3>3, <2>1, <2>5, <1>4, <1>6, <1>11, Placing DEF c
  <2>8. \A d : Out(d, attempts', reported) => Out(d, attempts, reported)
    <3> DEFINE qs == Append(taken[outer].records, r)
    <3>1. taken[outer].records \in Seq(RecordT)
      <4>1. taken[outer] \in AttemptT
        BY <2>5, <1>11, Lengths
      <4> QED
        BY <4>1 DEF AttemptT
    <3>2. qs \in Seq(RecordT) /\ \A d : Among(d, qs) <=> Among(d, taken[outer].records) \/ d = c
      BY <3>1, <1>4, AmongMore DEF c
    <3> HIDE DEF qs
    <3>3. Refiled(taken, attempts', outer, qs)
      <4>1. Refiled(taken, Filed(taken, outer, qs), outer, qs)
        BY <3>2, <2>5, <1>11, Refiling
      <4> QED
        BY <4>1, <2>1 DEF qs
    <3>4. \A b \in DOMAIN attempts' : b \in DOMAIN taken /\ \A d : Among(d, attempts'[b].records) => Among(d, taken[b].records) \/ d = c
      BY <3>2, <3>3 DEF Refiled
    <3>5. \A d : Out(d, attempts', reported) => Out(d, taken, reported) \/ d = c
      BY <3>4 DEF Out
    <3> QED
      BY <3>5, <1>10
  <2> QED
    BY <2>7, <2>8, <1>1, <1>14, HeldOrder
<1>15. CASE ~HandsOver(outer, e) /\ attempts' = [attempts EXCEPT ![a].records = Tail(@)] /\ Tell(t, c, stack[t], calls)
  <2>1. attempts' = taken
    BY <1>9, <1>15
  <2>2. Reflagged(calls, calls)
    BY <1>2 DEF Reflagged
  <2> HIDE DEF taken
  <2>3. ASSUME NEW s \in Task, Apart(stack, ctx, s), calls[c].by = s PROVE Foremost(s, stack, calls, taken, reported, c)
    <3>1. s = t /\ DueNext(s, calls, reported, c) /\ After(s, calls, c, taken[a].records)
      BY <2>3, <1>8
    <3>2. ASSUME NEW b \in DOMAIN taken, Mine(stack, s, b), b # a PROVE After(s, calls, c, taken[b].records)
      <4> SUFFICES ASSUME NEW d \in DOMAIN calls, Among(d, taken[b].records), SameLine(calls, s, c, d) PROVE FALSE
        BY DEF After
      <4>1. /\ b \in DOMAIN attempts /\ attempts[b].born \in Nat /\ outer \in DOMAIN attempts /\ attempts[outer].alive
            /\ attempts[outer].born \in Nat /\ attempts[b].born <= attempts[outer].born
        BY <3>1, <3>2, <1>13
      <4>2. taken[b].records = attempts[b].records
        BY <3>2, <4>1, <1>5 DEF Refiled
      <4>3. PICK i \in DOMAIN attempts[b].records : attempts[b].records[i].call = d
        BY <4>2 DEF Among
      <4>4. Fit(attempts[b].records[i], b, entries, calls, attempts)
        BY <4>1 DEF Sound, Inv, Data, Recorded
      <4>5. calls[d].entry # None /\ entries[calls[d].entry].born < attempts[b].born /\ calls[d].entry = e
        BY <4>3, <4>4 DEF Fit, SameLine
      <4>6. e \in DOMAIN entries
        BY <4>5, <1>6 DEF Sound, Inv, Named, CallNames, OrNone
      <4>7. entries[e].born \in Nat
        <5>1. entries[e] \in EntryT
          BY <4>6, Lengths DEF Sound, Inv, Typed
        <5> QED
          BY <5>1 DEF EntryT
      <4> HIDE DEF outer, e
      <4>8. entries[e].born < attempts[outer].born
        BY <4>1, <4>5, <4>7
      <4>9. outer # None
        BY <4>1, <1>2, Lengths DEF None
      <4> QED
        BY <4>1, <4>8, <4>9, <1>15 DEF HandsOver
    <3> QED
      BY <3>1, <3>2 DEF Foremost
  <2>4. \A s \in Task : Apart(stack, ctx, s) =>
          Sorted(s, stack, calls, taken, reported) /\ (calls[c].by = s => Foremost(s, stack, calls, taken, reported, c))
    BY <2>3, <1>8
  <2> HIDE DEF c
  <2> QED
    BY <2>1, <2>2, <2>4, <1>1, <1>6, <1>7, <1>10, <1>15, TellOrder
<1>16. CASE attempts' = [attempts EXCEPT ![a].records = Tail(@)] /\ UNCHANGED <<ctx, stack, calls, reported>>
  <2>1. attempts' = taken
    BY <1>9, <1>16
  <2> HIDE DEF taken
  <2>2. \A s \in Task : Apart(stack, ctx, s) => Sorted(s, stack, calls, attempts', reported)
    BY <2>1, <1>8
  <2>3. \A d : Out(d, attempts', reported) => Out(d, attempts, reported)
    BY <2>1, <1>10
  <2> QED
    BY <2>2, <2>3, <1>1, <1>16, HeldOrder
<1> QED
  BY <1>14, <1>15, <1>16 DEF FlushStep

\* The call of t that returns was asked after all that was told or held back of t, and so of its line.
LEMMA LatestCall ==
  ASSUME Sound, Order, NEW t \in Task, AtTop(t, "call"), NEW c, c = Top(t).id
  PROVE  /\ c \in DOMAIN calls /\ calls[c].by = t /\ DueNext(t, calls, reported, c)
         /\ \A b \in DOMAIN attempts : AllBefore(t, calls, attempts[b].records, c)
<1>1. 1 \in DOMAIN stack[t] /\ Top(t) = stack[t][1] /\ stack[t][1].kind = "call" /\ c \in DOMAIN calls
  BY Innermost DEF Marks
<1>2. calls[c].by = t
  BY <1>1 DEF Sound, Inv, Data, Running, Depends, Leans
<1>3. \A d \in DOMAIN calls : Out(d, attempts, reported) /\ calls[d].by = t => d < c
  BY <1>1 DEF Order, Latest, Runs
<1>4. DueNext(t, calls, reported, c)
  BY <1>3 DEF DueNext, SameLine, Out, Order, ToldNames
<1>5. \A b \in DOMAIN attempts : AllBefore(t, calls, attempts[b].records, c)
  BY <1>3 DEF AllBefore, SameLine, Out
<1> QED
  BY <1>1, <1>2, <1>4, <1>5

\* The frame of a call goes.
LEMMA CallGoes ==
  ASSUME Sound, NEW t \in Task, AtTop(t, "call"), NEW cs, CallEnds(t, cs)
  PROVE  /\ Fewer(stack, ctx, stack', ctx') /\ ~ Runs(stack', t)
         /\ \A u \in Task : Runs(stack', u) => Runs(stack, u) /\ stack'[u][1].id = stack[u][1].id
<1>1. /\ 1 \in DOMAIN stack[t] /\ Top(t) = stack[t][1] /\ stack[t][1].kind = "call" /\ Shaped(stack[t]) /\ stack[t] # <<>>
      /\ stack[t][1].old \in OrNone(calls)
  BY Innermost DEF Marks
<1>2. stack \in [Task -> Seq(FrameT)] /\ ctx \in [Task -> CtxT] /\ calls \in Seq(CallT)
  BY DEF Sound, Inv, Typed
<1>3. stack' = [stack EXCEPT ![t] = Tail(@)] /\ ctx' = Watching(ctx, t, Top(t).old)
  BY DEF CallEnds, Watching
<1>4. stack' \in [Task -> Seq(FrameT)] /\ Grown(stack', stack, t, stack[t][1])
  <2>1. Head(stack[t]) = stack[t][1]
    BY <1>1, <1>2
  <2>2. stack' \in [Task -> Seq(FrameT)] /\ Grown(stack', stack, t, Head(stack[t]))
    BY <1>1, <1>2, <1>3, Popping
  <2> QED
    BY <2>1, <2>2
<1>5. SamePolls(stack, stack')
  <2>1. stack[t][1].kind \notin Polls
    BY <1>1 DEF Polls
  <2> QED
    BY <2>1, <1>4, MarkLeaves
<1>6. \A u \in Task : ctx'[u].held = ctx[u].held
  <2>1. Top(t).old \in Nat
    BY <1>1, <1>2, Lengths DEF OrNone, None
  <2>2. Moved(ctx, ctx', t, ctx[t].scope, Top(t).old, ctx[t].held)
    BY <2>1, <1>2, <1>3, Context
  <2> QED
    BY <2>2 DEF Moved
<1>7. Fewer(stack, ctx, stack', ctx')
  BY <1>5, <1>6, NoneFewer
<1>8. ~ Runs(stack', t)
  <2> SUFFICES ASSUME Runs(stack', t) PROVE FALSE
    OBVIOUS
  <2>1. 1 \in DOMAIN stack'[t] /\ stack'[t][1].kind = "call"
    BY DEF Runs
  <2> DEFINE n == 1
  <2>2. n \in DOMAIN stack'[t] /\ n + 1 = 2
    BY <2>1
  <2> HIDE DEF n
  <2>3. n + 1 \in DOMAIN stack[t] /\ stack[t][n + 1] = stack'[t][n]
    BY <2>2, <1>4 DEF Grown
  <2>4. 2 \in DOMAIN stack[t] /\ stack[t][2].kind = "call"
    BY <2>1, <2>2, <2>3 DEF n
  <2> QED
    BY <2>4, <1>1 DEF Shaped
<1>9. \A u \in Task : u # t => stack'[u] = stack[u]
  BY <1>4 DEF Grown
<1> QED
  BY <1>7, <1>8, <1>9 DEF Runs

LEMMA ReturnOrder ==
  ASSUME Sound, Order, reported \in Seq(Nat), NEW t \in Task, t \in started, Return(t)
  PROVE  OrderAfter
<1> DEFINE c == Top(t).id
           e == calls[c].entry
           toReport == e # None /\ ~calls[c].failed /\ Wants(ctx[t], e)
           a == Holding(ctx[t], e)
           cs == Succeeded(calls, c)
<1>0. /\ calls \in Seq(CallT) /\ attempts \in Seq(AttemptT) /\ RecordNames(calls, attempts) /\ ToldNames(calls, reported)
      /\ Latest(stack, calls, attempts, reported) /\ Askers(started, calls)
  BY DEF Sound, Inv, Typed, Named, Order
<1>1. AtTop(t, "call") /\ started' = started /\ c = Top(t).id
  BY DEF Return
<1>2. /\ c \in DOMAIN calls /\ calls[c].by = t /\ DueNext(t, calls, reported, c)
      /\ \A b \in DOMAIN attempts : AllBefore(t, calls, attempts[b].records, c)
  BY <1>1, LatestCall
<1>3. Reflagged(calls, cs) /\ SameAsked(calls, cs) /\ SameAsked(cs, calls) /\ cs \in Seq(CallT) /\ DOMAIN cs = DOMAIN calls
  <2>1. Reflagged(calls, cs)
    BY <1>0, <1>2, Flags
  <2> QED
    BY <2>1 DEF Reflagged, SameAsked
<1>4. \A d \in DOMAIN calls : SameAsked(calls, Silenced(calls, d)) /\ SameAsked(calls, Silenced(cs, d))
                              /\ DOMAIN Silenced(calls, d) = DOMAIN calls /\ DOMAIN Silenced(cs, d) = DOMAIN calls
  <2> HIDE DEF cs
  <2>1. \A d \in DOMAIN calls : Reflagged(calls, Silenced(calls, d))
    BY <1>0, Flags
  <2>2. \A d \in DOMAIN cs : Reflagged(cs, Silenced(cs, d))
    BY <1>3, Flags
  <2> QED
    BY <2>1, <2>2, <1>3 DEF Reflagged, SameAsked
<1>5. \A b : Mine(stack, t, b) =>
        /\ b \in DOMAIN attempts /\ attempts[b].born \in Nat /\ ctx[t].held \in DOMAIN attempts
        /\ attempts[ctx[t].held].born \in Nat /\ attempts[ctx[t].held].alive
        /\ attempts[b].born <= attempts[ctx[t].held].born
  BY <1>1, FurtherOut
<1>6. CASE ~toReport /\ CallEnds(t, calls) /\ UNCHANGED <<attempts, reported>>
  <2>1. calls' = Silenced(calls, c)
    BY <1>6 DEF CallEnds, Silenced
  <2> HIDE DEF c
  <2>2. SameAsked(calls, calls') /\ DOMAIN calls' = DOMAIN calls
    BY <2>1, <1>2, <1>4
  <2>3. SameHeld(attempts, attempts')
    BY <1>6 DEF SameHeld
  <2>4. /\ Fewer(stack, ctx, stack', ctx')
        /\ \A u \in Task : Runs(stack', u) => Runs(stack, u) /\ stack'[u][1].id = stack[u][1].id
    BY <1>1, <1>6, CallGoes
  <2>5. Askers(started', calls')
    BY <2>2, <1>0, <1>1 DEF Askers, SameAsked
  <2> QED
    BY <2>2, <2>3, <2>4, <2>5, <1>6, QuietOrder DEF Fewer
<1>7. CASE /\ toReport /\ a # None
           /\ attempts' = [attempts EXCEPT ![a].records =
                Append(@, [call |-> c, asked |-> attempts[a].scope = e])]
           /\ CallEnds(t, [calls EXCEPT ![c].passed = TRUE])
           /\ UNCHANGED reported
  <2> DEFINE r == [call |-> c, asked |-> attempts[a].scope = e]
  <2>1. /\ attempts' = Filed(attempts, a, Append(attempts[a].records, r)) /\ calls' = Silenced(cs, c)
        /\ CallEnds(t, cs) /\ reported' = reported
    BY <1>7 DEF Filed, CallEnds, Silenced, Succeeded
  <2>2. a \in DOMAIN attempts /\ a = ctx[t].held /\ a # None
    <3>1. a = ctx[t].held /\ a # None
      BY <1>7 DEF Holding, LiveAttempt
    <3> QED
      BY <3>1 DEF Sound, Inv, Named, ContextNames, OrNone
  <2>3. r \in RecordT /\ r.call = c
    <3>1. c \in Nat
      BY <1>0, <1>2, Lengths
    <3> QED
      BY <3>1 DEF RecordT
  <2>4. Single(stack)
    BY DEF Sound, Inv, Struct
  <2>5. /\ Fewer(stack, ctx, stack', ctx') /\ ~ Runs(stack', t)
        /\ \A u \in Task : Runs(stack', u) => Runs(stack, u) /\ stack'[u][1].id = stack[u][1].id
    BY <2>1, <1>1, CallGoes
  <2>6. SoundAfter
    BY ReturnStep
  <2> HIDE DEF r, a, cs, c, e
  <2>7. SameAsked(calls, calls') /\ DOMAIN calls' = DOMAIN calls
    BY <2>1, <1>2, <1>4
  <2>8. RecordNames(calls, attempts')
    BY <2>6, <2>7 DEF SoundAfter, Inv, Named, RecordNames
  <2>9. ASSUME NEW s \in Task, Apart(stack', ctx', s) PROVE Sorted(s, stack', calls', attempts', reported')
    <3>1. Apart(stack, ctx, s)
      BY <2>5, <2>9 DEF Fewer
    <3>2. Sorted(s, stack, calls, attempts, reported)
      BY <3>1 DEF Order, SortedApart
    <3>3. ASSUME calls[c].by = s PROVE Fits(s, stack, calls, attempts, reported, a, c)
      <4>1. s = t /\ Mine(stack, t, a)
        BY <3>1, <3>3, <2>2, <1>2 DEF Apart
      <4>2. \A b \in DOMAIN attempts : Mine(stack, t, b) => attempts[b].born <= attempts[a].born
        BY <2>2, <1>5
      <4> QED
        BY <4>1, <4>2, <1>2 DEF Fits
    <3>4. \A u \in Task : Mine(stack, s, a) /\ Mine(stack, u, a) => u = s
      BY <2>4, OneOwner
    <3>5. Sorted(s, stack, calls, attempts', reported)
      BY <3>2, <3>3, <3>4, <2>1, <2>2, <2>3, <1>0, <1>2, Placing
    <3>6. \A u \in Task : \A b \in DOMAIN attempts' : Mine(stack', u, b) => Mine(stack, u, b)
      BY <2>5 DEF Fewer
    <3>7. SameHeld(attempts', attempts')
      BY DEF SameHeld
    <3>8. Sorted(s, stack', calls', attempts', reported)
      BY <3>5, <3>6, <3>7, <2>7, <2>8, <1>0, SortedStays
    <3> QED
      BY <3>8, <2>1
  <2>10. Latest(stack', calls', attempts', reported')
    <3> DEFINE qs == Append(attempts[a].records, r)
    <3>1. attempts[a].records \in Seq(RecordT)
      <4>1. attempts[a] \in AttemptT
        BY <2>2, <1>0, Lengths
      <4> QED
        BY <4>1 DEF AttemptT
    <3>2. qs \in Seq(RecordT) /\ \A d : Among(d, qs) <=> Among(d, attempts[a].records) \/ d = c
      BY <3>1, <2>3, AmongMore
    <3> HIDE DEF qs
    <3>3. Refiled(attempts, attempts', a, qs)
      <4>1. Refiled(attempts, Filed(attempts, a, qs), a, qs)
        BY <3>2, <2>2, <1>0, Refiling
      <4> QED
        BY <4>1, <2>1 DEF qs
    <3>4. \A b \in DOMAIN attempts' : b \in DOMAIN attempts /\ \A d : Among(d, attempts'[b].records) => Among(d, attempts[b].records) \/ d = c
      BY <3>2, <3>3 DEF Refiled
    <3>5. \A d : Out(d, attempts', reported') => Out(d, attempts, reported) \/ d = c
      BY <3>4, <2>1 DEF Out
    <3>6. \A d \in DOMAIN calls' : Out(d, attempts', reported') =>
            d \in DOMAIN calls /\ (Out(d, attempts, reported) \/ ~ Runs(stack', calls[d].by))
      BY <3>5, <2>5, <2>7, <1>2
    <3> QED
      BY <3>6, <2>5, <2>7, <1>0, StillLatest
  <2>11. ToldNames(calls', reported') /\ Askers(started', calls')
    BY <2>1, <2>7, <1>0, <1>1 DEF ToldNames, Askers, SameAsked
  <2> QED
    BY <2>9, <2>10, <2>11 DEF OrderAfter, SortedApart
<1>8. CASE toReport /\ a = None /\ Tell(t, c, stack[t], [calls EXCEPT ![c].passed = TRUE]) /\ UNCHANGED attempts
  <2>1. Tell(t, c, stack[t], cs) /\ a = None /\ attempts' = attempts
    BY <1>8 DEF Succeeded
  <2>2. c = Top(t).id /\ e = calls[c].entry /\ a = Holding(ctx[t], e)
    OBVIOUS
  <2> HIDE DEF a, cs, c, e
  <2>3. RecordNames(cs, attempts) /\ ToldNames(cs, reported)
    BY <1>0, <1>3 DEF RecordNames, ToldNames
  <2>4. ASSUME NEW b \in DOMAIN attempts, Mine(stack, t, b) PROVE After(t, cs, c, attempts[b].records)
    <3> SUFFICES ASSUME NEW d \in DOMAIN cs, Among(d, attempts[b].records), SameLine(cs, t, c, d) PROVE FALSE
      BY DEF After
    <3> DEFINE h == ctx[t].held
    <3>1. /\ attempts[b].born \in Nat /\ h \in DOMAIN attempts /\ attempts[h].born \in Nat /\ attempts[h].alive
          /\ attempts[b].born <= attempts[h].born
      BY <2>4, <1>5
    <3>2. PICK i \in DOMAIN attempts[b].records : attempts[b].records[i].call = d
      BY DEF Among
    <3>3. Fit(attempts[b].records[i], b, entries, calls, attempts)
      BY DEF Sound, Inv, Data, Recorded
    <3>4. calls[d].entry = e
      BY <2>2, <1>2, <1>3 DEF SameLine, SameAsked
    <3>5. e # None /\ entries[e].born < attempts[b].born
      BY <3>2, <3>3, <3>4 DEF Fit
    <3>6. e \in DOMAIN entries
      BY <3>5, <2>2, <1>2 DEF Sound, Inv, Named, CallNames, OrNone
    <3>7. entries[e].born \in Nat
      <4>1. entries[e] \in EntryT
        BY <3>6, Lengths DEF Sound, Inv, Typed
      <4> QED
        BY <4>1 DEF EntryT
    <3>8. h # None
      BY <3>1, <1>0, Lengths DEF None
    <3>9. LiveAttempt(ctx[t]) = h
      BY <3>1, <3>8 DEF LiveAttempt
    <3> HIDE DEF h
    <3>10. entries[e].born > attempts[h].born
      BY <3>8, <3>9, <2>1, <2>2 DEF Holding
    <3> QED
      BY <3>1, <3>5, <3>7, <3>10
  <2>5. ASSUME NEW s \in Task, Apart(stack, ctx, s)
        PROVE  Sorted(s, stack, cs, attempts, reported) /\ (cs[c].by = s => Foremost(s, stack, cs, attempts, reported, c))
    <3>1. Sorted(s, stack, calls, attempts, reported)
      BY <2>5 DEF Order, SortedApart
    <3>2. SameHeld(attempts, attempts)
      BY DEF SameHeld
    <3>3. Sorted(s, stack, cs, attempts, reported)
      BY <3>1, <3>2, <1>0, <1>3, SortedStays
    <3>4. ASSUME cs[c].by = s PROVE Foremost(s, stack, cs, attempts, reported, c)
      <4>1. s = t
        BY <3>4, <1>2, <1>3 DEF SameAsked
      <4>2. DueNext(t, cs, reported, c)
        BY <1>0, <1>2, <1>3 DEF DueNext, SameLine, SameAsked, ToldNames
      <4> QED
        BY <4>1, <4>2, <2>4 DEF Foremost
    <3> QED
      BY <3>3, <3>4
  <2> QED
    BY <2>1, <2>3, <2>5, <1>1, <1>2, <1>3, TellOrder
<1> QED
  BY <1>6, <1>7, <1>8 DEF Return

\* What lies under the frame that goes is no call.
LEMMA NoCallUnder ==
  ASSUME NEW k, NEW k2, NEW t \in Task, NEW f, Grown(k2, k, t, f), 2 \in DOMAIN k[t] => k[t][2].kind # "call"
  PROVE  ~ Runs(k2, t) /\ \A u \in Task : Runs(k2, u) => Runs(k, u) /\ k2[u][1].id = k[u][1].id
<1>1. ASSUME Runs(k2, t) PROVE FALSE
  <2> DEFINE n == 1
  <2>1. n \in DOMAIN k2[t] /\ n + 1 = 2 /\ k2[t][n].kind = "call"
    BY <1>1 DEF Runs
  <2> HIDE DEF n
  <2>2. n + 1 \in DOMAIN k[t] /\ k[t][n + 1] = k2[t][n]
    BY <2>1 DEF Grown
  <2> QED
    BY <2>1, <2>2
<1>2. \A u \in Task : u # t => k[u] = k2[u]
  BY DEF Grown
<1> QED
  BY <1>1, <1>2 DEF Runs

\* The blocks, the builders and the tasks that start.
LEMMA BlockOrder ==
  ASSUME Sound, Order, UNCHANGED <<stack, calls, attempts, reported>>, started \subseteq started',
         \A u \in Task : ctx'[u].held = ctx[u].held \/ u \notin started
  PROVE  OrderAfter
<1>1. SameAsked(calls, calls') /\ SameHeld(attempts, attempts')
  BY DEF SameAsked, SameHeld
<1>2. Askers(started', calls') /\ Askers(started, calls)
  BY DEF Order, Askers
<1>3. \A u \in Task : Apart(stack', ctx', u) => Apart(stack, ctx, u) \/ \A c \in DOMAIN calls : calls[c].by # u
  BY <1>2 DEF Apart, Askers
<1> QED
  BY <1>1, <1>2, <1>3, QuietOrder

\* A call of t begins.
LEMMA ObserveOrder ==
  ASSUME Sound, Order, NEW t \in Task, t \in started, started' = started, NEW m \in CallT, m.by = t, Observe(t, m)
  PROVE  OrderAfter
<1> DEFINE f == [kind |-> "call", id |-> Len(calls) + 1, old |-> ctx[t].observed]
<1>0. stack \in [Task -> Seq(FrameT)] /\ ctx \in [Task -> CtxT] /\ calls \in Seq(CallT)
  BY DEF Sound, Inv, Typed
<1>1. calls' = Append(calls, m) /\ Len(calls') = Len(calls) + 1 /\ Extended(calls, calls', Len(calls) + 1, m)
  <2>1. calls' = Append(calls, m)
    BY DEF Observe
  <2> QED
    BY <2>1, <1>0, Extending
<1>2. /\ stack' = [stack EXCEPT ![t] = <<f>> \o @] /\ ctx' = Watching(ctx, t, Len(calls) + 1)
      /\ attempts' = attempts /\ reported' = reported
  BY <1>1 DEF Observe, Pushed, Watching
<1>3. f \in FrameT /\ f.kind = "call" /\ f.id = Len(calls) + 1 /\ Len(calls) \in Nat /\ Len(calls) + 1 \in Nat
  <2>1. Len(calls) \in Nat /\ ctx[t] \in CtxT
    BY <1>0
  <2> QED
    BY <2>1 DEF FrameT, CtxT, Marks
<1> HIDE DEF f
<1>4. Grown(stack, stack', t, f)
  BY <1>0, <1>2, <1>3, Pushing
<1>5. Fewer(stack, ctx, stack', ctx')
  <2>1. f.kind \notin Polls
    BY <1>3 DEF Polls
  <2>2. SamePolls(stack, stack')
    BY <2>1, <1>0, <1>4, MarkComes
  <2>3. Moved(ctx, ctx', t, ctx[t].scope, Len(calls) + 1, ctx[t].held)
    BY <1>0, <1>2, <1>3, Context
  <2>4. \A u \in Task : ctx'[u].held = ctx[u].held
    BY <2>3 DEF Moved
  <2> QED
    BY <2>2, <2>4, NoneFewer
<1>6. ASSUME NEW u \in Task, Runs(stack', u)
      PROVE  \/ Runs(stack, u) /\ stack'[u][1].id = stack[u][1].id
             \/ \A d \in DOMAIN calls : d < stack'[u][1].id
  <2>1. CASE u = t
    <3>1. stack'[u][1].id = Len(calls) + 1
      BY <2>1, <1>3, <1>4 DEF Grown
    <3>2. \A d \in DOMAIN calls : d < Len(calls) + 1
      BY <1>0, <1>3, Lengths
    <3> QED
      BY <3>1, <3>2
  <2>2. CASE u # t
    BY <2>2, <1>4, <1>6 DEF Grown, Runs
  <2> QED
    BY <2>1, <2>2
<1>7. SameAsked(calls, calls') /\ SameHeld(attempts, attempts')
  BY <1>1, <1>2 DEF SameAsked, SameHeld, Extended
<1>8. Askers(started', calls')
  BY <1>1 DEF Order, Askers, Extended
<1> QED
  BY <1>2, <1>5, <1>6, <1>7, <1>8, QuietOrder DEF Fewer

LEMMA BeginOrder ==
  ASSUME Sound, Order, NEW t \in Task, NEW e, e \in DOMAIN entries, Begin(t, e)
  PROVE  OrderAfter
<1> DEFINE around == AttemptsAround(t, e)
           m == [alive |-> TRUE, failed |-> FALSE, passed |-> FALSE, entry |-> e, by |-> t, under |-> around]
<1>1. around \in SUBSET Nat
  <2>1. ASSUME NEW y \in around PROVE y \in Nat
    <3>1. PICK j \in DOMAIN stack[t] : stack[t][j].kind = "attempt" /\ stack[t][j].id = y
      BY DEF AttemptsAround
    <3>2. y \in DOMAIN attempts /\ attempts \in Seq(AttemptT)
      BY <3>1 DEF Sound, Inv, Typed, Named, FrameNames, Polls
    <3> QED
      BY <3>2, Lengths
  <2> QED
    BY <2>1
<1>2. e \in Nat
  <2>1. entries \in Seq(EntryT)
    BY DEF Sound, Inv, Typed
  <2> QED
    BY <2>1, Lengths
<1>3. Observe(t, m) /\ t \in started /\ started' = started
  BY DEF Begin, UserRuns, Observe
<1> HIDE DEF around
<1>4. m \in CallT /\ m.by = t
  BY <1>1, <1>2 DEF CallT
<1> HIDE DEF m
<1> QED
  BY <1>3, <1>4, ObserveOrder

LEMMA BeginQuietlyOrder ==
  ASSUME Sound, Order, NEW t \in Task, BeginQuietly(t)
  PROVE  OrderAfter
<1>1. Observe(t, Quiet(t)) /\ t \in started /\ started' = started
  BY DEF BeginQuietly, UserRuns, Observe
<1> QED
  BY <1>1, Quieting, ObserveOrder

\* The flags of calls change and the frames of t that go are of calls.
LEMMA FlagOrder ==
  ASSUME Sound, Order, UNCHANGED <<started, attempts, reported>>, Reflagged(calls, calls'),
         Fewer(stack, ctx, stack', ctx'),
         \A u \in Task : Runs(stack', u) => Runs(stack, u) /\ stack'[u][1].id = stack[u][1].id
  PROVE  OrderAfter
<1>1. SameAsked(calls, calls') /\ SameHeld(attempts, attempts') /\ Askers(started', calls')
  BY DEF SameAsked, SameHeld, Reflagged, Order, Askers
<1> QED
  BY <1>1, QuietOrder DEF Fewer

LEMMA MarkFailedOrder ==
  ASSUME Sound, Order, NEW t \in Task, MarkFailed(t)
  PROVE  OrderAfter
<1> DEFINE c == CurrentCall(ctx[t])
<1>1. c \in DOMAIN calls /\ calls \in Seq(CallT)
  BY DEF MarkFailed, CurrentCall, Sound, Inv, Typed, Named, ContextNames, OrNone
<1>2. calls' = Blamed(calls, c) /\ UNCHANGED <<started, stack, ctx, attempts, reported>>
  BY DEF MarkFailed, Blamed
<1> HIDE DEF c
<1>3. Reflagged(calls, calls')
  BY <1>1, <1>2, Flags
<1>4. Fewer(stack, ctx, stack', ctx')
  BY <1>2 DEF Fewer, Apart, Mine, Leads
<1> QED
  BY <1>2, <1>3, <1>4, FlagOrder

LEMMA RaiseFromCallOrder ==
  ASSUME Sound, Order, NEW t \in Task, RaiseFromCall(t)
  PROVE  OrderAfter
<1>1. AtTop(t, "call") /\ CallEnds(t, calls) /\ UNCHANGED <<started, attempts, reported>>
  BY DEF RaiseFromCall
<1>2. Top(t).id \in DOMAIN calls /\ calls \in Seq(CallT)
  BY <1>1, Innermost DEF Marks, Sound, Inv, Typed
<1>3. calls' = Silenced(calls, Top(t).id)
  BY <1>1 DEF CallEnds, Silenced
<1>4. Reflagged(calls, calls')
  BY <1>2, <1>3, Flags
<1>5. /\ Fewer(stack, ctx, stack', ctx')
      /\ \A u \in Task : Runs(stack', u) => Runs(stack, u) /\ stack'[u][1].id = stack[u][1].id
  BY <1>1, CallGoes
<1> QED
  BY <1>1, <1>4, <1>5, FlagOrder

\* A callback of t ends; k is the stacks with no frame of it.
LEMMA CallbackGoes ==
  ASSUME Sound, NEW t \in Task, AtTop(t, "tell"), NEW k, k = [stack EXCEPT ![t] = Tail(@)]
  PROVE  /\ k \in [Task -> Seq(FrameT)] /\ SamePolls(stack, k) /\ Grown(k, stack, t, stack[t][1])
         /\ 1 \in DOMAIN k[t] /\ k[t][1] = stack[t][2] /\ stack[t][2].kind \in {"call", "flush"}
         /\ 2 \in DOMAIN k[t] => k[t][2].kind # "call"
         /\ Reflagged(calls, Silenced(calls, Top(t).id))
         /\ stack[t][2].kind = "call" => stack[t][2].id \in DOMAIN calls /\ stack[t][2].old \in Nat
         /\ stack[t][2].kind = "flush" => stack[t][2].id \in DOMAIN attempts /\ ctx[t].held = stack[t][2].old
         /\ Top(t).old \in Nat
<1>0. stack \in [Task -> Seq(FrameT)] /\ calls \in Seq(CallT)
  BY DEF Sound, Inv, Typed
<1>1. /\ 1 \in DOMAIN stack[t] /\ Top(t) = stack[t][1] /\ stack[t][1].kind = "tell" /\ stack[t] # <<>>
      /\ Shaped(stack[t]) /\ Handed(stack[t], ctx[t]) /\ stack[t][1] \in FrameT /\ stack[t][1].id \in DOMAIN calls
  BY Innermost DEF Marks
<1>2. k \in [Task -> Seq(FrameT)] /\ Grown(k, stack, t, stack[t][1])
  <2>1. Head(stack[t]) = stack[t][1]
    BY <1>0, <1>1
  <2>2. k \in [Task -> Seq(FrameT)] /\ Grown(k, stack, t, Head(stack[t]))
    BY <1>0, <1>1, Popping
  <2> QED
    BY <2>1, <2>2
<1>3. SamePolls(stack, k)
  <2>1. stack[t][1].kind \notin Polls
    BY <1>1 DEF Polls
  <2> QED
    BY <2>1, <1>2, MarkLeaves
<1>4. 2 \in DOMAIN stack[t] /\ stack[t][2].kind \in {"call", "flush"}
  BY TellOver
<1>5. 1 \in DOMAIN k[t] /\ k[t][1] = stack[t][2]
  BY <1>0, <1>4, Second
<1>6. 2 \in DOMAIN k[t] => k[t][2].kind # "call"
  <2> SUFFICES ASSUME 2 \in DOMAIN k[t], k[t][2].kind = "call" PROVE FALSE
    OBVIOUS
  <2> DEFINE n == 2
  <2>1. n \in DOMAIN k[t] /\ n + 1 = 3
    OBVIOUS
  <2> HIDE DEF n
  <2>2. n + 1 \in DOMAIN stack[t] /\ stack[t][n + 1] = k[t][n]
    BY <2>1, <1>2 DEF Grown
  <2>3. 3 \in DOMAIN stack[t] /\ stack[t][3].kind = "call"
    BY <2>1, <2>2 DEF n
  <2> QED
    BY <2>3, <1>1 DEF Shaped
<1>7. Reflagged(calls, Silenced(calls, Top(t).id))
  BY <1>0, <1>1, Flags
<1>8. stack[t][2] \in FrameT
  BY <1>0, <1>4, Lengths
<1>9. /\ stack[t][2].kind = "call" => stack[t][2].id \in DOMAIN calls
      /\ stack[t][2].kind = "flush" => stack[t][2].id \in DOMAIN attempts
  BY <1>4 DEF Sound, Inv, Named, FrameNames, Marks, Polls
<1>10. stack[t][2].kind = "flush" => ctx[t].held = stack[t][2].old
  BY <1>1, <1>4 DEF Handed
<1> QED
  BY <1>1, <1>2, <1>3, <1>4, <1>5, <1>6, <1>7, <1>8, <1>9, <1>10 DEF FrameT

LEMMA TellEndsOrder ==
  ASSUME Sound, Order, NEW t \in Task, TellEnds(t)
  PROVE  OrderAfter
<1> DEFINE k == [stack EXCEPT ![t] = Tail(@)]
           cs == Silenced(calls, Top(t).id)
           b == stack[t][2]
<1>0. AtTop(t, "tell") /\ UNCHANGED <<started, attempts, reported>> /\ ctx \in [Task -> CtxT]
  BY DEF TellEnds, Sound, Inv, Typed
<1>1. /\ k \in [Task -> Seq(FrameT)] /\ SamePolls(stack, k) /\ Grown(k, stack, t, stack[t][1])
      /\ 1 \in DOMAIN k[t] /\ k[t][1] = b /\ b.kind \in {"call", "flush"}
      /\ 2 \in DOMAIN k[t] => k[t][2].kind # "call"
      /\ Reflagged(calls, cs) /\ Top(t).old \in Nat
      /\ b.kind = "call" => b.id \in DOMAIN calls /\ b.old \in Nat
  BY <1>0, CallbackGoes
<1>2. ASSUME NEW n \in Nat, NEW u \in Task PROVE Watching(ctx, t, n)[u].held = ctx[u].held
  <2>1. Moved(ctx, Watching(ctx, t, n), t, ctx[t].scope, n, ctx[t].held)
    BY <1>0, Context
  <2> QED
    BY <2>1 DEF Moved
<1>3. CASE b.kind = "flush"
  <2>1. stack' = k /\ calls' = cs /\ ctx' = Watching(ctx, t, Top(t).old)
    BY <1>3 DEF TellEnds, Silenced, Watching
  <2> HIDE DEF k, cs
  <2>2. Fewer(stack, ctx, stack', ctx')
    BY <2>1, <1>1, <1>2, NoneFewer
  <2>3. \A u \in Task : Runs(stack', u) => Runs(stack, u) /\ stack'[u][1].id = stack[u][1].id
    BY <2>1, <1>1, <1>3 DEF Runs, Grown
  <2> QED
    BY <2>1, <2>2, <2>3, <1>0, <1>1, FlagOrder
<1>4. CASE b.kind = "call"
  <2>1. stack' = [k EXCEPT ![t] = Tail(@)] /\ calls' = Silenced(cs, b.id) /\ ctx' = Watching(ctx, t, b.old)
    BY <1>0, <1>4 DEF TellEnds, Silenced, Watching
  <2> HIDE DEF k, cs, b
  <2>2. Reflagged(calls, calls')
    <3>1. cs \in Seq(CallT) /\ DOMAIN cs = DOMAIN calls
      BY <1>1 DEF Reflagged
    <3>2. Reflagged(cs, calls')
      BY <3>1, <2>1, <1>1, <1>4, Flags
    <3> QED
      BY <3>2, <1>1 DEF Reflagged
  <2>3. Grown(stack', k, t, b) /\ stack' \in [Task -> Seq(FrameT)]
    <3>1. k[t] # <<>> /\ Head(k[t]) = b
      BY <1>1
    <3>2. Grown(stack', k, t, Head(k[t])) /\ stack' \in [Task -> Seq(FrameT)]
      BY <3>1, <2>1, <1>1, Popping
    <3> QED
      BY <3>1, <3>2
  <2>4. SamePolls(k, stack')
    <3>1. b.kind \notin Polls
      BY <1>4 DEF Polls
    <3> QED
      BY <3>1, <2>3, MarkLeaves
  <2>5. Fewer(stack, ctx, stack', ctx')
    <3>1. SamePolls(stack, stack')
      BY <2>4, <1>1 DEF SamePolls
    <3> QED
      BY <3>1, <2>1, <1>1, <1>2, <1>4, NoneFewer
  <2>6. ~ Runs(stack', t)
    <3>1. 2 \in DOMAIN k[t] => k[t][2].kind # "call"
      BY <1>1
    <3> QED
      BY <2>3, <3>1, NoCallUnder
  <2>7. \A u \in Task : u # t => stack'[u] = stack[u]
    BY <2>3, <1>1 DEF Grown
  <2> QED
    BY <2>2, <2>5, <2>6, <2>7, <1>0, FlagOrder DEF Runs
<1> QED
  BY <1>1, <1>3, <1>4

\* An attempt of t is over, with the frame on top of k; nothing it held is touched.
LEMMA OverOrder ==
  ASSUME Sound, Order, UNCHANGED <<started, reported>>, SameAsked(calls, calls'), DOMAIN calls' = DOMAIN calls,
         SameHeld(attempts, attempts'), NEW t \in Task, NEW k, SamePolls(stack, k), NEW f, f.kind \in Polls,
         Grown(stack', k, t, f), stack' \in [Task -> Seq(FrameT)], 2 \in DOMAIN k[t] => k[t][2].kind # "call",
         \A u \in Task : u # t => k[u] = stack[u],
         ctx[t].held \in {f.id, f.old}, ctx'[t].held = f.old, \A u \in Task : u # t => ctx'[u].held = ctx[u].held
  PROVE  OrderAfter
<1>1. Fewer(k, ctx, stack', ctx')
  BY PollLeaves
<1>2. Fewer(stack, ctx, k, ctx)
  BY NoneFewer
<1>3. Fewer(stack, ctx, stack', ctx')
  BY <1>1, <1>2 DEF Fewer
<1>4. ~ Runs(stack', t)
  BY NoCallUnder
<1>5. \A u \in Task : u # t => stack'[u] = stack[u]
  BY DEF Grown
<1>6. Askers(started', calls')
  BY DEF Order, Askers, SameAsked
<1> QED
  BY <1>3, <1>4, <1>5, <1>6, QuietOrder DEF Fewer, Runs

LEMMA AttemptOverOrder ==
  ASSUME Sound, Order, NEW t \in Task, FlushEnds(t) \/ RaiseFromAttempt(t)
  PROVE  OrderAfter
<1> DEFINE f == stack[t][1]
           kind == IF AtTop(t, "flush") THEN "flush" ELSE "attempt"
<1>0. stack \in [Task -> Seq(FrameT)] /\ ctx \in [Task -> CtxT] /\ attempts \in Seq(AttemptT)
  BY DEF Sound, Inv, Typed
<1>1. AtTop(t, kind) /\ kind \in Polls
  BY DEF FlushEnds, RaiseFromAttempt, Polls
<1> HIDE DEF kind
<1>2. /\ 1 \in DOMAIN stack[t] /\ Top(t) = f /\ f.kind = kind /\ f.kind \in Polls /\ f \in FrameT /\ stack[t] # <<>>
      /\ Shaped(stack[t]) /\ Handed(stack[t], ctx[t]) /\ f.id \in DOMAIN attempts
  BY <1>1, Innermost
<1>3. stack' = [stack EXCEPT ![t] = Tail(@)] /\ UNCHANGED <<started, reported, calls>>
  BY DEF FlushEnds, RaiseFromAttempt
<1>4. stack' \in [Task -> Seq(FrameT)] /\ Grown(stack', stack, t, f)
  <2>1. Head(stack[t]) = f
    BY <1>0, <1>2
  <2>2. stack' \in [Task -> Seq(FrameT)] /\ Grown(stack', stack, t, Head(stack[t]))
    BY <1>0, <1>2, <1>3, Popping
  <2> QED
    BY <2>1, <2>2
<1>5. 2 \in DOMAIN stack[t] => stack[t][2].kind # "call"
  BY <1>2 DEF Shaped, Polls
<1>6. SameHeld(attempts, attempts') /\ ctx'[t].held = f.old /\ \A u \in Task : u # t => ctx'[u].held = ctx[u].held
  <2>1. CASE FlushEnds(t)
    <3>1. f.kind = "flush" /\ attempts' = attempts /\ ctx' = ctx
      BY <2>1, <1>0, <1>2, Innermost DEF FlushEnds
    <3> QED
      BY <3>1, <1>2 DEF SameHeld, Handed
  <2>2. CASE RaiseFromAttempt(t)
    <3>1. attempts' = Ended(attempts, f.id, "failed") /\ ctx' = Keeping(ctx, t, f.old) /\ f.old \in Nat
      BY <2>2, <1>2 DEF RaiseFromAttempt, Release, Ended, Keeping, FrameT
    <3> HIDE DEF f
    <3>2. Closed(attempts, attempts', f.id, FALSE, "failed")
      BY <3>1, <1>0, <1>2, Closing
    <3>3. Moved(ctx, ctx', t, ctx[t].scope, ctx[t].observed, f.old)
      BY <3>1, <1>0, Context
    <3> QED
      BY <3>2, <3>3 DEF Closed, Moved, SameHeld
  <2> QED
    BY <2>1, <2>2
<1>7. ctx[t].held \in {f.id, f.old}
  BY <1>2 DEF Handed, Polls
<1>8. SameAsked(calls, calls') /\ SamePolls(stack, stack)
  BY <1>3 DEF SameAsked, SamePolls
<1> HIDE DEF f
<1> QED
  BY <1>2, <1>3, <1>4, <1>5, <1>6, <1>7, <1>8, OverOrder

LEMMA RaiseFromFlushOrder ==
  ASSUME Sound, Order, NEW t \in Task, RaiseFromFlush(t)
  PROVE  OrderAfter
<1> DEFINE k == [stack EXCEPT ![t] = Tail(@)]
           cs == Silenced(calls, Top(t).id)
           b == stack[t][2]
<1>0. AtTop(t, "tell") /\ b.kind = "flush" /\ ctx \in [Task -> CtxT] /\ attempts \in Seq(AttemptT)
  BY DEF RaiseFromFlush, Sound, Inv, Typed
<1>1. /\ k \in [Task -> Seq(FrameT)] /\ SamePolls(stack, k) /\ Grown(k, stack, t, stack[t][1])
      /\ 1 \in DOMAIN k[t] /\ k[t][1] = b
      /\ 2 \in DOMAIN k[t] => k[t][2].kind # "call"
      /\ Reflagged(calls, cs) /\ Top(t).old \in Nat /\ b.id \in DOMAIN attempts /\ ctx[t].held = b.old
  BY <1>0, CallbackGoes
<1>2. /\ stack' = [k EXCEPT ![t] = Tail(@)] /\ calls' = cs /\ ctx' = Watching(ctx, t, Top(t).old)
      /\ attempts' = CutShort(attempts, b.id) /\ UNCHANGED <<started, reported>>
  BY DEF RaiseFromFlush, Silenced, Watching, CutShort
<1> HIDE DEF k, cs, b
<1>3. Moved(ctx, ctx', t, ctx[t].scope, Top(t).old, ctx[t].held)
  BY <1>0, <1>1, <1>2, Context
<1>4. Closed(attempts, attempts', b.id, attempts[b.id].alive, "cut")
  BY <1>0, <1>1, <1>2, Closing
<1>5. Grown(stack', k, t, b) /\ stack' \in [Task -> Seq(FrameT)]
  <2>1. k[t] # <<>> /\ Head(k[t]) = b
    BY <1>1
  <2>2. Grown(stack', k, t, Head(k[t])) /\ stack' \in [Task -> Seq(FrameT)]
    BY <2>1, <1>1, <1>2, Popping
  <2> QED
    BY <2>1, <2>2
<1>6. SameAsked(calls, calls') /\ DOMAIN calls' = DOMAIN calls
  BY <1>1, <1>2 DEF Reflagged, SameAsked
<1>7. SameHeld(attempts, attempts')
  BY <1>4 DEF Closed, SameHeld
<1>8. ctx[t].held = b.old /\ ctx'[t].held = b.old /\ \A u \in Task : u # t => ctx'[u].held = ctx[u].held
  BY <1>1, <1>3 DEF Moved
<1>9. \A u \in Task : u # t => k[u] = stack[u]
  BY <1>1 DEF Grown
<1>10. b.kind \in Polls /\ SamePolls(stack, k) /\ (2 \in DOMAIN k[t] => k[t][2].kind # "call")
  BY <1>0, <1>1 DEF Polls
<1> QED
  BY <1>2, <1>5, <1>6, <1>7, <1>8, <1>9, <1>10, OverOrder

LEMMA PassAttemptOrder ==
  ASSUME Sound, Order, NEW t \in Task, PassAttempt(t)
  PROVE  OrderAfter
<1> DEFINE f == stack[t][1]
           g == [kind |-> "flush", id |-> f.id, old |-> f.old]
<1>0. stack \in [Task -> Seq(FrameT)] /\ ctx \in [Task -> CtxT] /\ attempts \in Seq(AttemptT)
  BY DEF Sound, Inv, Typed
<1>1. /\ 1 \in DOMAIN stack[t] /\ Top(t) = f /\ f.kind = "attempt" /\ f \in FrameT /\ f.id \in DOMAIN attempts
      /\ stack[t] # <<>> /\ Handed(stack[t], ctx[t])
  BY Innermost DEF PassAttempt, Polls
<1>2. /\ attempts' = Ended(attempts, f.id, "passed") /\ ctx' = Keeping(ctx, t, f.old)
      /\ UNCHANGED <<started, calls, reported>> /\ stack' = [stack EXCEPT ![t] = <<g>> \o Tail(@)]
  BY <1>1 DEF PassAttempt, Release, Ended, Keeping
<1>3. g \in FrameT /\ g.kind = "flush" /\ g.id = f.id /\ g.old = f.old /\ f.old \in Nat
  BY <1>1 DEF FrameT, Polls
<1>4. ctx[t].held = f.id
  BY <1>1 DEF Handed
<1>5. f = stack[t][1]
  OBVIOUS
<1> HIDE DEF f, g
<1>6. Replaced(stack, stack', t, g)
  BY <1>0, <1>1, <1>2, <1>3, Replacing
<1>7. Closed(attempts, attempts', f.id, FALSE, "passed")
  BY <1>0, <1>1, <1>2, Closing
<1>8. Moved(ctx, ctx', t, ctx[t].scope, ctx[t].observed, f.old)
  BY <1>0, <1>2, <1>3, Context
<1>9. Fewer(stack, ctx, stack', ctx')
  <2>1. g.kind \in Polls /\ stack[t][1].kind \in Polls /\ g.id = stack[t][1].id /\ g.old = stack[t][1].old
    BY <1>1, <1>3, <1>5 DEF Polls
  <2>2. \A u \in Task : u # t => ctx'[u].held = ctx[u].held
    BY <1>8 DEF Moved
  <2>3. ctx[t].held = g.id
    BY <1>3, <1>4
  <2> QED
    BY <2>1, <2>2, <2>3, <1>1, <1>6, PollTurns
<1>10. SameAsked(calls, calls') /\ SameHeld(attempts, attempts') /\ Askers(started', calls')
  BY <1>2, <1>7 DEF SameAsked, SameHeld, Closed, Order, Askers
<1>11. \A u \in Task : Runs(stack', u) => Runs(stack, u) /\ stack'[u][1].id = stack[u][1].id
  BY <1>3, <1>6 DEF Runs, Replaced
<1> QED
  BY <1>2, <1>9, <1>10, <1>11, QuietOrder DEF Fewer

LEMMA BeginAttemptOrder ==
  ASSUME Sound, Order, NEW t \in Task, BeginAttempt(t)
  PROVE  OrderAfter
<1> DEFINE f == [kind |-> "attempt", id |-> Len(attempts) + 1, old |-> ctx[t].held]
<1>0. stack \in [Task -> Seq(FrameT)] /\ ctx \in [Task -> CtxT] /\ attempts \in Seq(AttemptT)
  BY DEF Sound, Inv, Typed
<1>1. PICK h : attempts' = Append(attempts, h) /\ h.records = <<>>
  BY DEF BeginAttempt
<1>2. Extended(attempts, attempts', Len(attempts) + 1, h)
  BY <1>0, <1>1, AnyAppend
<1>3. Len(attempts') = Len(attempts) + 1 /\ Len(attempts) + 1 \in Nat
  <2>1. SoundAfter
    BY BeginAttemptStep
  <2>2. attempts' \in Seq(AttemptT)
    BY <2>1 DEF SoundAfter, Inv, Typed
  <2>3. h \in AttemptT
    BY <2>2, <1>2, Lengths DEF Extended
  <2> QED
    BY <2>3, <1>0, <1>1
<1>4. /\ stack' = [stack EXCEPT ![t] = <<f>> \o @] /\ ctx' = Keeping(ctx, t, Len(attempts) + 1)
      /\ UNCHANGED <<started, calls, reported>>
  BY <1>3 DEF BeginAttempt, Pushed, Keeping
<1>5. f \in FrameT /\ f.kind = "attempt" /\ f.kind \in Polls /\ f.id = Len(attempts) + 1 /\ f.old = ctx[t].held
  <2>1. ctx[t] \in CtxT
    BY <1>0
  <2> QED
    BY <2>1, <1>3 DEF FrameT, CtxT, Polls
<1> HIDE DEF f
<1>6. Grown(stack, stack', t, f)
  BY <1>0, <1>4, <1>5, Pushing
<1>7. Moved(ctx, ctx', t, ctx[t].scope, ctx[t].observed, Len(attempts) + 1)
  BY <1>0, <1>3, <1>4, Context
<1>8. PollMore(stack, ctx, stack', ctx', attempts)
  <2>1. Known(stack, ctx, attempts)
    BY DEF Known, Sound, Inv, Named, ContextNames, FrameNames, OrNone, Leads
  <2>2. /\ \A u \in Task : u # t => ctx'[u].held = ctx[u].held
        /\ ctx[t].held = f.old /\ ctx'[t].held = f.id /\ f.id \notin DOMAIN attempts
    BY <1>2, <1>5, <1>7 DEF Moved, Extended
  <2> QED
    BY <2>1, <2>2, <1>0, <1>5, <1>6, PollComes
<1>9. SameAsked(calls, calls') /\ Askers(started', calls')
  BY <1>4 DEF SameAsked, Order, Askers
<1>10. SameHeld(attempts, attempts')
  <2>1. DOMAIN h.records = {}
    BY <1>1
  <2> QED
    BY <2>1, <1>2 DEF SameHeld, Extended
<1>11. \A u \in Task : Runs(stack', u) => Runs(stack, u) /\ stack'[u][1].id = stack[u][1].id
  BY <1>5, <1>6 DEF Runs, Grown
<1>12. /\ \A u \in Task : Apart(stack', ctx', u) => Apart(stack, ctx, u)
       /\ \A u \in Task : \A a \in DOMAIN attempts : Mine(stack', u, a) => Mine(stack, u, a)
  BY <1>8 DEF PollMore
<1> QED
  BY <1>4, <1>12, <1>9, <1>10, <1>11, QuietOrder

LEMMA InitOrder == Init => Order
<1> SUFFICES ASSUME Init PROVE Order
  OBVIOUS
<1>1. DOMAIN calls = {} /\ DOMAIN attempts = {} /\ DOMAIN reported = {} /\ \A t \in Task : DOMAIN stack[t] = {}
  BY DEF Init
<1>2. Latest(stack, calls, attempts, reported) /\ ToldNames(calls, reported) /\ Askers(started, calls)
  BY <1>1 DEF Latest, ToldNames, Askers
<1>3. RecordNames(calls, attempts)
  BY <1>1 DEF RecordNames
<1>4. \A t \in Task : Sorted(t, stack, calls, attempts, reported)
  BY <1>1, <1>2, <1>3, NothingAsked
<1> QED
  BY <1>2, <1>4 DEF Order, SortedApart

LEMMA NextOrder == IInv /\ Order /\ [Next]_vars => Order'
<1> SUFFICES ASSUME IInv, Order, [Next]_vars PROVE OrderAfter
  BY DEF Order, OrderAfter
<1>0. /\ Sound /\ reported \in Seq(Nat) /\ own \in [Task -> Nat] /\ Blocks(own, ctx, entries)
      /\ ctx \in [Task -> CtxT] /\ Idle /\ builders \subseteq OrNone(entries)
  BY DEF IInv, Sound, Inv, Typed
<1>1. \A t \in Task : \A kind : AtTop(t, kind) => t \in started
  BY <1>0 DEF AtTop, Idle
<1>2. CASE UNCHANGED vars
  <2>1. UNCHANGED <<stack, calls, attempts, reported, started, ctx>>
    BY <1>2 DEF vars
  <2> QED
    BY <2>1, <1>0, BlockOrder
<1>3. ASSUME NEW t \in Task, Start(t) \/ Make(t) PROVE OrderAfter
  <2>1. UNCHANGED <<stack, calls, attempts, reported, ctx>> /\ started \subseteq started'
    BY <1>3 DEF Start, Make
  <2> QED
    BY <2>1, <1>0, BlockOrder
<1>4. ASSUME NEW t \in Task, NEW u \in Task, Fork(t, u) PROVE OrderAfter
  <2>1. UNCHANGED <<stack, calls, attempts, reported>> /\ started \subseteq started' /\ u \notin started
    BY <1>4 DEF Fork
  <2>2. \A v \in Task : ctx'[v].held = ctx[v].held \/ v \notin started
    BY <2>1, <1>0, <1>4 DEF Fork
  <2> QED
    BY <2>1, <2>2, <1>0, BlockOrder
<1>5. ASSUME NEW t \in Task, Leave(t) \/ \E wants \in BOOLEAN : Enter(t, wants) PROVE OrderAfter
  <2>1. PICK n : ctx' = Scoping(ctx, t, n)
    BY <1>5 DEF Leave, Enter, Scoping
  <2>2. UNCHANGED <<stack, calls, attempts, reported, started>>
    BY <1>5 DEF Leave, Enter
  <2>3. \A u \in Task : ctx'[u].held = ctx[u].held
    <3> DEFINE w == [ctx[t] EXCEPT !.scope = n]
    <3>1. w.held = ctx[t].held
      BY <1>0 DEF CtxT
    <3>2. ctx' = [ctx EXCEPT ![t] = w]
      BY <2>1 DEF Scoping
    <3> HIDE DEF w
    <3> QED
      BY <3>1, <3>2, <1>0
  <2> QED
    BY <2>2, <2>3, <1>0, BlockOrder
<1>6. ASSUME NEW t \in Task, NEW e \in builders \ {Plain}, Begin(t, e) PROVE OrderAfter
  <2>1. e \in DOMAIN entries
    BY <1>0 DEF OrNone, None, Plain
  <2> QED
    BY <2>1, <1>0, <1>6, BeginOrder
<1>7. ASSUME NEW t \in Task, Return(t) PROVE OrderAfter
  <2>1. t \in started
    BY <1>1, <1>7 DEF Return
  <2> QED
    BY <2>1, <1>0, <1>7, ReturnOrder
<1>8. ASSUME NEW t \in Task, FlushStep(t) PROVE OrderAfter
  <2>1. t \in started
    BY <1>1, <1>8 DEF FlushStep
  <2> QED
    BY <2>1, <1>0, <1>8, FlushOrder
<1>9. ASSUME NEW t \in Task, BeginQuietly(t) PROVE OrderAfter
  BY <1>0, <1>9, BeginQuietlyOrder
<1>10. ASSUME NEW t \in Task, MarkFailed(t) PROVE OrderAfter
  BY <1>0, <1>10, MarkFailedOrder
<1>11. ASSUME NEW t \in Task, TellEnds(t) PROVE OrderAfter
  BY <1>0, <1>11, TellEndsOrder
<1>12. ASSUME NEW t \in Task, BeginAttempt(t) PROVE OrderAfter
  BY <1>0, <1>12, BeginAttemptOrder
<1>13. ASSUME NEW t \in Task, PassAttempt(t) PROVE OrderAfter
  BY <1>0, <1>13, PassAttemptOrder
<1>14. ASSUME NEW t \in Task, FlushEnds(t) \/ RaiseFromAttempt(t) PROVE OrderAfter
  BY <1>0, <1>14, AttemptOverOrder
<1>15. ASSUME NEW t \in Task, RaiseFromCall(t) PROVE OrderAfter
  BY <1>0, <1>15, RaiseFromCallOrder
<1>16. ASSUME NEW t \in Task, RaiseFromFlush(t) PROVE OrderAfter
  BY <1>0, <1>16, RaiseFromFlushOrder
<1> QED
  BY <1>2, <1>3, <1>4, <1>5, <1>6, <1>7, <1>8, <1>9, <1>10, <1>11, <1>12, <1>13, <1>14, <1>15, <1>16 DEF Next


\* What lies under an attempt, or under a flush that runs in one, is an attempt.
LEMMA PollUnder ==
  ASSUME NEW s \in Seq(FrameT), Shaped(s), NEW i \in DOMAIN s, s[i].kind \in Polls, NEW j \in DOMAIN s, i < j
  PROVE  i + 1 \in DOMAIN s /\ s[i + 1].kind = "attempt"
<1>1. DOMAIN s = 1 .. Len(s) /\ Len(s) \in Nat
  BY Lengths
<1>2. PICK n \in Nat : n = i + 1
  BY <1>1
<1>3. n \in DOMAIN s /\ n # 1 /\ (n = 2 => i = 1)
  BY <1>1, <1>2
<1>4. s[n] \in FrameT
  BY <1>1, <1>3
<1>5. s[n].kind = "attempt"
  BY <1>3, <1>4 DEF Shaped, FrameT, Marks, Polls
<1> QED
  BY <1>2, <1>3, <1>5

\* A task that was not started inside an attempt is in none but its own: the outermost on its stack leads nowhere.
LEMMA NotBornIsApart ==
  ASSUME Sound, NEW t \in Task, ~ BornInAnAttempt(t)
  PROVE  Apart(stack, ctx, t)
<1> DEFINE s == stack[t]
           x == ctx[t]
           mine == {i \in DOMAIN s : s[i].kind = "attempt"}
<1>1. s \in Seq(FrameT) /\ Shaped(s) /\ Handed(s, x)
  BY DEF Sound, Inv, Typed, Struct, Stacked
<1>2. DOMAIN s = 1 .. Len(s) /\ Len(s) \in Nat /\ \A i \in DOMAIN s : s[i] \in FrameT
  BY <1>1, Lengths
<1>3. /\ mine = {} => x.held = None
      /\ \A i \in mine : s[i].old = None \/ \E j \in mine : ~(j <= i)
  BY DEF BornInAnAttempt
<1>4. (\A n : Mine(stack, t, n) <=> \E i \in DOMAIN s : s[i].kind \in Polls /\ s[i].id = n)
      /\ \A n : Leads(stack, t, n) <=> \E i \in DOMAIN s : s[i].kind \in Polls /\ s[i].old = n
  BY DEF Mine, Leads
<1> SUFFICES ASSUME NEW n, n # None, x.held = n \/ Leads(stack, t, n) PROVE Mine(stack, t, n)
  BY DEF Apart
<1> HIDE DEF s, x
<1>5. CASE mine = {}
  <2>1. x.held = None
    BY <1>3, <1>5
  <2>2. PICK i \in DOMAIN s : s[i].kind \in Polls /\ s[i].old = n
    BY <2>1, <1>4
  <2>3. s[i].kind = "flush"
    BY <2>2, <1>5 DEF Polls
  <2> QED
    BY <2>1, <2>2, <2>3, <1>1 DEF Handed
<1>6. ASSUME NEW m \in mine PROVE Mine(stack, t, n)
  <2>1. ASSUME NEW i \in DOMAIN s, s[i].kind \in Polls, s[i].old = n PROVE Mine(stack, t, n)
    <3>1. PICK j \in DOMAIN s : i < j
      <4>1. CASE s[i].kind = "attempt"
        <5>1. PICK j \in mine : ~(j <= i)
          BY <4>1, <2>1, <1>3
        <5> QED
          BY <5>1, <1>2
      <4>2. CASE s[i].kind = "flush"
        <5>1. m # i /\ m \in DOMAIN s /\ (i = 1 \/ (i = 2 /\ m # 1))
          BY <4>2, <1>1 DEF Shaped
        <5> QED
          BY <5>1, <1>2
      <4> QED
        BY <4>1, <4>2, <2>1 DEF Polls
    <3>2. PICK k \in DOMAIN s : k = i + 1 /\ s[k].kind = "attempt"
      BY <3>1, <2>1, <1>1, PollUnder
    <3>3. s[i].old = s[k].id
      BY <3>2, <2>1, <1>1 DEF Handed
    <3> QED
      BY <3>2, <3>3, <2>1, <1>4 DEF Polls
  <2>2. CASE x.held = n
    <3>1. \E k \in DOMAIN s : s[k].kind \in Polls /\ (s[k].id = n \/ s[k].old = n)
      <4>0. m \in DOMAIN s /\ s[m].kind = "attempt" /\ 1 \in DOMAIN s /\ m \in Nat /\ s[1].kind \in Marks \cup Polls
        BY <1>2 DEF FrameT
      <4>1. CASE s[1].kind = "attempt"
        BY <4>0, <4>1, <2>2, <1>1 DEF Handed, Polls
      <4>2. CASE s[1].kind = "flush"
        BY <4>0, <4>2, <2>2, <1>1 DEF Handed, Polls
      <4>3. CASE s[1].kind = "call"
        <5>1. m # 1 /\ 2 \in DOMAIN s
          BY <4>0, <4>3, <1>2
        <5>2. s[2].kind = "attempt"
          BY <5>1, <4>3, <1>1, <1>2 DEF Shaped, FrameT, Marks, Polls
        <5>3. PICK k \in DOMAIN s : k = 2
          BY <5>1
        <5>4. s[k].kind = "attempt" /\ s[k - 1].kind \in Marks
          BY <5>2, <5>3, <4>3 DEF Marks
        <5>5. s[k].id = n
          BY <5>4, <2>2, <1>1 DEF Handed
        <5> QED
          BY <5>4, <5>5 DEF Polls
      <4>4. CASE s[1].kind = "tell" /\ s[2].kind = "flush"
        <5>1. 2 \in DOMAIN s
          BY <4>0, <4>4, <1>1 DEF Shaped
        <5> QED
          BY <5>1, <4>4, <2>2, <1>1 DEF Handed, Polls
      <4>5. CASE s[1].kind = "tell" /\ s[2].kind = "call"
        <5>1. m # 1 /\ m # 2 /\ 3 \in DOMAIN s
          BY <4>0, <4>5, <1>2
        <5>2. s[3].kind = "attempt"
          BY <5>1, <4>5, <1>1, <1>2 DEF Shaped, FrameT, Marks, Polls
        <5>3. PICK k \in DOMAIN s : k = 3
          BY <5>1
        <5>4. s[k].kind = "attempt" /\ s[k - 1].kind \in Marks
          BY <5>2, <5>3, <4>5 DEF Marks
        <5>5. s[k].id = n
          BY <5>4, <2>2, <1>1 DEF Handed
        <5> QED
          BY <5>4, <5>5 DEF Polls
      <4> QED
        BY <4>0, <4>1, <4>2, <4>3, <4>4, <4>5, <1>1 DEF Shaped, Marks, Polls
    <3> QED
      BY <3>1, <2>1, <1>4
  <2> QED
    BY <2>1, <2>2, <1>4
<1> QED
  BY <1>5, <1>6

\* The passes of one task into one entry are told in the order they were asked, each once, through every nesting of
\* polls: an attempt that held them lets go of them before anything asked later is told (_deliver, _flush).
THEOREM PassesInOrder == Spec => []InOrderOnce
<1>1. Init => Order
  BY InitOrder
<1>2. IInv /\ Order /\ [Next]_vars => Order'
  BY NextOrder
<1>3. IInv /\ Order => InOrderOnce
  <2> SUFFICES ASSUME IInv, Order, NEW i \in DOMAIN reported, NEW j \in DOMAIN reported, i < j,
                      calls[reported[i]].by = calls[reported[j]].by,
                      calls[reported[i]].entry = calls[reported[j]].entry,
                      ~ BornInAnAttempt(calls[reported[i]].by)
               PROVE  reported[i] < reported[j]
    BY DEF InOrderOnce
  <2>1. Sound /\ calls \in Seq(CallT) /\ ToldNames(calls, reported)
    BY DEF IInv, Sound, Inv, Typed, Order
  <2>2. PICK t \in Task : t = calls[reported[i]].by
    <3>1. reported[i] \in DOMAIN calls
      BY <2>1 DEF ToldNames
    <3>2. calls[reported[i]] \in CallT
      BY <2>1, <3>1, Lengths
    <3> QED
      BY <3>2 DEF CallT
  <2>3. Sorted(t, stack, calls, attempts, reported)
    BY <2>1, <2>2, NotBornIsApart DEF Order, SortedApart
  <2> QED
    BY <2>2, <2>3 DEF Sorted, ToldInOrder, SameLine
<1> QED
  BY <1>1, <1>2, <1>3, PassesHold, PTL DEF Spec
=============================================================================
