--------------------------- MODULE SoftAssertions ---------------------------
(***************************************************************************)
(* soft_assertions(), its groups, soft_fail() and the delivery of a failed *)
(* assertion (assertpy2/assertpy.py), run by tasks that hand each other    *)
(* copies of their context.                                                *)
(*                                                                         *)
(* Three context variables decide where a failure goes: the nesting depth  *)
(* (_soft_ctx), the block (_soft_err) and the group label (_soft_group).   *)
(* A new asyncio task gets them BY VALUE, while the block object they      *)
(* name is shared, so a child keeps collecting into its parent's block and *)
(* learns of the parent's exit from block.active alone.                    *)
(*                                                                         *)
(* A task in Threaded runs on an OS thread of its own.  It is the only     *)
(* kind whose delivery can be interrupted between reading block.active and *)
(* appending to block.failures: coroutines of one loop switch at an await, *)
(* and there is none in the library's code.                                *)
(***************************************************************************)
EXTENDS Integers, Sequences

CONSTANTS
  Task,           \* asyncio tasks and threads
  Main,           \* the one the test starts in, in an empty context
  Threaded,       \* those on an OS thread of their own
  CopiesContext,  \* whether a thread starts in a copy of the context that
                  \* started it (asyncio.to_thread) or in an empty one
  Block,          \* pool of _SoftBlock objects
  Failure,        \* pool of assertion failures
  Builder,        \* variables holding an assertion builder
  Label,          \* group labels
  NoBlock, NoLabel,
  MaxDepth        \* bound: with statements open in one task

ASSUME SoftConstants ==
  /\ Main \in Task \ Threaded
  /\ Threaded \subseteq Task
  /\ CopiesContext \in BOOLEAN
  /\ NoBlock \notin Block
  /\ NoLabel \notin Label
  /\ MaxDepth \in Nat

VARIABLES
  started,   \* the tasks that have been started
  ctx,       \* _soft_ctx in each task's context
  err,       \* _soft_err in each task's context
  group,     \* _soft_group in each task's context
  frames,    \* the with statements open in each task, innermost last
  flying,    \* whether an exception is on its way out of each task
  state,     \* of a block: "unmade", "open" (active) or "closed"
  failures,  \* block.failures
  kind,      \* what assert_that() made of each builder: "soft" or "strict"
  holds,     \* the append a thread is about to make
  base,      \* history: the label a task started with
  happened,  \* history: assertions that have failed
  told       \* history: failures an exception has carried to somebody

contexts == <<ctx, err, group>>
blocks == <<state, failures>>
history == <<happened, told>>
vars == <<started, contexts, frames, flying, blocks, kind, holds, base, history>>

-----------------------------------------------------------------------------

(* A with statement: of soft_assertions(), with the block its entry made if *)
(* any, or of group(), with its label and the one its token puts back.      *)
(* was is the depth before the entry, kept for the properties only.         *)
Frame == [what : {"soft", "group"}, made : Block \cup {NoBlock}, was : Int,
          label : Label \cup {NoLabel}, token : Label \cup {NoLabel}]

SoftFrame(b, depth) ==
  [what |-> "soft", made |-> b, was |-> depth, label |-> NoLabel, token |-> NoLabel]

GroupFrame(l, old, depth) ==
  [what |-> "group", made |-> NoBlock, was |-> depth, label |-> l, token |-> old]

Nothing == <<>>

Top(t) == frames[t][Len(frames[t])]

Pop(t) == frames' = [frames EXCEPT ![t] = SubSeq(@, 1, Len(@) - 1)]

Push(t, frame) == frames' = [frames EXCEPT ![t] = Append(@, frame)]

Collected(b) == {failures[b][i] : i \in 1 .. Len(failures[b])}

\* The task's own code may take its next step: not mid-append, nothing raised.
Running(t) == t \in started /\ holds[t] = Nothing /\ ~flying[t]

\* The slip block.active is there against: any inherited block will do.
ListeningUnflagged(t) == err[t] # NoBlock

\* The inherited or own block still listens (block is not None and block.active).
Listening(t) == err[t] # NoBlock /\ state[err[t]] = "open"

\* _collecting(): the block a failure of this context goes to, or none.
Collecting(t) == IF ctx[t] # 0 /\ Listening(t) THEN err[t] ELSE NoBlock

-----------------------------------------------------------------------------

Init ==
  /\ started = {Main}
  /\ ctx = [t \in Task |-> 0]
  /\ err = [t \in Task |-> NoBlock]
  /\ group = [t \in Task |-> NoLabel]
  /\ frames = [t \in Task |-> <<>>]
  /\ flying = [t \in Task |-> FALSE]
  /\ state = [b \in Block |-> "unmade"]
  /\ failures = [b \in Block |-> <<>>]
  /\ kind = [a \in Builder |-> "strict"]
  /\ holds = [t \in Task |-> Nothing]
  /\ base = [t \in Task |-> NoLabel]
  /\ happened = {}
  /\ told = {}

-----------------------------------------------------------------------------

\* A task starts another, whose context is a copy taken now.
Spawn(t, c) ==
  /\ Running(t)
  /\ c \notin started
  /\ started' = started \cup {c}
  /\ IF c \in Threaded /\ ~CopiesContext
     THEN UNCHANGED <<contexts, base>>
     ELSE /\ ctx' = [ctx EXCEPT ![c] = ctx[t]]
          /\ err' = [err EXCEPT ![c] = err[t]]
          /\ group' = [group EXCEPT ![c] = group[t]]
          /\ base' = [base EXCEPT ![c] = group[t]]
  /\ UNCHANGED <<frames, flying, blocks, kind, holds, history>>

\* A slip: the depth a closed block left behind is counted on, not reset.
EnterFreshKeepingDepth(t, b) ==
  /\ Running(t)
  /\ Len(frames[t]) < MaxDepth
  /\ ctx[t] = 0 \/ ~Listening(t)
  /\ state[b] = "unmade"
  /\ state' = [state EXCEPT ![b] = "open"]
  /\ err' = [err EXCEPT ![t] = b]
  /\ ctx' = [ctx EXCEPT ![t] = @ + 1]
  /\ Push(t, SoftFrame(b, ctx[t]))
  /\ UNCHANGED <<started, group, flying, failures, kind, holds, base, history>>

\* A slip: every entry makes a block, the nested ones too.
EnterFreshAlways(t, b) ==
  /\ Running(t)
  /\ Len(frames[t]) < MaxDepth
  /\ state[b] = "unmade"
  /\ state' = [state EXCEPT ![b] = "open"]
  /\ err' = [err EXCEPT ![t] = b]
  /\ ctx' = [ctx EXCEPT ![t] = 1]
  /\ Push(t, SoftFrame(b, 0))
  /\ UNCHANGED <<started, group, flying, failures, kind, holds, base, history>>

\* _SoftAssertions.__enter__ outside every block that still listens.
EnterFresh(t, b) ==
  /\ Running(t)
  /\ Len(frames[t]) < MaxDepth
  /\ ctx[t] = 0 \/ ~Listening(t)
  /\ state[b] = "unmade"
  /\ state' = [state EXCEPT ![b] = "open"]
  /\ err' = [err EXCEPT ![t] = b]
  /\ ctx' = [ctx EXCEPT ![t] = 1]
  /\ Push(t, SoftFrame(b, 0))
  /\ UNCHANGED <<started, group, flying, failures, kind, holds, base, history>>

\* _SoftAssertions.__enter__ inside one: the block is shared, only the depth grows.
EnterNested(t) ==
  /\ Running(t)
  /\ Len(frames[t]) < MaxDepth
  /\ ctx[t] # 0 /\ Listening(t)
  /\ ctx' = [ctx EXCEPT ![t] = @ + 1]
  /\ Push(t, SoftFrame(NoBlock, ctx[t]))
  /\ UNCHANGED <<started, err, group, flying, blocks, kind, holds, base, history>>

\* The task leaves a with statement, by its end or by an exception.
Leaving(t, what) ==
  /\ holds[t] = Nothing
  /\ frames[t] # <<>>
  /\ Top(t).what = what
  /\ Pop(t)

\* A slip: the depth is compared before it is taken down.
OutermostTooSoon(t) == ctx[t] = 0 /\ err[t] # NoBlock

\* The exit that brings the depth to zero closes the block and tells what it
\* collected: in the aggregate it raises, or on the exception that is passing.
Outermost(t) == ctx[t] - 1 = 0 /\ err[t] # NoBlock

\* A slip: an exception passes and what was collected is left behind.
CloseSilencedByError(t) ==
  /\ Leaving(t, "soft")
  /\ Outermost(t)
  /\ ctx' = [ctx EXCEPT ![t] = 0]
  /\ state' = [state EXCEPT ![err[t]] = "closed"]
  /\ failures' = [failures EXCEPT ![err[t]] = <<>>]
  /\ told' = IF flying[t] THEN told ELSE told \cup Collected(err[t])
  /\ flying' = [flying EXCEPT ![t] = @ \/ Collected(err[t]) # {}]
  /\ UNCHANGED <<started, err, group, kind, holds, base, happened>>

Close(t) ==
  /\ Leaving(t, "soft")
  /\ Outermost(t)
  /\ ctx' = [ctx EXCEPT ![t] = 0]
  /\ state' = [state EXCEPT ![err[t]] = "closed"]
  /\ failures' = [failures EXCEPT ![err[t]] = <<>>]
  /\ told' = told \cup Collected(err[t])
  /\ flying' = [flying EXCEPT ![t] = @ \/ Collected(err[t]) # {}]
  /\ UNCHANGED <<started, err, group, kind, holds, base, happened>>

LeaveNested(t) ==
  /\ Leaving(t, "soft")
  /\ ~Outermost(t)
  /\ ctx' = [ctx EXCEPT ![t] = @ - 1]
  /\ UNCHANGED <<started, err, group, flying, blocks, kind, holds, base, history>>

\* _Group.__enter__ and _Group.__exit__
EnterGroup(t, l) ==
  /\ Running(t)
  /\ Len(frames[t]) < MaxDepth
  /\ group' = [group EXCEPT ![t] = l]
  /\ Push(t, GroupFrame(l, group[t], ctx[t]))
  /\ UNCHANGED <<started, ctx, err, flying, blocks, kind, holds, base, history>>

\* A slip: leaving a group clears the label instead of putting one back.
LeaveGroupCleared(t) ==
  /\ Leaving(t, "group")
  /\ group' = [group EXCEPT ![t] = NoLabel]
  /\ UNCHANGED <<started, ctx, err, flying, blocks, kind, holds, base, history>>

LeaveGroup(t) ==
  /\ Leaving(t, "group")
  /\ group' = [group EXCEPT ![t] = Top(t).token]
  /\ UNCHANGED <<started, ctx, err, flying, blocks, kind, holds, base, history>>

\* assert_that(): the mode is read once, when the builder is made.
MakeBuilder(t, a) ==
  /\ Running(t)
  /\ kind' = [kind EXCEPT ![a] = IF Collecting(t) # NoBlock THEN "soft" ELSE "strict"]
  /\ UNCHANGED <<started, contexts, frames, flying, blocks, holds, base, history>>

\* A failure becomes the exception that leaves the task.
RaiseIt(t, f) ==
  /\ told' = told \cup {f}
  /\ flying' = [flying EXCEPT ![t] = TRUE]
  /\ UNCHANGED <<failures, holds>>

\* block.failures.append(outcome), which a thread reaches a step later.
CollectIt(t, f) ==
  /\ IF t \in Threaded
     THEN /\ holds' = [holds EXCEPT ![t] = <<err[t], f>>]
          /\ UNCHANGED failures
     ELSE /\ failures' = [failures EXCEPT ![err[t]] = Append(@, f)]
          /\ UNCHANGED holds
  /\ UNCHANGED <<told, flying>>

\* A slip: the mode of the builder is trusted, nobody asks if a block listens.
SoftDeliveryUnasked(t, f) == CollectIt(t, f)

\* soft_fail(), and _deliver() on a builder in soft mode: collected while the
\* block of this context listens, raised when it has closed meanwhile.
SoftDelivery(t, f) ==
  IF Collecting(t) # NoBlock THEN CollectIt(t, f) ELSE RaiseIt(t, f)

\* An assertion on builder a fails.
AssertionFails(t, a, f) ==
  /\ Running(t)
  /\ f \notin happened
  /\ happened' = happened \cup {f}
  /\ IF kind[a] = "soft" THEN SoftDelivery(t, f) ELSE RaiseIt(t, f)
  /\ UNCHANGED <<started, contexts, frames, state, kind, base>>

SoftFail(t, f) ==
  /\ Running(t)
  /\ f \notin happened
  /\ happened' = happened \cup {f}
  /\ SoftDelivery(t, f)
  /\ UNCHANGED <<started, contexts, frames, state, kind, base>>

\* The append of a thread, into whatever has become of the block it read.
AppendHeld(t) ==
  /\ holds[t] # Nothing
  /\ failures' = [failures EXCEPT ![holds[t][1]] = Append(@, holds[t][2])]
  /\ holds' = [holds EXCEPT ![t] = Nothing]
  /\ UNCHANGED <<started, contexts, frames, flying, state, kind, base, history>>

-----------------------------------------------------------------------------

\* The test's own code raises (a TypeError, a cancellation, fail()) ...
Throw(t) ==
  /\ Running(t)
  /\ flying' = [flying EXCEPT ![t] = TRUE]
  /\ UNCHANGED <<started, contexts, frames, blocks, kind, holds, base, history>>

\* ... and catches what is passing, wherever it stands.
Catch(t) ==
  /\ flying[t]
  /\ flying' = [flying EXCEPT ![t] = FALSE]
  /\ UNCHANGED <<started, contexts, frames, blocks, kind, holds, base, history>>

Step(t) ==
  \/ \E c \in Task : Spawn(t, c)
  \/ \E b \in Block : EnterFresh(t, b)
  \/ EnterNested(t)
  \/ Close(t)
  \/ LeaveNested(t)
  \/ \E l \in Label : EnterGroup(t, l)
  \/ LeaveGroup(t)
  \/ \E a \in Builder : MakeBuilder(t, a)
  \/ \E a \in Builder, f \in Failure : AssertionFails(t, a, f)
  \/ \E f \in Failure : SoftFail(t, f)
  \/ AppendHeld(t)
  \/ Throw(t)
  \/ Catch(t)

Next == \E t \in Task : Step(t)

Spec == Init /\ [][Next]_vars

(* Fairness: every with body ends, at whatever depth, and a thread that      *)
(* started an append makes it.  An exit needs strong fairness, for a body    *)
(* may open and close inner statements for as long as it likes before it     *)
(* ends.  Nothing obliges a test to assert, to start a task or to catch.     *)
Leave(t) == Close(t) \/ LeaveNested(t) \/ LeaveGroup(t)

Fairness ==
  \A t \in Task :
    /\ WF_vars(AppendHeld(t))
    /\ \A depth \in 1 .. MaxDepth : SF_vars(Len(frames[t]) = depth /\ Leave(t))

FairSpec == Spec /\ Fairness

-----------------------------------------------------------------------------
(* Properties *)

\* The types of the variables.
TypeOK ==
  /\ started \subseteq Task
  /\ ctx \in [Task -> Int]
  /\ err \in [Task -> Block \cup {NoBlock}]
  /\ group \in [Task -> Label \cup {NoLabel}]
  /\ frames \in [Task -> Seq(Frame)]
  /\ flying \in [Task -> BOOLEAN]
  /\ state \in [Block -> {"unmade", "open", "closed"}]
  /\ failures \in [Block -> Seq(Failure)]
  /\ kind \in [Builder -> {"soft", "strict"}]
  /\ holds \in [Task -> {Nothing} \cup (Block \X Failure)]
  /\ base \in [Task -> Label \cup {NoLabel}]
  /\ happened \subseteq Failure
  /\ told \subseteq Failure

\* A block nobody listens to holds no failure: one that closed before the
\* append would keep it in a list that is never read again, and the test
\* would pass having checked nothing.
NoOrphanedFailure ==
  \A b \in Block : state[b] # "open" => failures[b] = <<>>

\* Frame i of task t is the entry that made block b.
Owns(t, i, b) == frames[t][i].made = b

\* A block that listens was made by exactly one with statement that is still
\* open, so there is always an exit left that will tell what it collected,
\* however many tasks share the block and whichever of them nested in it.
ListeningHasOneOwner ==
  \A b \in Block :
    state[b] = "open" <=>
      \E t \in Task : \E i \in DOMAIN frames[t] :
        /\ Owns(t, i, b)
        /\ \A u \in Task : \A j \in DOMAIN frames[u] :
             Owns(u, j, b) => u = t /\ j = i

\* While the with statement that made a block is open, that block is the one
\* its context collects into: nothing entered and left in between, and no
\* closing of a block the context inherited, may leave it pointing elsewhere.
OwnerCollectsHere ==
  \A t \in Task : \A i \in DOMAIN frames[t] :
    frames[t][i].made # NoBlock => Collecting(t) = frames[t][i].made

\* The group() statements open in task t.
GroupFrames(t) == {i \in DOMAIN frames[t] : frames[t][i].what = "group"}

\* The label in effect is that of the innermost group() statement open around
\* the code, or the one the task was started under.
GroupInEffect ==
  \A t \in Task :
    IF GroupFrames(t) = {}
    THEN group[t] = base[t]
    ELSE \E i \in GroupFrames(t) :
           /\ \A j \in GroupFrames(t) : j <= i
           /\ group[t] = frames[t][i].label

\* What is collected and what an append is still carrying.
Pending ==
  (UNION {Collected(b) : b \in {x \in Block : state[x] = "open"}})
    \cup {holds[t][2] : t \in {u \in Task : holds[u] # Nothing}}

\* Every failed assertion is known, told once, and never forgotten: the blocks
\* implement the ledger.
Ledger == INSTANCE SoftLedger WITH pending <- Pending

KeepsLedger == Ledger!Spec

\* A collected failure is told in the end, once the with statements end.
EventuallyTold == \A f \in Failure : (f \in happened) ~> (f \in told)

=============================================================================
