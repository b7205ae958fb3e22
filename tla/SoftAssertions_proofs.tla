------------------------ MODULE SoftAssertions_proofs ------------------------
(***************************************************************************)
(* What soft blocks promise for any number of tasks, blocks, failures and  *)
(* nested statements.                                                      *)
(***************************************************************************)
EXTENDS SoftAssertions, SequenceTheorems, TLAPS

-----------------------------------------------------------------------------
(* Stacks *)

\* Leaving a with statement keeps every statement around it.
LEMMA PopKeeps ==
  ASSUME NEW S, NEW s \in Seq(S), s # <<>>
  PROVE  /\ SubSeq(s, 1, Len(s) - 1) \in Seq(S)
         /\ Len(SubSeq(s, 1, Len(s) - 1)) = Len(s) - 1
         /\ \A i \in 1 .. Len(s) - 1 : SubSeq(s, 1, Len(s) - 1)[i] = s[i]
         /\ Len(s) \in Nat \ {0}
  <1>1. Len(s) \in Nat /\ Len(s) # 0
    BY EmptySeq, LenProperties
  <1>2. \A i \in 1 .. Len(s) - 1 : s[i] \in S
    BY <1>1, ElementOfSeq
  <1>3. /\ SubSeq(s, 1, Len(s) - 1) \in Seq(S)
        /\ Len(SubSeq(s, 1, Len(s) - 1))
             = IF 1 <= Len(s) - 1 THEN Len(s) - 1 - 1 + 1 ELSE 0
        /\ \A i \in 1 .. Len(s) - 1 - 1 + 1 :
             SubSeq(s, 1, Len(s) - 1)[i] = s[1 + i - 1]
    BY <1>1, <1>2, SubSeqProperties
  <1> DEFINE r == SubSeq(s, 1, Len(s) - 1)
  <1>4. /\ r \in Seq(S)
        /\ Len(r) = IF 1 <= Len(s) - 1 THEN Len(s) - 1 - 1 + 1 ELSE 0
        /\ \A i \in 1 .. Len(s) - 1 - 1 + 1 : r[i] = s[1 + i - 1]
    BY <1>3
  <1> HIDE DEF r
  <1>5. Len(r) = Len(s) - 1
    <2>1. \A n \in Nat : n # 0 =>
            (IF 1 <= n - 1 THEN n - 1 - 1 + 1 ELSE 0) = n - 1
      OBVIOUS
    <2> QED
      BY <1>1, <1>4, <2>1
  <1>6. ASSUME NEW i \in 1 .. Len(s) - 1
        PROVE  r[i] = s[i]
    <2>1. i \in 1 .. Len(s) - 1 - 1 + 1 /\ 1 + i - 1 = i
      BY <1>1, <1>6
    <2> QED
      BY <1>4, <2>1
  <1> QED
    BY <1>1, <1>4, <1>5, <1>6 DEF r

\* What a list of failures holds after an append.
LEMMA AppendCollects ==
  ASSUME NEW S, NEW s \in Seq(S), NEW e \in S
  PROVE  /\ Append(s, e) \in Seq(S)
         /\ {Append(s, e)[i] : i \in 1 .. Len(Append(s, e))}
              = {s[i] : i \in 1 .. Len(s)} \cup {e}
  <1> DEFINE r == Append(s, e)
  <1>1. /\ r \in Seq(S) /\ Len(r) = Len(s) + 1 /\ Len(s) \in Nat
        /\ \A i \in 1 .. Len(s) : r[i] = s[i]
        /\ r[Len(s) + 1] = e
    BY AppendProperties, LenProperties
  <1> HIDE DEF r
  <1>2. 1 .. Len(r) = (1 .. Len(s)) \cup {Len(s) + 1}
    BY <1>1
  <1>3. {r[i] : i \in 1 .. Len(r)} = {s[i] : i \in 1 .. Len(s)} \cup {e}
    BY <1>1, <1>2
  <1> QED
    BY <1>1, <1>3 DEF r

-----------------------------------------------------------------------------
(* Types *)

LEMMA InitTypes == Init => TypeOK
  BY SoftConstants, EmptySeq DEF Init, TypeOK, Nothing

LEMMA FrameTypes ==
  /\ \A b \in Block \cup {NoBlock}, d \in Int : SoftFrame(b, d) \in Frame
  /\ \A l \in Label, old \in Label \cup {NoLabel}, d \in Int :
       GroupFrame(l, old, d) \in Frame
  BY DEF Frame, SoftFrame, GroupFrame

LEMMA StepTypes == TypeOK /\ [Next]_vars => TypeOK'
  <1> SUFFICES ASSUME TypeOK, [Next]_vars PROVE TypeOK'
    OBVIOUS
  <1> USE DEF TypeOK
  <1>1. ASSUME NEW t \in Task, NEW frame \in Frame, Push(t, frame)
        PROVE frames' \in [Task -> Seq(Frame)]
    BY <1>1, AppendProperties DEF Push
  <1>2. ASSUME NEW t \in Task, frames[t] # <<>>, Pop(t)
        PROVE frames' \in [Task -> Seq(Frame)]
    BY <1>2, PopKeeps DEF Pop
  <1>3. ASSUME NEW t \in Task, frames[t] # <<>>
        PROVE Top(t) \in Frame
    BY <1>3, ElementOfSeq, EmptySeq, LenProperties DEF Top
  <1> DEFINE DeliveryTypes ==
        /\ failures' \in [Block -> Seq(Failure)]
        /\ holds' \in [Task -> {Nothing} \cup (Block \X Failure)]
        /\ told' \subseteq Failure
        /\ flying' \in [Task -> BOOLEAN]
  <1>r. ASSUME NEW t \in Task, NEW f \in Failure, RaiseIt(t, f)
        PROVE DeliveryTypes
    <2>1. told' \subseteq Failure
      BY <1>r DEF RaiseIt
    <2>2. flying' \in [Task -> BOOLEAN]
      BY <1>r DEF RaiseIt
    <2>3. failures' = failures /\ holds' = holds
      BY <1>r DEF RaiseIt
    <2> QED
      BY <2>1, <2>2, <2>3
  <1>4. ASSUME NEW t \in Task, NEW f \in Failure, SoftDelivery(t, f)
        PROVE DeliveryTypes
    <2>1. CASE Collecting(t) = NoBlock
      BY <1>4, <2>1, <1>r DEF SoftDelivery
    <2>2. CASE Collecting(t) # NoBlock
      <3>1. err[t] \in Block
        BY <2>2 DEF Collecting, Listening
      <3>2. CollectIt(t, f)
        BY <1>4, <2>2 DEF SoftDelivery
      <3>3. told' \subseteq Failure /\ flying' \in [Task -> BOOLEAN]
        BY <3>2 DEF CollectIt
      <3>4. holds' \in [Task -> {Nothing} \cup (Block \X Failure)]
        BY <3>1, <3>2 DEF CollectIt
      <3>5. Append(failures[err[t]], f) \in Seq(Failure)
        BY <3>1, AppendProperties
      <3>6. failures' \in [Block -> Seq(Failure)]
        BY <3>2, <3>5 DEF CollectIt
      <3> QED
        BY <3>3, <3>4, <3>6
    <2> QED
      BY <2>1, <2>2
  <1>5. ASSUME NEW t \in Task, NEW c \in Task, Spawn(t, c) PROVE TypeOK'
    <2>1. CASE c \in Threaded /\ ~CopiesContext
      BY <1>5, <2>1 DEF Spawn, contexts, blocks, history
    <2>2. CASE ~(c \in Threaded /\ ~CopiesContext)
      <3>1. /\ ctx' = [ctx EXCEPT ![c] = ctx[t]]
            /\ err' = [err EXCEPT ![c] = err[t]]
            /\ group' = [group EXCEPT ![c] = group[t]]
            /\ base' = [base EXCEPT ![c] = group[t]]
        BY <1>5, <2>2, Zenon DEF Spawn
      <3> QED
        BY <1>5, <3>1 DEF Spawn, blocks, history
    <2> QED
      BY <2>1, <2>2
  <1>6. ASSUME NEW t \in Task, NEW b \in Block, EnterFresh(t, b) PROVE TypeOK'
    BY <1>6, <1>1, FrameTypes DEF EnterFresh, history
  <1>7. ASSUME NEW t \in Task, EnterNested(t) PROVE TypeOK'
    <2>1. frames' \in [Task -> Seq(Frame)]
      BY <1>7, <1>1, FrameTypes DEF EnterNested
    <2>2. ctx' \in [Task -> Int]
      BY <1>7 DEF EnterNested
    <2> QED
      BY <1>7, <2>1, <2>2 DEF EnterNested, blocks, history
  <1>8. ASSUME NEW t \in Task, Close(t) PROVE TypeOK'
    <2>1. err[t] \in Block
      BY <1>8 DEF Close, Outermost
    <2>2. Collected(err[t]) \subseteq Failure
      BY <2>1, ElementOfSeq DEF Collected
    <2>3. <<>> \in Seq(Failure)
      BY EmptySeq
    <2>4. frames' \in [Task -> Seq(Frame)]
      BY <1>8, <1>2 DEF Close, Leaving
    <2>5. flying' \in [Task -> BOOLEAN]
      BY <1>8 DEF Close
    <2> QED
      BY <1>8, <2>1, <2>2, <2>3, <2>4, <2>5 DEF Close
  <1>9. ASSUME NEW t \in Task, LeaveNested(t) PROVE TypeOK'
    BY <1>9, <1>2 DEF LeaveNested, Leaving, blocks, history
  <1>10. ASSUME NEW t \in Task, NEW l \in Label, EnterGroup(t, l) PROVE TypeOK'
    BY <1>10, <1>1, FrameTypes DEF EnterGroup, blocks, history
  <1>11. ASSUME NEW t \in Task, LeaveGroup(t) PROVE TypeOK'
    BY <1>11, <1>2, <1>3 DEF LeaveGroup, Leaving, blocks, history, Frame
  <1>12. ASSUME NEW t \in Task, NEW a \in Builder, MakeBuilder(t, a) PROVE TypeOK'
    BY <1>12 DEF MakeBuilder, contexts, blocks, history
  <1>13. ASSUME NEW t \in Task, NEW a \in Builder, NEW f \in Failure,
                AssertionFails(t, a, f)
         PROVE TypeOK'
    <2>1. CASE kind[a] = "soft"
      BY <1>13, <2>1, <1>4 DEF AssertionFails, contexts
    <2>2. CASE kind[a] # "soft"
      BY <1>13, <2>2, <1>r DEF AssertionFails, contexts
    <2> QED
      BY <2>1, <2>2
  <1>14. ASSUME NEW t \in Task, NEW f \in Failure, SoftFail(t, f) PROVE TypeOK'
    BY <1>14, <1>4 DEF SoftFail, contexts
  <1>15. ASSUME NEW t \in Task, AppendHeld(t) PROVE TypeOK'
    BY <1>15, AppendProperties DEF AppendHeld, contexts, history
  <1>16. ASSUME NEW t \in Task, Throw(t) \/ Catch(t) PROVE TypeOK'
    BY <1>16 DEF Throw, Catch, contexts, blocks, history
  <1>17. CASE UNCHANGED vars
    BY <1>17 DEF vars, contexts, blocks, history
  <1> QED
    BY <1>5, <1>6, <1>7, <1>8, <1>9, <1>10, <1>11, <1>12, <1>13, <1>14, <1>15,
       <1>16, <1>17 DEF Next, Step

\* Every variable keeps its type, whatever the tasks do.
THEOREM TypeCorrect == Spec => []TypeOK
  BY InitTypes, StepTypes, PTL DEF Spec


-----------------------------------------------------------------------------
(* The inductive invariant *)

\* The depth a statement leaves its body at.
After(frame) == IF frame.what = "soft" THEN frame.was + 1 ELSE frame.was

\* No statement from the i-th of t inwards made a block.
NestedFrom(t, i) ==
  \A j \in DOMAIN frames[t] : j >= i => frames[t][j].made = NoBlock

\* A task not started yet has touched nothing.
UnstartedIsClean ==
  \A t \in Task \ started :
    frames[t] = <<>> /\ err[t] = NoBlock /\ holds[t] = Nothing

\* An open statement that made a block brought the depth from 0 to 1, its
\* block still listens and is the one of its context, and it is alone there.
OwnerIsCurrent ==
  \A t \in Task : \A i \in DOMAIN frames[t] :
    frames[t][i].made # NoBlock =>
      /\ frames[t][i].what = "soft" /\ frames[t][i].was = 0
      /\ err[t] = frames[t][i].made
      /\ state[frames[t][i].made] = "open"
      /\ \A j \in DOMAIN frames[t] : j # i => frames[t][j].made = NoBlock

OneOwner ==
  \A t, u \in Task : \A i \in DOMAIN frames[t], j \in DOMAIN frames[u] :
    frames[t][i].made = frames[u][j].made /\ frames[t][i].made # NoBlock => t = u

OpenHasOwner ==
  \A b \in Block : state[b] = "open" =>
    \E t \in Task : \E i \in DOMAIN frames[t] : Owns(t, i, b)

\* While its block listens, the depth of a context is the one its innermost
\* statement left it at, and only the owner's exit can bring it to zero.
DepthIsNesting ==
  \A t \in Task : Listening(t) =>
    /\ frames[t] = <<>> => ctx[t] >= 1
    /\ frames[t] # <<>> => ctx[t] = After(Top(t))
    /\ \A i \in DOMAIN frames[t] :
         NestedFrom(t, i) =>
           /\ frames[t][i].was >= 1
           /\ i > 1 => frames[t][i].was = After(frames[t][i - 1])

ClosedIsEmpty == NoOrphanedFailure

InheritedIsMade == \A t \in Task : err[t] # NoBlock => state[err[t]] # "unmade"

\* A thread in an empty context listens to blocks of its own only.
ThreadOwnsItsBlock ==
  \A t \in Threaded : Listening(t) =>
    \E i \in DOMAIN frames[t] : Owns(t, i, err[t])

HeldIsListening ==
  \A t \in Task : holds[t] # Nothing =>
    t \in Threaded /\ Listening(t) /\ holds[t][1] = err[t]

IInv ==
  /\ TypeOK
  /\ UnstartedIsClean
  /\ OwnerIsCurrent
  /\ OneOwner
  /\ OpenHasOwner
  /\ DepthIsNesting
  /\ ClosedIsEmpty
  /\ InheritedIsMade
  /\ ThreadOwnsItsBlock
  /\ HeldIsListening

-----------------------------------------------------------------------------
(* What a step of a task does to its stack *)

LEMMA StackShape ==
  ASSUME TypeOK, NEW t \in Task
  PROVE  /\ Len(frames[t]) \in Nat
         /\ DOMAIN frames[t] = 1 .. Len(frames[t])
         /\ frames[t] = <<>> <=> Len(frames[t]) = 0
         /\ \A i \in DOMAIN frames[t] : frames[t][i] \in Frame
         /\ ctx[t] \in Int
  <1>1. frames[t] \in Seq(Frame) /\ ctx[t] \in Int
    BY DEF TypeOK
  <1> QED
    BY <1>1, LenProperties, EmptySeq, ElementOfSeq

LEMMA PushShape ==
  ASSUME TypeOK, NEW t \in Task, NEW frame \in Frame, Push(t, frame)
  PROVE  /\ \A u \in Task \ {t} : frames'[u] = frames[u]
         /\ Len(frames'[t]) = Len(frames[t]) + 1
         /\ DOMAIN frames'[t] = 1 .. Len(frames[t]) + 1
         /\ frames'[t] # <<>>
         /\ \A i \in DOMAIN frames[t] : frames'[t][i] = frames[t][i]
         /\ frames'[t][Len(frames[t]) + 1] = frame
  <1>1. frames[t] \in Seq(Frame)
    BY DEF TypeOK
  <1>2. frames'[t] = Append(frames[t], frame)
    BY DEF Push, TypeOK
  <1>3. \A u \in Task \ {t} : frames'[u] = frames[u]
    BY DEF Push, TypeOK
  <1>4. /\ frames'[t] \in Seq(Frame)
        /\ frames'[t] # <<>>
        /\ Len(frames'[t]) = Len(frames[t]) + 1
        /\ \A i \in 1 .. Len(frames[t]) : frames'[t][i] = frames[t][i]
        /\ frames'[t][Len(frames[t]) + 1] = frame
    BY <1>1, <1>2, AppendProperties
  <1>5. DOMAIN frames'[t] = 1 .. Len(frames'[t]) /\ DOMAIN frames[t] = 1 .. Len(frames[t])
    BY <1>1, <1>4, LenProperties
  <1> QED
    BY <1>3, <1>4, <1>5

LEMMA PopShape ==
  ASSUME TypeOK, NEW t \in Task, frames[t] # <<>>, Pop(t)
  PROVE  /\ \A u \in Task \ {t} : frames'[u] = frames[u]
         /\ Len(frames'[t]) = Len(frames[t]) - 1
         /\ Len(frames[t]) >= 1
         /\ DOMAIN frames'[t] = 1 .. Len(frames[t]) - 1
         /\ frames'[t] = <<>> <=> Len(frames[t]) = 1
         /\ \A i \in DOMAIN frames'[t] : frames'[t][i] = frames[t][i]
  <1>1. frames[t] \in Seq(Frame)
    BY DEF TypeOK
  <1>2. frames'[t] = SubSeq(frames[t], 1, Len(frames[t]) - 1)
    BY DEF Pop, TypeOK
  <1>3. \A u \in Task \ {t} : frames'[u] = frames[u]
    BY DEF Pop, TypeOK
  <1>4. /\ frames'[t] \in Seq(Frame)
        /\ Len(frames'[t]) = Len(frames[t]) - 1
        /\ \A i \in 1 .. Len(frames[t]) - 1 : frames'[t][i] = frames[t][i]
        /\ Len(frames[t]) \in Nat \ {0}
    BY <1>1, <1>2, PopKeeps
  <1>5. DOMAIN frames'[t] = 1 .. Len(frames'[t])
    BY <1>4, LenProperties
  <1>6. frames'[t] = <<>> <=> Len(frames'[t]) = 0
    BY <1>4, EmptySeq, LenProperties
  <1> QED
    BY <1>3, <1>4, <1>5, <1>6

\* While its block listens, a context has entered at least one statement of it.
LEMMA ListeningIsInside ==
  ASSUME IInv, NEW t \in Task, Listening(t)
  PROVE  ctx[t] >= 1
  <1>1. CASE frames[t] = <<>>
    BY <1>1 DEF IInv, DepthIsNesting
  <1>2. CASE frames[t] # <<>>
    <2> DEFINE n == Len(frames[t])
    <2>1. n \in DOMAIN frames[t] /\ Top(t) = frames[t][n] /\ Top(t) \in Frame
      BY <1>2, StackShape DEF Top, IInv
    <2>2. ctx[t] = After(Top(t))
      BY <1>2 DEF IInv, DepthIsNesting
    <2>3. Top(t).was \in Int
      BY <2>1 DEF Frame
    <2>4. CASE Top(t).made # NoBlock
      BY <2>1, <2>2, <2>4 DEF IInv, OwnerIsCurrent, After
    <2>5. CASE Top(t).made = NoBlock
      <3>1. NestedFrom(t, n)
        BY <2>1, <2>5, StackShape DEF NestedFrom, IInv
      <3>2. Top(t).was >= 1
        BY <2>1, <3>1 DEF IInv, DepthIsNesting
      <3> QED
        BY <2>2, <2>3, <3>2 DEF After
    <2> QED
      BY <2>4, <2>5
  <1> QED
    BY <1>1, <1>2

\* The innermost statement, while the block of its context listens: the exit of
\* soft_assertions() is the outermost one exactly when its entry made the block.
LEMMA OutermostIsOwner ==
  ASSUME IInv, NEW t \in Task, frames[t] # <<>>, Top(t).what = "soft"
  PROVE  /\ Top(t) = frames[t][Len(frames[t])]
         /\ Len(frames[t]) \in DOMAIN frames[t]
         /\ Top(t).made # NoBlock => Outermost(t) /\ Top(t).made = err[t] /\ Listening(t)
         /\ Top(t).made = NoBlock /\ Listening(t) =>
              /\ NestedFrom(t, Len(frames[t]))
              /\ ctx[t] = Top(t).was + 1
              /\ ~Outermost(t)
  <1> DEFINE n == Len(frames[t])
  <1>1. n \in DOMAIN frames[t] /\ Top(t) = frames[t][n] /\ Top(t) \in Frame
    BY StackShape DEF Top, IInv
  <1>2. Top(t).was \in Int
    BY <1>1 DEF Frame
  <1>3. ASSUME Top(t).made # NoBlock
        PROVE  Outermost(t) /\ Top(t).made = err[t] /\ Listening(t)
    <2>1. err[t] = Top(t).made /\ state[err[t]] = "open" /\ Top(t).was = 0
      BY <1>1, <1>3 DEF IInv, OwnerIsCurrent
    <2>2. Listening(t)
      BY <1>3, <2>1 DEF Listening
    <2>3. ctx[t] = 1
      BY <2>1, <2>2 DEF IInv, DepthIsNesting, After
    <2> QED
      BY <1>3, <2>1, <2>2, <2>3 DEF Outermost
  <1>4. ASSUME Top(t).made = NoBlock, Listening(t)
        PROVE  NestedFrom(t, n) /\ ctx[t] = Top(t).was + 1 /\ ~Outermost(t)
    <2>1. NestedFrom(t, n)
      BY <1>1, <1>4, StackShape DEF NestedFrom, IInv
    <2>2. Top(t).was >= 1 /\ ctx[t] = Top(t).was + 1
      BY <1>1, <1>4, <2>1 DEF IInv, DepthIsNesting, After
    <2> QED
      BY <1>2, <2>1, <2>2 DEF Outermost
  <1> QED
    BY <1>1, <1>3, <1>4

-----------------------------------------------------------------------------
(* Each kind of step keeps the invariant *)

LEMMA InitInv == Init => IInv
  <1> SUFFICES ASSUME Init PROVE IInv
    OBVIOUS
  <1>1. TypeOK
    BY InitTypes
  <1>2. ASSUME NEW t \in Task
        PROVE  DOMAIN frames[t] = {} /\ frames[t] = <<>> /\ ~Listening(t)
    <2>1. frames[t] = <<>> /\ err[t] = NoBlock
      BY DEF Init
    <2>2. DOMAIN frames[t] = 1 .. 0
      BY <1>1, <2>1, StackShape
    <2> QED
      BY <2>1, <2>2 DEF Listening
  <1>3. UnstartedIsClean /\ InheritedIsMade /\ HeldIsListening
    BY DEF Init, UnstartedIsClean, InheritedIsMade, HeldIsListening
  <1>4. OwnerIsCurrent /\ OneOwner
    BY <1>2 DEF OwnerIsCurrent, OneOwner
  <1>5. OpenHasOwner /\ ClosedIsEmpty
    BY DEF Init, OpenHasOwner, ClosedIsEmpty, NoOrphanedFailure
  <1>6. DepthIsNesting /\ ThreadOwnsItsBlock
    BY <1>2, SoftConstants DEF DepthIsNesting, ThreadOwnsItsBlock
  <1> QED
    BY <1>1, <1>3, <1>4, <1>5, <1>6 DEF IInv

\* Entering a nested block or a group.
LEMMA PushNestedKeeps ==
  ASSUME IInv, TypeOK', NEW t \in started, NEW frame \in Frame,
         frame.made = NoBlock, frame.was = ctx[t],
         Push(t, frame), ctx' = [ctx EXCEPT ![t] = After(frame)],
         UNCHANGED <<started, err, state, failures, holds>>
  PROVE  IInv'
  <1> USE DEF IInv
  <1>0. t \in Task
    BY DEF TypeOK
  <1> DEFINE n == Len(frames[t])
  <1>1. /\ \A u \in Task \ {t} : frames'[u] = frames[u]
        /\ DOMAIN frames'[t] = 1 .. n + 1 /\ DOMAIN frames[t] = 1 .. n
        /\ n \in Nat /\ Len(frames'[t]) = n + 1
        /\ frames'[t] # <<>>
        /\ \A i \in DOMAIN frames[t] : frames'[t][i] = frames[t][i]
        /\ frames'[t][n + 1] = frame
    BY <1>0, PushShape, StackShape
  <1>2. \A u \in Task : Listening(u)' <=> Listening(u)
    BY DEF Listening
  <1>3. \A u \in Task : \A i \in DOMAIN frames'[u] : frames'[u][i].made # NoBlock =>
          i \in DOMAIN frames[u] /\ frames'[u][i] = frames[u][i]
    BY <1>1
  <1>4. UnstartedIsClean'
    BY <1>1 DEF UnstartedIsClean
  <1>5. OwnerIsCurrent'
    <2> SUFFICES ASSUME NEW u \in Task, NEW i \in DOMAIN frames'[u],
                        frames'[u][i].made # NoBlock
                 PROVE  /\ frames'[u][i].what = "soft" /\ frames'[u][i].was = 0
                        /\ err'[u] = frames'[u][i].made
                        /\ state'[frames'[u][i].made] = "open"
                        /\ \A j \in DOMAIN frames'[u] : j # i => frames'[u][j].made = NoBlock
      BY DEF OwnerIsCurrent
    <2>1. i \in DOMAIN frames[u] /\ frames'[u][i] = frames[u][i]
      BY <1>3
    <2> QED
      BY <1>3, <2>1 DEF OwnerIsCurrent
  <1>6. OneOwner'
    BY <1>3 DEF OneOwner
  <1>7. OpenHasOwner'
    BY <1>0, <1>1 DEF OpenHasOwner, Owns
  <1>8. DepthIsNesting'
    <2> SUFFICES ASSUME NEW u \in Task, Listening(u)
                 PROVE  /\ frames'[u] = <<>> => ctx'[u] >= 1
                        /\ frames'[u] # <<>> => ctx'[u] = After(Top(u)')
                        /\ \A i \in DOMAIN frames'[u] :
                             NestedFrom(u, i)' =>
                               /\ frames'[u][i].was >= 1
                               /\ i > 1 => frames'[u][i].was = After(frames'[u][i - 1])
      BY <1>2 DEF DepthIsNesting, After
    <2>1. CASE u # t
      <3>1. frames'[u] = frames[u] /\ ctx'[u] = ctx[u] /\ Top(u)' = Top(u)
        BY <1>1, <2>1 DEF TypeOK, Top
      <3> QED
        BY <3>1 DEF DepthIsNesting, NestedFrom
    <2>2. CASE u = t
      <3>1. Top(t)' = frame /\ ctx'[t] = After(frame)
        BY <1>0, <1>1 DEF Top, TypeOK
      <3>2. ASSUME NEW i \in DOMAIN frames'[t], NestedFrom(t, i)'
            PROVE  /\ frames'[t][i].was >= 1
                   /\ i > 1 => frames'[t][i].was = After(frames'[t][i - 1])
        <4>1. CASE i = n + 1
          <5>1. ctx[t] >= 1
            BY <2>2, <1>0, ListeningIsInside
          <5>2. CASE n = 0
            BY <1>1, <4>1, <5>1, <5>2
          <5>3. CASE n # 0
            <6>1. frames[t] # <<>> /\ Top(t) = frames[t][n] /\ n \in DOMAIN frames[t]
              BY <1>0, <1>1, <5>3, StackShape DEF Top
            <6>2. ctx[t] = After(frames[t][n])
              BY <1>0, <2>2, <6>1 DEF DepthIsNesting
            <6>3. frames'[t][i - 1] = frames[t][n]
              BY <1>1, <4>1, <6>1
            <6> QED
              BY <1>1, <4>1, <5>1, <6>2, <6>3
          <5> QED
            BY <5>2, <5>3
        <4>2. CASE i # n + 1
          <5>1. i \in DOMAIN frames[t]
            BY <1>1, <4>2
          <5>2. NestedFrom(t, i)
            BY <1>1, <3>2 DEF NestedFrom
          <5>3. i > 1 => i - 1 \in DOMAIN frames[t]
            BY <1>1, <5>1
          <5> QED
            BY <1>0, <1>1, <2>2, <5>1, <5>2, <5>3 DEF DepthIsNesting
        <4> QED
          BY <4>1, <4>2
      <3> QED
        BY <1>1, <2>2, <3>1, <3>2
    <2> QED
      BY <2>1, <2>2
  <1>9. ClosedIsEmpty' /\ InheritedIsMade'
    BY DEF ClosedIsEmpty, NoOrphanedFailure, InheritedIsMade
  <1>10. ThreadOwnsItsBlock'
    BY <1>1, <1>2, SoftConstants DEF ThreadOwnsItsBlock, Owns
  <1>11. HeldIsListening'
    BY <1>2 DEF HeldIsListening
  <1> QED
    BY <1>4, <1>5, <1>6, <1>7, <1>8, <1>9, <1>10, <1>11

\* Leaving a statement that made no block, or whose block has closed already.
LEMMA PopNestedKeeps ==
  ASSUME IInv, TypeOK', NEW t \in Task, frames[t] # <<>>, Pop(t),
         Top(t).made = NoBlock,
         Listening(t) => ctx'[t] = Top(t).was,
         \A u \in Task \ {t} : ctx'[u] = ctx[u],
         UNCHANGED <<started, err, state, failures, holds>>
  PROVE  IInv'
  <1> USE DEF IInv
  <1> DEFINE n == Len(frames[t])
  <1>1. /\ \A u \in Task \ {t} : frames'[u] = frames[u]
        /\ DOMAIN frames'[t] = 1 .. n - 1 /\ DOMAIN frames[t] = 1 .. n
        /\ n \in Nat /\ n >= 1 /\ Len(frames'[t]) = n - 1
        /\ frames'[t] = <<>> <=> n = 1
        /\ \A i \in DOMAIN frames'[t] : frames'[t][i] = frames[t][i]
        /\ Top(t) = frames[t][n]
    BY PopShape, StackShape DEF Top
  <1>2. \A u \in Task : Listening(u)' <=> Listening(u)
    BY DEF Listening
  <1>3. \A u \in Task : \A i \in DOMAIN frames'[u] :
          i \in DOMAIN frames[u] /\ frames'[u][i] = frames[u][i]
    BY <1>1
  <1>4. \A u \in Task : \A i \in DOMAIN frames[u] : frames[u][i].made # NoBlock =>
          i \in DOMAIN frames'[u] /\ frames'[u][i] = frames[u][i]
    BY <1>1
  <1>5. UnstartedIsClean'
    BY <1>1 DEF UnstartedIsClean
  <1>6. OwnerIsCurrent'
    BY <1>3 DEF OwnerIsCurrent
  <1>7. OneOwner'
    BY <1>3 DEF OneOwner
  <1>8. OpenHasOwner'
    <2> SUFFICES ASSUME NEW b \in Block, state[b] = "open"
                 PROVE  \E u \in Task : \E i \in DOMAIN frames'[u] : frames'[u][i].made = b
      BY DEF OpenHasOwner, Owns
    <2>1. PICK u \in Task : \E i \in DOMAIN frames[u] : frames[u][i].made = b
      BY DEF OpenHasOwner, Owns
    <2> QED
      BY <1>4, <2>1, SoftConstants
  <1>9. DepthIsNesting'
    <2> SUFFICES ASSUME NEW u \in Task, Listening(u)
                 PROVE  /\ frames'[u] = <<>> => ctx'[u] >= 1
                        /\ frames'[u] # <<>> => ctx'[u] = After(Top(u)')
                        /\ \A i \in DOMAIN frames'[u] :
                             NestedFrom(u, i)' =>
                               /\ frames'[u][i].was >= 1
                               /\ i > 1 => frames'[u][i].was = After(frames'[u][i - 1])
      BY <1>2 DEF DepthIsNesting, After
    <2>1. CASE u # t
      <3>1. frames'[u] = frames[u] /\ ctx'[u] = ctx[u] /\ Top(u)' = Top(u)
        BY <1>1, <2>1 DEF Top
      <3> QED
        BY <3>1 DEF DepthIsNesting, NestedFrom
    <2>2. CASE u = t
      <3>1. NestedFrom(t, n) /\ n \in DOMAIN frames[t]
        BY <1>1 DEF NestedFrom
      <3>2. /\ ctx'[t] = Top(t).was
            /\ Top(t).was >= 1
            /\ n > 1 => Top(t).was = After(frames[t][n - 1])
        BY <1>1, <2>2, <3>1 DEF DepthIsNesting
      <3>3. n > 1 => Top(t)' = frames[t][n - 1]
        BY <1>1 DEF Top
      <3>4. ASSUME NEW i \in DOMAIN frames'[t], NestedFrom(t, i)'
            PROVE  /\ frames'[t][i].was >= 1
                   /\ i > 1 => frames'[t][i].was = After(frames'[t][i - 1])
        <4>1. i \in DOMAIN frames[t]
          BY <1>3
        <4>2. NestedFrom(t, i)
          BY <1>1, <3>4 DEF NestedFrom
        <4>3. i > 1 => i - 1 \in DOMAIN frames'[t]
          BY <1>1
        <4> QED
          BY <1>3, <2>2, <4>1, <4>2, <4>3 DEF DepthIsNesting
      <3> QED
        BY <1>1, <2>2, <3>2, <3>3, <3>4
    <2> QED
      BY <2>1, <2>2
  <1>10. ClosedIsEmpty' /\ InheritedIsMade'
    BY DEF ClosedIsEmpty, NoOrphanedFailure, InheritedIsMade
  <1>11. ThreadOwnsItsBlock'
    <2> SUFFICES ASSUME NEW u \in Threaded, Listening(u)
                 PROVE  \E i \in DOMAIN frames'[u] : frames'[u][i].made = err[u]
      BY <1>2, SoftConstants DEF ThreadOwnsItsBlock, Owns
    <2>1. u \in Task /\ err[u] # NoBlock
      BY SoftConstants DEF Listening
    <2> QED
      BY <1>4, <2>1 DEF ThreadOwnsItsBlock, Owns
  <1>12. HeldIsListening'
    BY <1>2 DEF HeldIsListening
  <1> QED
    BY <1>5, <1>6, <1>7, <1>8, <1>9, <1>10, <1>11, <1>12

\* The owner's exit closes the block.
LEMMA OwnerExitKeeps ==
  ASSUME IInv, TypeOK', NEW t \in Task, Close(t), Top(t).made # NoBlock
  PROVE  IInv'
  <1> USE DEF IInv
  <1> DEFINE n == Len(frames[t])
             b == err[t]
  <1>1. /\ frames[t] # <<>> /\ Top(t).what = "soft" /\ Pop(t) /\ holds[t] = Nothing
        /\ ctx' = [ctx EXCEPT ![t] = 0]
        /\ state' = [state EXCEPT ![b] = "closed"]
        /\ failures' = [failures EXCEPT ![b] = <<>>]
        /\ UNCHANGED <<started, err, holds>>
    BY DEF Close, Leaving
  <1>2. /\ \A u \in Task \ {t} : frames'[u] = frames[u]
        /\ DOMAIN frames'[t] = 1 .. n - 1 /\ DOMAIN frames[t] = 1 .. n
        /\ n \in Nat /\ n >= 1 /\ n \in DOMAIN frames[t]
        /\ \A i \in DOMAIN frames'[t] : frames'[t][i] = frames[t][i]
        /\ frames[t][n].made = b
        /\ b \in Block /\ b # NoBlock /\ state[b] = "open"
    BY <1>1, PopShape, StackShape, OutermostIsOwner DEF Top, Listening, TypeOK
  <1>3. \A c \in Block : state'[c] = IF c = b THEN "closed" ELSE state[c]
    BY <1>1, <1>2 DEF TypeOK
  <1>4. \A c \in Block : failures'[c] = IF c = b THEN <<>> ELSE failures[c]
    BY <1>1, <1>2 DEF TypeOK
  <1>5. \A i \in DOMAIN frames'[t] : frames'[t][i].made = NoBlock
    BY <1>2 DEF OwnerIsCurrent
  <1>6. \A u \in Task : \A i \in DOMAIN frames'[u] :
          i \in DOMAIN frames[u] /\ frames'[u][i] = frames[u][i]
    BY <1>2
  <1>7. \A u \in Task \ {t} : \A i \in DOMAIN frames[u] : frames[u][i].made # b
    BY <1>2 DEF OneOwner
  <1>8. \A u \in Task : err[u] \in Block \cup {NoBlock}
    BY DEF TypeOK
  <1>9. \A u \in Task : Listening(u)' <=> Listening(u) /\ err[u] # b
    BY <1>1, <1>2, <1>3, <1>8 DEF Listening
  <1>10. UnstartedIsClean'
    BY <1>1, <1>2 DEF UnstartedIsClean
  <1>11. OwnerIsCurrent'
    <2> SUFFICES ASSUME NEW u \in Task, NEW i \in DOMAIN frames'[u],
                        frames'[u][i].made # NoBlock
                 PROVE  /\ frames'[u][i].what = "soft" /\ frames'[u][i].was = 0
                        /\ err'[u] = frames'[u][i].made
                        /\ state'[frames'[u][i].made] = "open"
                        /\ \A j \in DOMAIN frames'[u] : j # i => frames'[u][j].made = NoBlock
      BY DEF OwnerIsCurrent
    <2>1. u # t /\ i \in DOMAIN frames[u] /\ frames'[u] = frames[u]
      BY <1>2, <1>5
    <2>2. frames[u][i].made # b /\ frames[u][i].made \in Block
      BY <1>7, <1>8, <2>1 DEF OwnerIsCurrent
    <2> QED
      BY <1>1, <1>3, <2>1, <2>2 DEF OwnerIsCurrent
  <1>12. OneOwner'
    BY <1>6 DEF OneOwner
  <1>13. OpenHasOwner'
    <2> SUFFICES ASSUME NEW c \in Block, state'[c] = "open"
                 PROVE  \E u \in Task : \E i \in DOMAIN frames'[u] : frames'[u][i].made = c
      BY DEF OpenHasOwner, Owns
    <2>1. c # b /\ state[c] = "open"
      BY <1>3
    <2>2. PICK u \in Task : \E i \in DOMAIN frames[u] : frames[u][i].made = c
      BY <2>1 DEF OpenHasOwner, Owns
    <2>3. u # t
      BY <1>2, <2>1, <2>2, SoftConstants DEF OwnerIsCurrent
    <2> QED
      BY <1>2, <2>2, <2>3
  <1>14. DepthIsNesting'
    <2> SUFFICES ASSUME NEW u \in Task, Listening(u), err[u] # b
                 PROVE  /\ frames'[u] = <<>> => ctx'[u] >= 1
                        /\ frames'[u] # <<>> => ctx'[u] = After(Top(u)')
                        /\ \A i \in DOMAIN frames'[u] :
                             NestedFrom(u, i)' =>
                               /\ frames'[u][i].was >= 1
                               /\ i > 1 => frames'[u][i].was = After(frames'[u][i - 1])
      BY <1>9 DEF DepthIsNesting, After
    <2>1. u # t
      OBVIOUS
    <2>2. frames'[u] = frames[u] /\ ctx'[u] = ctx[u] /\ Top(u)' = Top(u)
      BY <1>1, <1>2, <2>1 DEF Top, TypeOK
    <2> QED
      BY <2>2 DEF DepthIsNesting, NestedFrom
  <1>15. ClosedIsEmpty'
    BY <1>3, <1>4 DEF ClosedIsEmpty, NoOrphanedFailure
  <1>16. InheritedIsMade'
    BY <1>1, <1>3, <1>8 DEF InheritedIsMade
  <1>17. ASSUME NEW u \in Threaded, Listening(u), err[u] # b \/ u # t
         PROVE  /\ u # t /\ err[u] # b
                /\ \E i \in DOMAIN frames'[u] : frames'[u][i].made = err[u]
    <2>1. u \in Task
      BY SoftConstants
    <2>2. PICK i \in DOMAIN frames[u] : frames[u][i].made = err[u]
      BY <1>17 DEF ThreadOwnsItsBlock, Owns
    <2>3. u # t
      BY <1>17
    <2> QED
      BY <1>2, <1>7, <2>1, <2>2, <2>3
  <1>18. ThreadOwnsItsBlock'
    BY <1>1, <1>9, <1>17, SoftConstants DEF ThreadOwnsItsBlock, Owns
  <1>19. HeldIsListening'
    BY <1>1, <1>9, <1>17, SoftConstants DEF HeldIsListening
  <1> QED
    BY <1>10, <1>11, <1>12, <1>13, <1>14, <1>15, <1>16, <1>18, <1>19

\* Entering a block of its own.
LEMMA EnterFreshKeeps ==
  ASSUME IInv, TypeOK', NEW t \in Task, NEW b \in Block, EnterFresh(t, b)
  PROVE  IInv'
  <1> USE DEF IInv
  <1> DEFINE n == Len(frames[t])
             frame == SoftFrame(b, 0)
  <1>1. /\ t \in started /\ holds[t] = Nothing /\ state[b] = "unmade"
        /\ ctx[t] = 0 \/ ~Listening(t)
        /\ Push(t, frame)
        /\ ctx' = [ctx EXCEPT ![t] = 1]
        /\ err' = [err EXCEPT ![t] = b]
        /\ state' = [state EXCEPT ![b] = "open"]
        /\ UNCHANGED <<started, failures, holds>>
    BY DEF EnterFresh, Running
  <1>2. b # NoBlock
    BY SoftConstants
  <1>3. /\ frame \in Frame /\ frame.made = b /\ frame.was = 0 /\ frame.what = "soft"
    BY FrameTypes DEF SoftFrame
  <1> HIDE DEF frame
  <1>4. /\ \A u \in Task \ {t} : frames'[u] = frames[u]
        /\ DOMAIN frames'[t] = 1 .. n + 1 /\ DOMAIN frames[t] = 1 .. n
        /\ n \in Nat /\ Len(frames'[t]) = n + 1
        /\ frames'[t] # <<>>
        /\ \A i \in DOMAIN frames[t] : frames'[t][i] = frames[t][i]
        /\ frames'[t][n + 1] = frame
    BY <1>1, <1>3, PushShape, StackShape
  <1>5. /\ \A c \in Block : state'[c] = IF c = b THEN "open" ELSE state[c]
        /\ \A u \in Task : err'[u] = IF u = t THEN b ELSE err[u]
        /\ \A u \in Task : ctx'[u] = IF u = t THEN 1 ELSE ctx[u]
    BY <1>1 DEF TypeOK
  <1>6. ~Listening(t)
    BY <1>1, ListeningIsInside
  <1>7. \A i \in DOMAIN frames[t] : frames[t][i].made = NoBlock
    BY <1>6 DEF OwnerIsCurrent, Listening
  <1>8. \A u \in Task : err[u] # b /\ err[u] \in Block \cup {NoBlock}
    BY <1>1, <1>2 DEF InheritedIsMade, TypeOK
  <1>9. \A u \in Task : Listening(u)' <=> u = t \/ Listening(u)
    BY <1>2, <1>5, <1>8 DEF Listening
  <1>10. \A u \in Task : \A i \in DOMAIN frames[u] : frames[u][i].made # b
    BY <1>1, <1>2 DEF OwnerIsCurrent
  <1>11. UnstartedIsClean'
    BY <1>1, <1>4, <1>5 DEF UnstartedIsClean
  <1>12. OwnerIsCurrent'
    <2> SUFFICES ASSUME NEW u \in Task, NEW i \in DOMAIN frames'[u],
                        frames'[u][i].made # NoBlock
                 PROVE  /\ frames'[u][i].what = "soft" /\ frames'[u][i].was = 0
                        /\ err'[u] = frames'[u][i].made
                        /\ state'[frames'[u][i].made] = "open"
                        /\ \A j \in DOMAIN frames'[u] : j # i => frames'[u][j].made = NoBlock
      BY DEF OwnerIsCurrent
    <2>1. CASE u = t
      <3>1. i = n + 1
        BY <1>4, <1>7, <2>1
      <3> QED
        BY <1>3, <1>4, <1>5, <1>7, <2>1, <3>1
    <2>2. CASE u # t
      <3>1. frames'[u] = frames[u]
        BY <1>4, <2>2
      <3>2. frames[u][i].made \in Block
        BY <1>8, <3>1 DEF OwnerIsCurrent
      <3> QED
        BY <1>1, <1>5, <2>2, <3>1, <3>2 DEF OwnerIsCurrent
    <2> QED
      BY <2>1, <2>2
  <1>13. OneOwner'
    <2> SUFFICES ASSUME NEW u \in Task, NEW v \in Task,
                        NEW i \in DOMAIN frames'[u], NEW j \in DOMAIN frames'[v],
                        frames'[u][i].made = frames'[v][j].made,
                        frames'[u][i].made # NoBlock
                 PROVE  u = v
      BY DEF OneOwner
    <2>1. ASSUME NEW w \in Task, NEW k \in DOMAIN frames'[w],
                 frames'[w][k].made # NoBlock
          PROVE  IF w = t THEN frames'[w][k].made = b
                 ELSE k \in DOMAIN frames[w] /\ frames'[w] = frames[w]
      <3>1. w = t => k = n + 1
        BY <1>4, <1>7, <2>1
      <3> QED
        BY <1>3, <1>4, <3>1
    <2> QED
      BY <1>10, <2>1 DEF OneOwner
  <1>14. OpenHasOwner'
    <2> SUFFICES ASSUME NEW c \in Block, state'[c] = "open"
                 PROVE  \E u \in Task : \E i \in DOMAIN frames'[u] : frames'[u][i].made = c
      BY DEF OpenHasOwner, Owns
    <2>1. CASE c = b
      BY <1>3, <1>4, <2>1
    <2>2. CASE c # b
      <3>1. PICK u \in Task : \E i \in DOMAIN frames[u] : frames[u][i].made = c
        BY <1>5, <2>2 DEF OpenHasOwner, Owns
      <3>2. u # t
        BY <1>7, <3>1, SoftConstants
      <3> QED
        BY <1>4, <3>1, <3>2
    <2> QED
      BY <2>1, <2>2
  <1>15. DepthIsNesting'
    <2> SUFFICES ASSUME NEW u \in Task, Listening(u)'
                 PROVE  /\ frames'[u] = <<>> => ctx'[u] >= 1
                        /\ frames'[u] # <<>> => ctx'[u] = After(Top(u)')
                        /\ \A i \in DOMAIN frames'[u] :
                             NestedFrom(u, i)' =>
                               /\ frames'[u][i].was >= 1
                               /\ i > 1 => frames'[u][i].was = After(frames'[u][i - 1])
      BY DEF DepthIsNesting, After
    <2>1. CASE u = t
      <3>1. Top(t)' = frame /\ ctx'[t] = 1 /\ After(frame) = 1
        BY <1>3, <1>4, <1>5 DEF Top, After
      <3>2. \A i \in DOMAIN frames'[t] : ~NestedFrom(t, i)'
        BY <1>2, <1>3, <1>4 DEF NestedFrom
      <3> QED
        BY <1>4, <2>1, <3>1, <3>2
    <2>2. CASE u # t
      <3>1. frames'[u] = frames[u] /\ ctx'[u] = ctx[u] /\ Top(u)' = Top(u)
        BY <1>4, <1>5, <2>2 DEF Top
      <3> QED
        BY <1>9, <2>2, <3>1 DEF DepthIsNesting, NestedFrom
    <2> QED
      BY <2>1, <2>2
  <1>16. ClosedIsEmpty'
    BY <1>1, <1>5 DEF ClosedIsEmpty, NoOrphanedFailure
  <1>17. InheritedIsMade'
    BY <1>1, <1>5, <1>8 DEF InheritedIsMade
  <1>18. ThreadOwnsItsBlock'
    <2> SUFFICES ASSUME NEW u \in Threaded, Listening(u)'
                 PROVE  \E i \in DOMAIN frames'[u] : frames'[u][i].made = err'[u]
      BY DEF ThreadOwnsItsBlock, Owns
    <2>1. u \in Task
      BY SoftConstants
    <2>2. CASE u = t
      BY <1>3, <1>4, <1>5, <2>1, <2>2
    <2>3. CASE u # t
      BY <1>4, <1>5, <1>9, <2>1, <2>3 DEF ThreadOwnsItsBlock, Owns
    <2> QED
      BY <2>2, <2>3
  <1>19. HeldIsListening'
    BY <1>1, <1>5, <1>9 DEF HeldIsListening
  <1> QED
    BY <1>11, <1>12, <1>13, <1>14, <1>15, <1>16, <1>17, <1>18, <1>19

\* Starting a task, with or without a copy of the context.
LEMMA SpawnKeeps ==
  ASSUME IInv, TypeOK', ~CopiesContext, NEW t \in Task, NEW c \in Task, Spawn(t, c)
  PROVE  IInv'
  <1> USE DEF IInv
  <1>1. /\ t \in started /\ c \notin started /\ c # t
        /\ started' = started \cup {c}
        /\ UNCHANGED <<frames, state, failures, holds>>
    BY DEF Spawn, Running, blocks
  <1>2. frames[c] = <<>> /\ err[c] = NoBlock /\ holds[c] = Nothing
    BY <1>1 DEF UnstartedIsClean
  <1>3. /\ \A u \in Task \ {c} : err'[u] = err[u] /\ ctx'[u] = ctx[u]
        /\ \/ err'[c] = NoBlock
           \/ c \notin Threaded /\ err'[c] = err[t] /\ ctx'[c] = ctx[t]
    <2>1. CASE c \in Threaded
      <3>1. ctx' = ctx /\ err' = err
        BY <2>1, Zenon DEF Spawn, contexts
      <3> QED
        BY <1>2, <3>1
    <2>2. CASE c \notin Threaded
      <3>1. ctx' = [ctx EXCEPT ![c] = ctx[t]] /\ err' = [err EXCEPT ![c] = err[t]]
        BY <2>2, Zenon DEF Spawn
      <3> QED
        BY <2>2, <3>1 DEF TypeOK
    <2> QED
      BY <2>1, <2>2
  <1>4. \A u \in Task \ {c} : Listening(u)' <=> Listening(u)
    BY <1>1, <1>3 DEF Listening
  <1>5. Listening(c)' => c \notin Threaded /\ Listening(t) /\ ctx'[c] = ctx[t]
    BY <1>1, <1>3 DEF Listening
  <1>6. DOMAIN frames[c] = {}
    BY <1>2, StackShape
  <1>7. UnstartedIsClean'
    BY <1>1, <1>3 DEF UnstartedIsClean
  <1>8. OwnerIsCurrent'
    BY <1>1, <1>3, <1>6 DEF OwnerIsCurrent
  <1>9. OneOwner' /\ OpenHasOwner'
    BY <1>1 DEF OneOwner, OpenHasOwner, Owns
  <1>10. DepthIsNesting'
    <2> SUFFICES ASSUME NEW u \in Task, Listening(u)'
                 PROVE  /\ frames[u] = <<>> => ctx'[u] >= 1
                        /\ frames[u] # <<>> => ctx'[u] = After(Top(u))
                        /\ \A i \in DOMAIN frames[u] :
                             NestedFrom(u, i) =>
                               /\ frames[u][i].was >= 1
                               /\ i > 1 => frames[u][i].was = After(frames[u][i - 1])
      BY <1>1 DEF DepthIsNesting, After, Top, NestedFrom
    <2>1. CASE u = c
      BY <1>2, <1>5, <1>6, <2>1, ListeningIsInside
    <2>2. CASE u # c
      BY <1>3, <1>4, <2>2 DEF DepthIsNesting
    <2> QED
      BY <2>1, <2>2
  <1>11. ClosedIsEmpty'
    BY <1>1 DEF ClosedIsEmpty, NoOrphanedFailure
  <1>12. InheritedIsMade'
    BY <1>1, <1>3 DEF InheritedIsMade
  <1>13. ThreadOwnsItsBlock'
    <2> SUFFICES ASSUME NEW u \in Threaded, Listening(u)'
                 PROVE  \E i \in DOMAIN frames[u] : frames[u][i].made = err'[u]
      BY <1>1 DEF ThreadOwnsItsBlock, Owns
    <2>1. u \in Task /\ u # c
      BY <1>5, SoftConstants
    <2> QED
      BY <1>3, <1>4, <2>1 DEF ThreadOwnsItsBlock, Owns
  <1>14. HeldIsListening'
    BY <1>1, <1>2, <1>3, <1>4 DEF HeldIsListening
  <1> QED
    BY <1>7, <1>8, <1>9, <1>10, <1>11, <1>12, <1>13, <1>14

\* A failure is delivered, an append is made: only lists and appends change.
LEMMA DeliveryKeeps ==
  ASSUME IInv, TypeOK', UNCHANGED <<started, ctx, err, frames, state>>,
         \A b \in Block : state[b] # "open" => failures'[b] = failures[b],
         \A t \in Task : holds'[t] # Nothing =>
           t \in Threaded /\ Listening(t) /\ holds'[t][1] = err[t],
         \A t \in Task \ started : holds'[t] = holds[t]
  PROVE  IInv'
  <1> USE DEF IInv
  <1>1. \A t \in Task : Listening(t)' <=> Listening(t)
    BY DEF Listening
  <1>2. UnstartedIsClean'
    BY DEF UnstartedIsClean
  <1>3. OwnerIsCurrent' /\ OneOwner' /\ OpenHasOwner'
    BY DEF OwnerIsCurrent, OneOwner, OpenHasOwner, Owns
  <1>4. DepthIsNesting'
    BY <1>1 DEF DepthIsNesting, After, Top, NestedFrom
  <1>5. ClosedIsEmpty' /\ InheritedIsMade'
    BY DEF ClosedIsEmpty, NoOrphanedFailure, InheritedIsMade
  <1>6. ThreadOwnsItsBlock'
    BY <1>1, SoftConstants DEF ThreadOwnsItsBlock, Owns
  <1>7. HeldIsListening'
    BY <1>1 DEF HeldIsListening
  <1> QED
    BY <1>2, <1>3, <1>4, <1>5, <1>6, <1>7

LEMMA SoftDeliveryShape ==
  ASSUME IInv, NEW t \in started, holds[t] = Nothing, NEW f \in Failure,
         SoftDelivery(t, f) \/ RaiseIt(t, f)
  PROVE  /\ \A b \in Block : state[b] # "open" => failures'[b] = failures[b]
         /\ \A u \in Task : holds'[u] # Nothing =>
              u \in Threaded /\ Listening(u) /\ holds'[u][1] = err[u]
         /\ \A u \in Task \ started : holds'[u] = holds[u]
  <1> USE DEF IInv
  <1>1. CASE RaiseIt(t, f)
    BY <1>1 DEF RaiseIt, HeldIsListening
  <1>2. CASE ~RaiseIt(t, f)
    <2>1. Collecting(t) # NoBlock /\ CollectIt(t, f)
      BY <1>2 DEF SoftDelivery
    <2>2. Listening(t)
      BY <2>1 DEF Collecting
    <2>3. CASE t \in Threaded
      <3>1. holds' = [holds EXCEPT ![t] = <<err[t], f>>] /\ failures' = failures
        BY <2>1, <2>3 DEF CollectIt
      <3>2. \A u \in Task : holds'[u] = IF u = t THEN <<err[t], f>> ELSE holds[u]
        BY <3>1 DEF TypeOK
      <3> QED
        BY <2>2, <2>3, <3>1, <3>2 DEF HeldIsListening
    <2>4. CASE t \notin Threaded
      <3>1. failures' = [failures EXCEPT ![err[t]] = Append(@, f)] /\ holds' = holds
        BY <2>1, <2>4 DEF CollectIt
      <3> QED
        BY <2>2, <3>1 DEF HeldIsListening, Listening, TypeOK
    <2> QED
      BY <2>3, <2>4
  <1> QED
    BY <1>1, <1>2

LEMMA StepInv == ~CopiesContext /\ IInv /\ [Next]_vars => IInv'
  <1> SUFFICES ASSUME ~CopiesContext, IInv, [Next]_vars PROVE IInv'
    OBVIOUS
  <1>0. TypeOK /\ TypeOK'
    BY StepTypes DEF IInv
  <1>1. ASSUME NEW t \in Task, NEW c \in Task, Spawn(t, c) PROVE IInv'
    BY <1>0, <1>1, SpawnKeeps
  <1>2. ASSUME NEW t \in Task, NEW b \in Block, EnterFresh(t, b) PROVE IInv'
    BY <1>0, <1>2, EnterFreshKeeps
  <1>3. ASSUME NEW t \in Task, EnterNested(t) PROVE IInv'
    <2> DEFINE frame == SoftFrame(NoBlock, ctx[t])
    <2>1. frame \in Frame /\ frame.made = NoBlock /\ frame.was = ctx[t]
      BY <1>0, FrameTypes DEF SoftFrame, TypeOK
    <2>2. After(frame) = ctx[t] + 1
      BY DEF After, SoftFrame
    <2>3. /\ t \in started /\ Push(t, frame)
          /\ ctx' = [ctx EXCEPT ![t] = ctx[t] + 1]
          /\ UNCHANGED <<started, err, state, failures, holds>>
      BY <1>3 DEF EnterNested, Running, blocks
    <2> HIDE DEF frame
    <2>4. ctx' = [ctx EXCEPT ![t] = After(frame)]
      BY <2>2, <2>3
    <2> QED
      BY <1>0, <2>1, <2>3, <2>4, PushNestedKeeps
  <1>4. ASSUME NEW t \in Task, Close(t) PROVE IInv'
    <2>1. CASE Top(t).made # NoBlock
      BY <1>0, <1>4, <2>1, OwnerExitKeeps
    <2>2. CASE Top(t).made = NoBlock
      <3>1. frames[t] # <<>> /\ Top(t).what = "soft" /\ Pop(t) /\ Outermost(t)
        BY <1>4 DEF Close, Leaving
      <3>2. ~Listening(t)
        BY <2>2, <3>1, OutermostIsOwner
      <3>3. err[t] \in Block /\ state[err[t]] = "closed" /\ failures[err[t]] = <<>>
        BY <1>0, <3>1, <3>2
        DEF Outermost, Listening, IInv, InheritedIsMade, ClosedIsEmpty,
            NoOrphanedFailure, TypeOK
      <3>4. state' = state /\ failures' = failures
        BY <1>0, <1>4, <3>3 DEF Close, TypeOK
      <3>5. UNCHANGED <<started, err, holds>> /\ \A u \in Task \ {t} : ctx'[u] = ctx[u]
        BY <1>0, <1>4 DEF Close, TypeOK
      <3> QED
        BY <1>0, <2>2, <3>1, <3>2, <3>4, <3>5, PopNestedKeeps
    <2> QED
      BY <2>1, <2>2
  <1>5. ASSUME NEW t \in Task, LeaveNested(t) PROVE IInv'
    <2>1. /\ frames[t] # <<>> /\ Top(t).what = "soft" /\ Pop(t) /\ ~Outermost(t)
          /\ ctx' = [ctx EXCEPT ![t] = ctx[t] - 1]
          /\ UNCHANGED <<started, err, state, failures, holds>>
      BY <1>5 DEF LeaveNested, Leaving, blocks
    <2>2. Top(t).made = NoBlock
      BY <2>1, OutermostIsOwner
    <2>3. Listening(t) => ctx[t] = Top(t).was + 1
      BY <2>1, <2>2, OutermostIsOwner
    <2>4. Top(t).was \in Int
      BY <1>0, <2>1, StackShape, OutermostIsOwner DEF Frame
    <2>5. /\ ctx'[t] = ctx[t] - 1
          /\ \A u \in Task \ {t} : ctx'[u] = ctx[u]
      BY <1>0, <2>1 DEF TypeOK
    <2>6. Listening(t) => ctx'[t] = Top(t).was
      BY <2>3, <2>4, <2>5
    <2> QED
      BY <1>0, <2>1, <2>2, <2>5, <2>6, PopNestedKeeps
  <1>6. ASSUME NEW t \in Task, NEW l \in Label, EnterGroup(t, l) PROVE IInv'
    <2> DEFINE frame == GroupFrame(l, group[t], ctx[t])
    <2>1. frame \in Frame /\ frame.made = NoBlock /\ frame.was = ctx[t]
      BY <1>0, FrameTypes DEF GroupFrame, TypeOK
    <2>2. After(frame) = ctx[t]
      BY DEF After, GroupFrame
    <2>3. /\ t \in started /\ Push(t, frame)
          /\ UNCHANGED <<started, ctx, err, state, failures, holds>>
      BY <1>6 DEF EnterGroup, Running, blocks
    <2> HIDE DEF frame
    <2>4. ctx' = [ctx EXCEPT ![t] = After(frame)]
      BY <1>0, <2>2, <2>3 DEF TypeOK
    <2> QED
      BY <1>0, <2>1, <2>3, <2>4, PushNestedKeeps
  <1>7. ASSUME NEW t \in Task, LeaveGroup(t) PROVE IInv'
    <2>1. /\ frames[t] # <<>> /\ Top(t).what = "group" /\ Pop(t)
          /\ UNCHANGED <<started, ctx, err, state, failures, holds>>
      BY <1>7 DEF LeaveGroup, Leaving, blocks
    <2>2. Len(frames[t]) \in DOMAIN frames[t] /\ Top(t) = frames[t][Len(frames[t])]
      BY <1>0, <2>1, StackShape DEF Top
    <2>3. Top(t).made = NoBlock
      BY <2>1, <2>2 DEF IInv, OwnerIsCurrent
    <2>4. Listening(t) => ctx[t] = Top(t).was
      BY <2>1 DEF IInv, DepthIsNesting, After
    <2> QED
      BY <1>0, <2>1, <2>3, <2>4, PopNestedKeeps
  <1>8. ASSUME NEW t \in Task, NEW a \in Builder, MakeBuilder(t, a) PROVE IInv'
    BY <1>0, <1>8, DeliveryKeeps DEF MakeBuilder, contexts, blocks, IInv, HeldIsListening
  <1>9. ASSUME NEW t \in Task, NEW a \in Builder, NEW f \in Failure,
               AssertionFails(t, a, f)
        PROVE IInv'
    <2>1. t \in started /\ holds[t] = Nothing /\ (SoftDelivery(t, f) \/ RaiseIt(t, f))
      BY <1>9 DEF AssertionFails, Running
    <2>2. UNCHANGED <<started, ctx, err, frames, state>>
      BY <1>9 DEF AssertionFails, contexts
    <2> QED
      BY <1>0, <2>1, <2>2, SoftDeliveryShape, DeliveryKeeps
  <1>10. ASSUME NEW t \in Task, NEW f \in Failure, SoftFail(t, f) PROVE IInv'
    <2>1. t \in started /\ holds[t] = Nothing /\ SoftDelivery(t, f)
      BY <1>10 DEF SoftFail, Running
    <2>2. UNCHANGED <<started, ctx, err, frames, state>>
      BY <1>10 DEF SoftFail, contexts
    <2> QED
      BY <1>0, <2>1, <2>2, SoftDeliveryShape, DeliveryKeeps
  <1>11. ASSUME NEW t \in Task, AppendHeld(t) PROVE IInv'
    <2>1. /\ holds[t] # Nothing
          /\ failures' = [failures EXCEPT ![holds[t][1]] = Append(@, holds[t][2])]
          /\ holds' = [holds EXCEPT ![t] = Nothing]
          /\ UNCHANGED <<started, ctx, err, frames, state>>
      BY <1>11 DEF AppendHeld, contexts
    <2>2. state[holds[t][1]] = "open"
      BY <2>1 DEF IInv, HeldIsListening, Listening
    <2>3. \A b \in Block : state[b] # "open" => failures'[b] = failures[b]
      BY <1>0, <2>1, <2>2 DEF TypeOK
    <2>4. \A u \in Task : holds'[u] = IF u = t THEN Nothing ELSE holds[u]
      BY <1>0, <2>1 DEF TypeOK
    <2>5. t \in started
      BY <2>1 DEF IInv, UnstartedIsClean
    <2> QED
      BY <1>0, <2>1, <2>3, <2>4, <2>5, DeliveryKeeps DEF IInv, HeldIsListening
  <1>12. ASSUME NEW t \in Task, Throw(t) \/ Catch(t) PROVE IInv'
    BY <1>0, <1>12, DeliveryKeeps DEF Throw, Catch, contexts, blocks, IInv, HeldIsListening
  <1>13. CASE UNCHANGED vars
    BY <1>0, <1>13, DeliveryKeeps DEF vars, contexts, blocks, IInv, HeldIsListening
  <1> QED
    BY <1>1, <1>2, <1>3, <1>4, <1>5, <1>6, <1>7, <1>8, <1>9, <1>10, <1>11,
       <1>12, <1>13 DEF Next, Step

LEMMA InvariantHolds == ASSUME ~CopiesContext PROVE Spec => []IInv
  BY InitInv, StepInv, PTL DEF Spec

-----------------------------------------------------------------------------
(* What follows *)

\* No failure is ever left in a block nobody will report, as long as threads do
\* not collect into a block they inherited: the whole point of block.active.
THEOREM NoFailureOrphaned ==
  ASSUME ~CopiesContext PROVE Spec => []NoOrphanedFailure
  <1>1. IInv => NoOrphanedFailure
    BY DEF IInv, ClosedIsEmpty
  <1> QED
    BY <1>1, InvariantHolds, PTL

\* Every block that listens has exactly one with statement that will close it.
THEOREM OneOwnerPerBlock ==
  ASSUME ~CopiesContext PROVE Spec => []ListeningHasOneOwner
  <1>1. IInv => ListeningHasOneOwner
    <2> SUFFICES ASSUME IInv, NEW b \in Block
                 PROVE  state[b] = "open" <=>
                          \E t \in Task : \E i \in DOMAIN frames[t] :
                            /\ frames[t][i].made = b
                            /\ \A u \in Task : \A j \in DOMAIN frames[u] :
                                 frames[u][j].made = b => u = t /\ j = i
      BY DEF ListeningHasOneOwner, Owns
    <2>0. b # NoBlock
      BY SoftConstants
    <2>1. ASSUME NEW t \in Task, NEW i \in DOMAIN frames[t], frames[t][i].made = b,
                 NEW u \in Task, NEW j \in DOMAIN frames[u], frames[u][j].made = b
          PROVE  u = t /\ j = i
      <3>1. u = t
        BY <2>0, <2>1 DEF IInv, OneOwner
      <3> QED
        BY <2>0, <2>1, <3>1 DEF IInv, OwnerIsCurrent
    <2>2. ASSUME state[b] = "open"
          PROVE  \E t \in Task : \E i \in DOMAIN frames[t] : frames[t][i].made = b
      BY <2>2 DEF IInv, OpenHasOwner, Owns
    <2>3. ASSUME NEW t \in Task, NEW i \in DOMAIN frames[t], frames[t][i].made = b
          PROVE  state[b] = "open"
      BY <2>0, <2>3 DEF IInv, OwnerIsCurrent
    <2> QED
      BY <2>1, <2>2, <2>3
  <1> QED
    BY <1>1, InvariantHolds, PTL

\* Inside the statement that made a block, failures go to that block.
THEOREM OwnerCollects ==
  ASSUME ~CopiesContext PROVE Spec => []OwnerCollectsHere
  <1>1. IInv => OwnerCollectsHere
    <2> SUFFICES ASSUME IInv, NEW t \in Task, NEW i \in DOMAIN frames[t],
                        frames[t][i].made # NoBlock
                 PROVE  Collecting(t) = frames[t][i].made
      BY DEF OwnerCollectsHere
    <2>1. err[t] = frames[t][i].made /\ Listening(t)
      BY DEF IInv, OwnerIsCurrent, Listening
    <2>2. ctx[t] # 0
      BY <2>1, ListeningIsInside, StackShape DEF IInv
    <2> QED
      BY <2>1, <2>2 DEF Collecting
  <1> QED
    BY <1>1, InvariantHolds, PTL

-----------------------------------------------------------------------------
(* The ledger *)

\* A failure is in one place at most, of those it can be collected in, and it happened.
OneHome ==
  /\ \A b \in Block : Collected(b) \subseteq happened
  /\ \A b, c \in Block : b # c => Collected(b) \cap Collected(c) = {}
  /\ \A t \in Task : holds[t] # Nothing =>
       /\ holds[t][2] \in happened
       /\ \A b \in Block : holds[t][2] \notin Collected(b)
       /\ \A u \in Task \ {t} : holds[u] # Nothing => holds[u][2] # holds[t][2]

IsPending(f) ==
  \/ \E b \in Block : state[b] = "open" /\ f \in Collected(b)
  \/ \E t \in Task : holds[t] # Nothing /\ f = holds[t][2]

LEMMA PendingIs ==
  /\ \A f : f \in Pending <=> IsPending(f)
  /\ \A f : f \in Pending' <=> IsPending(f)'
  BY DEF Pending, IsPending

LEMMA InitHome == Init => OneHome /\ Ledger!Init
  <1> SUFFICES ASSUME Init PROVE OneHome /\ Ledger!Init
    OBVIOUS
  <1>1. \A b \in Block : Collected(b) = {}
    <2> SUFFICES ASSUME NEW b \in Block PROVE Collected(b) = {}
      OBVIOUS
    <2>1. failures[b] = <<>> /\ Len(<<>>) = 0 /\ 1 .. 0 = {}
      BY DEF Init
    <2> QED
      BY <2>1 DEF Collected
  <1>2. \A t \in Task : holds[t] = Nothing
    BY DEF Init
  <1>3. Pending = {}
    BY <1>1, <1>2, PendingIs DEF IsPending
  <1> QED
    BY <1>1, <1>2, <1>3 DEF OneHome, Ledger!Init, Init

\* A step that collects, holds and fails nothing.
LEMMA HomeKept ==
  ASSUME OneHome, UNCHANGED <<failures, holds, happened>>
  PROVE  OneHome'
  <1>1. \A b : Collected(b)' = Collected(b)
    BY DEF Collected
  <1> QED
    BY <1>1 DEF OneHome

\* ... and closes nothing, but may make a block, is not seen in the ledger.
LEMMA LedgerKept ==
  ASSUME IInv, UNCHANGED <<failures, holds, happened, told>>,
         \A b \in Block : state'[b] # state[b] => state[b] = "unmade"
  PROVE  UNCHANGED <<happened, Pending, told>>
  <1>1. \A b : Collected(b)' = Collected(b)
    BY DEF Collected
  <1>2. ASSUME NEW b \in Block, state[b] # "open" PROVE Collected(b) = {}
    <2>1. failures[b] = <<>>
      BY <1>2 DEF IInv, ClosedIsEmpty, NoOrphanedFailure
    <2> QED
      BY <2>1 DEF Collected
  <1>3. \A f : IsPending(f)' <=> IsPending(f)
    BY <1>1, <1>2 DEF IsPending
  <1>4. Pending' = Pending
    BY <1>3, PendingIs
  <1> QED
    BY <1>4

\* What a list holds after an append, and that nothing else changed.
LEMMA AppendHome ==
  ASSUME TypeOK, NEW b \in Block, NEW f \in Failure, failures' = [failures EXCEPT ![b] = Append(@, f)]
  PROVE  /\ Collected(b)' = Collected(b) \cup {f}
         /\ \A c \in Block \ {b} : Collected(c)' = Collected(c)
  <1>1. failures[b] \in Seq(Failure) /\ failures'[b] = Append(failures[b], f)
    BY DEF TypeOK
  <1>2. \A c \in Block \ {b} : failures'[c] = failures[c]
    BY DEF TypeOK
  <1> QED
    BY <1>1, <1>2, AppendCollects DEF Collected

\* A new failure is raised.
LEMMA RaiseLedger ==
  ASSUME OneHome, NEW f \in Failure, NEW t \in Task, RaiseIt(t, f),
         f \notin happened, happened' = happened \cup {f}, UNCHANGED state
  PROVE  OneHome' /\ Ledger!Raise(f)
  <1>0. UNCHANGED <<failures, holds>> /\ told' = told \cup {f}
    BY DEF RaiseIt
  <1>1. \A b : Collected(b)' = Collected(b)
    BY <1>0 DEF Collected
  <1>2. \A g : IsPending(g)' <=> IsPending(g)
    BY <1>0, <1>1 DEF IsPending
  <1>3. Pending' = Pending
    BY <1>2, PendingIs
  <1>4. OneHome'
    BY <1>0, <1>1 DEF OneHome
  <1> QED
    BY <1>0, <1>3, <1>4 DEF Ledger!Raise

\* A new failure is collected, or held by the thread that will.
LEMMA CollectLedger ==
  ASSUME IInv, OneHome, NEW f \in Failure, NEW t \in Task, CollectIt(t, f), Collecting(t) # NoBlock, holds[t] = Nothing,
         f \notin happened, happened' = happened \cup {f}, UNCHANGED state
  PROVE  OneHome' /\ Ledger!Collect(f)
  <1>0. err[t] \in Block
    BY DEF Collecting, Listening, IInv, TypeOK
  <1> PICK b \in Block : b = err[t]
    BY <1>0
  <1>1. b \in Block /\ state[b] = "open" /\ TypeOK
    BY DEF Collecting, Listening, IInv
  <1>2. told' = told
    BY DEF CollectIt
  <1>3. CASE t \in Threaded
    <2>1. holds' = [holds EXCEPT ![t] = <<b, f>>] /\ failures' = failures
      BY <1>3 DEF CollectIt
    <2>2. holds'[t] = <<b, f>> /\ holds'[t] # Nothing /\ holds'[t][2] = f /\ \A u \in Task \ {t} : holds'[u] = holds[u]
      BY <1>1, <2>1 DEF TypeOK, Nothing
    <2>3. \A c : Collected(c)' = Collected(c)
      BY <2>1 DEF Collected
    <2>4. \A g : IsPending(g)' <=> IsPending(g) \/ g = f
      BY <1>1, <2>2, <2>3 DEF IsPending
    <2>5. Pending' = Pending \cup {f}
      BY <2>4, PendingIs
    <2>6. OneHome'
      BY <2>2, <2>3 DEF OneHome
    <2> QED
      BY <1>2, <2>5, <2>6 DEF Ledger!Collect
  <1>4. CASE t \notin Threaded
    <2>1. holds' = holds /\ failures' = [failures EXCEPT ![b] = Append(@, f)]
      BY <1>4 DEF CollectIt
    <2>2. Collected(b)' = Collected(b) \cup {f} /\ \A c \in Block \ {b} : Collected(c)' = Collected(c)
      BY <1>1, <2>1, AppendHome
    <2>4. \A g : IsPending(g)' <=> IsPending(g) \/ g = f
      BY <1>1, <2>1, <2>2 DEF IsPending
    <2>5. Pending' = Pending \cup {f}
      BY <2>4, PendingIs
    <2>6. OneHome'
      BY <1>1, <2>1, <2>2 DEF OneHome
    <2> QED
      BY <1>2, <2>5, <2>6 DEF Ledger!Collect
  <1> QED
    BY <1>3, <1>4

\* Whatever fails is collected or raised.
LEMMA DeliveryLedger ==
  ASSUME IInv, OneHome, NEW f \in Failure, NEW t \in Task, SoftDelivery(t, f) \/ RaiseIt(t, f), holds[t] = Nothing,
         f \notin happened, happened' = happened \cup {f}, UNCHANGED state
  PROVE  OneHome' /\ Ledger!Next
  <1>1. CASE RaiseIt(t, f)
    BY <1>1, RaiseLedger DEF Ledger!Next
  <1>2. CASE ~RaiseIt(t, f)
    <2>1. Collecting(t) # NoBlock /\ CollectIt(t, f)
      BY <1>2 DEF SoftDelivery
    <2> QED
      BY <2>1, CollectLedger DEF Ledger!Next
  <1> QED
    BY <1>1, <1>2

\* The append changes where a failure waits, and not that it does.
LEMMA AppendLedger ==
  ASSUME IInv, OneHome, NEW t \in Task, AppendHeld(t)
  PROVE  OneHome' /\ UNCHANGED <<happened, Pending, told>>
  <1>a. holds[t] # Nothing /\ holds[t][1] \in Block /\ holds[t][2] \in Failure
    BY DEF AppendHeld, IInv, TypeOK
  <1> PICK b \in Block : b = holds[t][1]
    BY <1>a
  <1> PICK f \in Failure : f = holds[t][2]
    BY <1>a
  <1>0. /\ holds[t] # Nothing /\ failures' = [failures EXCEPT ![b] = Append(@, f)]
        /\ holds' = [holds EXCEPT ![t] = Nothing] /\ UNCHANGED <<state, happened, told>>
    BY DEF AppendHeld, history
  <1>1. b \in Block /\ f \in Failure /\ TypeOK
    BY DEF IInv
  <1>2. state[b] = "open"
    BY <1>0 DEF IInv, HeldIsListening, Listening
  <1>3. Collected(b)' = Collected(b) \cup {f} /\ \A c \in Block \ {b} : Collected(c)' = Collected(c)
    BY <1>0, <1>1, AppendHome
  <1>4. holds'[t] = Nothing /\ \A u \in Task \ {t} : holds'[u] = holds[u]
    BY <1>0, <1>1 DEF TypeOK
  <1>5. f = holds[t][2]
    OBVIOUS
  <1>6. \A g : IsPending(g)' <=> IsPending(g)
    BY <1>0, <1>1, <1>2, <1>3, <1>4, <1>5 DEF IsPending
  <1>7. Pending' = Pending
    BY <1>6, PendingIs
  <1>8. OneHome'
    BY <1>0, <1>1, <1>3, <1>4, <1>5 DEF OneHome
  <1> QED
    BY <1>0, <1>7, <1>8

\* The exit that closes a block reports what it collected, all of it and nothing else.
LEMMA CloseLedger ==
  ASSUME IInv, OneHome, NEW t \in Task, Close(t)
  PROVE  OneHome' /\ (Ledger!Next \/ UNCHANGED <<happened, Pending, told>>)
  <1>a. err[t] \in Block
    BY DEF Close, Outermost, IInv, TypeOK
  <1> PICK b \in Block : b = err[t]
    BY <1>a
  <1> DEFINE S == Collected(b)
  <1>0. /\ b \in Block /\ holds[t] = Nothing /\ frames[t] # <<>> /\ Top(t).what = "soft"
        /\ state' = [state EXCEPT ![b] = "closed"] /\ failures' = [failures EXCEPT ![b] = <<>>]
        /\ told' = told \cup S /\ UNCHANGED <<holds, happened>>
    BY DEF Close, Leaving, Outermost, IInv, TypeOK
  <1>1. TypeOK
    BY DEF IInv
  <1>2. Collected(b)' = {} /\ \A c \in Block \ {b} : Collected(c)' = Collected(c) /\ state'[c] = state[c]
    <2>1. failures'[b] = <<>> /\ \A c \in Block \ {b} : failures'[c] = failures[c] /\ state'[c] = state[c]
      BY <1>0, <1>1 DEF TypeOK
    <2>2. Len(<<>>) = 0 /\ 1 .. 0 = {}
      OBVIOUS
    <2> QED
      BY <2>1, <2>2 DEF Collected
  <1>3. state'[b] = "closed"
    BY <1>0, <1>1 DEF TypeOK
  <1>4. state[b] # "open" => S = {}
    <2>1. ASSUME state[b] # "open" PROVE failures[b] = <<>>
      BY <1>0, <2>1 DEF IInv, ClosedIsEmpty, NoOrphanedFailure
    <2> QED
      BY <2>1 DEF Collected
  <1>5. OneHome'
    BY <1>0, <1>2 DEF OneHome
  <1>6. \A g : IsPending(g)' <=> IsPending(g) /\ g \notin S
    BY <1>0, <1>2, <1>3, <1>4 DEF IsPending, OneHome
  <1>7. Pending' = Pending \ S
    BY <1>6, PendingIs
  <1>8. S \subseteq Pending
    BY <1>0, <1>4, PendingIs DEF IsPending
  <1> HIDE DEF S
  <1>9. CASE S = {}
    BY <1>0, <1>7, <1>9, <1>5
  <1>10. CASE S # {}
    <2>1. Ledger!Report(S)
      BY <1>0, <1>7 DEF Ledger!Report
    <2> QED
      BY <2>1, <1>8, <1>10, <1>5 DEF Ledger!Next
  <1> QED
    BY <1>9, <1>10

LEMMA StepLedger ==
  IInv /\ OneHome /\ [Next]_vars => OneHome' /\ (Ledger!Next \/ UNCHANGED <<happened, Pending, told>>)
  <1> SUFFICES ASSUME IInv, OneHome, [Next]_vars
               PROVE  OneHome' /\ (Ledger!Next \/ UNCHANGED <<happened, Pending, told>>)
    OBVIOUS
  <1> DEFINE Kept == OneHome' /\ (Ledger!Next \/ UNCHANGED <<happened, Pending, told>>)
  <1>0. ASSUME UNCHANGED <<failures, holds, happened, told>>,
               \A b \in Block : state'[b] # state[b] => state[b] = "unmade"
        PROVE  Kept
    BY <1>0, HomeKept, LedgerKept
  <1>1. ASSUME UNCHANGED <<failures, holds, happened, told, state>> PROVE Kept
    BY <1>0, <1>1
  <1>2. ASSUME NEW t \in Task, NEW b \in Block, EnterFresh(t, b) PROVE Kept
    <2>1. UNCHANGED <<failures, holds, happened, told>> /\ state[b] = "unmade" /\ state' = [state EXCEPT ![b] = "open"]
      BY <1>2 DEF EnterFresh, history
    <2>2. \A c \in Block : state'[c] # state[c] => c = b
      BY <2>1 DEF IInv, TypeOK
    <2> QED
      BY <1>0, <2>1, <2>2
  <1>3. ASSUME NEW t \in Task, Close(t) PROVE Kept
    BY <1>3, CloseLedger
  <1>4. ASSUME NEW t \in Task, AppendHeld(t) PROVE Kept
    BY <1>4, AppendLedger
  <1>5. ASSUME NEW t \in Task, NEW a \in Builder, NEW f \in Failure, AssertionFails(t, a, f) PROVE Kept
    <2>1. /\ f \notin happened /\ happened' = happened \cup {f} /\ UNCHANGED state /\ holds[t] = Nothing
          /\ SoftDelivery(t, f) \/ RaiseIt(t, f)
      BY <1>5 DEF AssertionFails, Running
    <2> QED
      BY <2>1, DeliveryLedger
  <1>6. ASSUME NEW t \in Task, NEW f \in Failure, SoftFail(t, f) PROVE Kept
    <2>1. f \notin happened /\ happened' = happened \cup {f} /\ UNCHANGED state /\ holds[t] = Nothing /\ SoftDelivery(t, f)
      BY <1>6 DEF SoftFail, Running
    <2> QED
      BY <2>1, DeliveryLedger
  <1> SUFFICES Kept
    OBVIOUS
  <1> HIDE DEF Kept
  <1>7. ASSUME NEW t \in Task, NEW c \in Task, Spawn(t, c) PROVE Kept
    BY <1>7, <1>1 DEF Spawn, blocks, history
  <1>8. ASSUME NEW t \in Task, EnterNested(t) \/ LeaveNested(t) \/ LeaveGroup(t) \/ Throw(t) \/ Catch(t) PROVE Kept
    BY <1>8, <1>1 DEF EnterNested, LeaveNested, LeaveGroup, Throw, Catch, blocks, history
  <1>9. ASSUME NEW t \in Task, NEW l \in Label, EnterGroup(t, l) PROVE Kept
    BY <1>9, <1>1 DEF EnterGroup, blocks, history
  <1>10. ASSUME NEW t \in Task, NEW a \in Builder, MakeBuilder(t, a) PROVE Kept
    BY <1>10, <1>1 DEF MakeBuilder, blocks, history
  <1>11. CASE UNCHANGED vars
    BY <1>11, <1>1 DEF vars, blocks, history
  <1> QED
    BY <1>2, <1>3, <1>4, <1>5, <1>6, <1>7, <1>8, <1>9, <1>10, <1>11 DEF Next, Step

\* A failed assertion is known, told once and never forgotten (soft_fail, _deliver, __exit__): the blocks implement the
\* ledger, as long as no thread collects into a block it inherited.
THEOREM BlocksKeepTheLedger ==
  ASSUME ~CopiesContext PROVE Spec => KeepsLedger
  <1>1. Init => OneHome /\ Ledger!Init
    BY InitHome
  <1>2. IInv /\ OneHome /\ [Next]_vars => OneHome' /\ [Ledger!Next]_Ledger!ledger
    BY StepLedger DEF Ledger!ledger
  <1> QED
    BY <1>1, <1>2, InvariantHolds, PTL DEF Spec, KeepsLedger, Ledger!Spec

-----------------------------------------------------------------------------
(* Labels *)

\* The label l is in effect inside the statements of s before the n-th, in a task that started under old.
InEffect(s, n, old, l) ==
  \/ l = old /\ \A j \in DOMAIN s : j < n => s[j].what # "group"
  \/ \E i \in DOMAIN s : /\ i < n /\ s[i].what = "group" /\ l = s[i].label
                         /\ \A j \in DOMAIN s : j < n /\ s[j].what = "group" => j <= i

\* What is in effect at a group() is what its token puts back.
LabelsHold ==
  \A t \in Task :
    /\ t \notin started => frames[t] = <<>>
    /\ InEffect(frames[t], Len(frames[t]) + 1, base[t], group[t])
    /\ \A i \in DOMAIN frames[t] : frames[t][i].what = "group" => InEffect(frames[t], i, base[t], frames[t][i].token)

\* It depends on the statements before the n-th only, and not on one that is no group().
LEMMA EffectCarries ==
  ASSUME NEW m \in Nat, NEW k \in Nat, NEW s, DOMAIN s = 1 .. m, NEW r, DOMAIN r = 1 .. k, NEW n \in Nat, n <= k + 1, n <= m + 1,
         \A i \in DOMAIN s : i < n => r[i] = s[i],
         NEW old, NEW l, InEffect(s, n, old, l)
  PROVE  /\ InEffect(r, n, old, l)
         /\ n \in DOMAIN r /\ r[n].what # "group" => InEffect(r, n + 1, old, l)
  BY DEF InEffect

LEMMA EffectShrinks ==
  ASSUME NEW m \in Nat, NEW s, DOMAIN s = 1 .. m, NEW n \in DOMAIN s, s[n].what # "group",
         NEW old, NEW l, InEffect(s, n + 1, old, l)
  PROVE  InEffect(s, n, old, l)
  BY DEF InEffect

LEMMA EffectOfGroup ==
  ASSUME NEW m \in Nat, NEW s, DOMAIN s = 1 .. m, NEW n \in DOMAIN s, s[n].what = "group", NEW old
  PROVE  InEffect(s, n + 1, old, s[n].label)
  BY DEF InEffect

LEMMA InitLabels == Init => LabelsHold
  <1> SUFFICES ASSUME Init, NEW t \in Task
               PROVE  /\ frames[t] = <<>>
                      /\ InEffect(frames[t], Len(frames[t]) + 1, base[t], group[t])
                      /\ DOMAIN frames[t] = {}
    BY DEF LabelsHold
  <1>1. frames[t] = <<>> /\ base[t] = group[t]
    BY DEF Init
  <1>2. DOMAIN frames[t] = {}
    BY <1>1
  <1> QED
    BY <1>1, <1>2 DEF InEffect

\* A statement more: a group() whose token is what was in effect, or one that leaves the label alone.
LEMMA PushLabels ==
  ASSUME TypeOK, LabelsHold, NEW t \in started, NEW frame \in Frame, Push(t, frame), UNCHANGED <<started, base>>,
         \/ frame.what = "group" /\ frame.token = group[t] /\ group' = [group EXCEPT ![t] = frame.label]
         \/ frame.what # "group" /\ UNCHANGED group
  PROVE  LabelsHold'
  <1>0. t \in Task
    BY DEF TypeOK
  <1> DEFINE n == Len(frames[t])
             s == frames[t]
             r == frames'[t]
  <1>1. /\ \A u \in Task \ {t} : frames'[u] = frames[u]
        /\ DOMAIN r = 1 .. n + 1 /\ DOMAIN s = 1 .. n /\ n \in Nat /\ Len(r) = n + 1
        /\ \A i \in DOMAIN s : r[i] = s[i]
        /\ r[n + 1] = frame
    BY <1>0, PushShape, StackShape
  <1>2. group'[t] = (IF frame.what = "group" THEN frame.label ELSE group[t]) /\ \A u \in Task \ {t} : group'[u] = group[u]
    BY <1>0 DEF TypeOK
  <1>3. /\ InEffect(s, n + 1, base[t], group[t])
        /\ \A i \in DOMAIN s : s[i].what = "group" => InEffect(s, i, base[t], s[i].token)
    BY <1>0 DEF LabelsHold
  <1> HIDE DEF n, s, r
  <1>4. InEffect(r, n + 1, base[t], group[t]) /\ (frame.what # "group" => InEffect(r, n + 2, base[t], group[t]))
    <2>1. n + 1 \in Nat /\ n + 1 <= n + 2 /\ n + 1 \in DOMAIN r /\ n + 1 \in Nat /\ n + 2 = (n + 1) + 1
      BY <1>1
    <2>2. \A i \in DOMAIN s : i < n + 1 => r[i] = s[i]
      BY <1>1
    <2>3. InEffect(r, n + 1, base[t], group[t]) /\ (r[n + 1].what # "group" => InEffect(r, (n + 1) + 1, base[t], group[t]))
      BY <1>1, <1>3, <2>1, <2>2, EffectCarries
    <2> QED
      BY <1>1, <2>1, <2>3
  <1>5. frame.what = "group" => InEffect(r, n + 2, base[t], frame.label)
    <2>1. n + 1 \in Nat /\ n + 1 \in DOMAIN r /\ n + 2 = (n + 1) + 1
      BY <1>1
    <2>2. frame.what = "group" => InEffect(r, (n + 1) + 1, base[t], r[n + 1].label)
      BY <1>1, <2>1, EffectOfGroup
    <2> QED
      BY <1>1, <2>1, <2>2
  <1>6. InEffect(r, Len(r) + 1, base[t], group'[t])
    <2>1. Len(r) + 1 = n + 2
      BY <1>1
    <2> QED
      BY <1>2, <1>4, <1>5, <2>1
  <1>7. ASSUME NEW i \in DOMAIN r, r[i].what = "group" PROVE InEffect(r, i, base[t], r[i].token)
    <2>1. CASE i = n + 1
      BY <1>1, <1>4, <1>7, <2>1, <1>2
    <2>2. CASE i # n + 1
      <3>1. i \in DOMAIN s /\ i \in Nat /\ i <= n + 1 /\ i <= n + 2 /\ r[i] = s[i]
        BY <1>1, <2>2
      <3>2. InEffect(s, i, base[t], r[i].token) /\ \A j \in DOMAIN s : j < i => r[j] = s[j]
        BY <1>1, <1>3, <1>7, <3>1
      <3> QED
        BY <1>1, <3>1, <3>2, EffectCarries
    <2> QED
      BY <2>1, <2>2
  <1> QED
    BY <1>0, <1>1, <1>2, <1>6, <1>7 DEF LabelsHold, s, r

\* A statement less, whose token is put back if it was a group().
LEMMA PopLabels ==
  ASSUME TypeOK, LabelsHold, NEW t \in Task, frames[t] # <<>>, Pop(t), UNCHANGED <<started, base>>,
         \/ Top(t).what = "group" /\ group' = [group EXCEPT ![t] = Top(t).token]
         \/ Top(t).what # "group" /\ UNCHANGED group
  PROVE  LabelsHold'
  <1> DEFINE n == Len(frames[t])
             s == frames[t]
             r == frames'[t]
             top == Top(t)
  <1>1. /\ \A u \in Task \ {t} : frames'[u] = frames[u]
        /\ n \in Nat /\ n >= 1 /\ DOMAIN s = 1 .. n /\ DOMAIN r = 1 .. n - 1 /\ Len(r) = n - 1 /\ n - 1 \in Nat
        /\ \A i \in DOMAIN r : r[i] = s[i]
    BY PopShape, StackShape
  <1>2. n \in DOMAIN s /\ top = s[n] /\ t \in started
    BY <1>1 DEF Top, LabelsHold
  <1>3. group'[t] = (IF top.what = "group" THEN top.token ELSE group[t]) /\ \A u \in Task \ {t} : group'[u] = group[u]
    BY DEF TypeOK
  <1>4. /\ InEffect(s, n + 1, base[t], group[t])
        /\ \A i \in DOMAIN s : s[i].what = "group" => InEffect(s, i, base[t], s[i].token)
    BY DEF LabelsHold
  <1> HIDE DEF n, s, r, top
  <1>5. InEffect(s, n, base[t], group'[t])
    <2>1. CASE top.what = "group"
      BY <1>2, <1>3, <1>4, <2>1
    <2>2. CASE top.what # "group"
      BY <1>1, <1>2, <1>3, <1>4, <2>2, EffectShrinks
    <2> QED
      BY <2>1, <2>2
  <1>6. ASSUME NEW i \in 1 .. n, NEW l, InEffect(s, i, base[t], l) PROVE InEffect(r, i, base[t], l)
    <2>1. i \in Nat /\ i <= n - 1 + 1 /\ i <= n + 1 /\ \A j \in DOMAIN s : j < i => r[j] = s[j]
      BY <1>1
    <2> QED
      BY <1>1, <1>6, <2>1, EffectCarries
  <1>7. InEffect(r, Len(r) + 1, base[t], group'[t])
    <2>1. Len(r) + 1 = n /\ n \in 1 .. n
      BY <1>1
    <2> QED
      BY <1>5, <1>6, <2>1
  <1>8. ASSUME NEW i \in DOMAIN r, r[i].what = "group" PROVE InEffect(r, i, base[t], r[i].token)
    <2>1. i \in 1 .. n /\ i \in DOMAIN s /\ r[i] = s[i]
      BY <1>1
    <2> QED
      BY <1>4, <1>6, <1>8, <2>1
  <1> QED
    BY <1>1, <1>2, <1>3, <1>7, <1>8 DEF LabelsHold, s, r

LEMMA SameLabels ==
  ASSUME LabelsHold, UNCHANGED <<started, frames, group, base>>
  PROVE  LabelsHold'
  BY DEF LabelsHold

LEMMA StepLabels == TypeOK /\ LabelsHold /\ [Next]_vars => LabelsHold'
  <1> SUFFICES ASSUME TypeOK, LabelsHold, [Next]_vars PROVE LabelsHold'
    OBVIOUS
  <1>1. ASSUME NEW t \in Task, NEW c \in Task, Spawn(t, c) PROVE LabelsHold'
    <2>0. c \notin started /\ started' = started \cup {c} /\ frames' = frames
      BY <1>1 DEF Spawn
    <2>1. frames[c] = <<>> /\ DOMAIN frames[c] = {}
      BY <2>0 DEF LabelsHold
    <2>2. /\ \A u \in Task \ {c} : base'[u] = base[u] /\ group'[u] = group[u]
          /\ base'[c] = group'[c] \/ UNCHANGED <<base, group>>
      <3>1. CASE c \in Threaded /\ ~CopiesContext
        BY <1>1, <3>1 DEF Spawn, contexts
      <3>2. CASE ~(c \in Threaded /\ ~CopiesContext)
        <4>1. group' = [group EXCEPT ![c] = group[t]] /\ base' = [base EXCEPT ![c] = group[t]]
          BY <1>1, <3>2, Zenon DEF Spawn
        <4> QED
          BY <4>1 DEF TypeOK
      <3> QED
        BY <3>1, <3>2
    <2>3. InEffect(frames[c], Len(frames[c]) + 1, base'[c], group'[c])
      BY <2>1, <2>2 DEF InEffect, LabelsHold
    <2> QED
      BY <2>0, <2>1, <2>2, <2>3 DEF LabelsHold
  <1>2. ASSUME NEW t \in Task, NEW b \in Block, EnterFresh(t, b) PROVE LabelsHold'
    <2>1. SoftFrame(b, 0) \in Frame /\ SoftFrame(b, 0).what # "group"
      BY FrameTypes DEF SoftFrame
    <2> QED
      BY <1>2, <2>1, PushLabels DEF EnterFresh, Running
  <1>3. ASSUME NEW t \in Task, EnterNested(t) PROVE LabelsHold'
    <2>1. SoftFrame(NoBlock, ctx[t]) \in Frame /\ SoftFrame(NoBlock, ctx[t]).what # "group"
      BY FrameTypes DEF SoftFrame, TypeOK
    <2> QED
      BY <1>3, <2>1, PushLabels DEF EnterNested, Running
  <1>4. ASSUME NEW t \in Task, Close(t) PROVE LabelsHold'
    BY <1>4, PopLabels DEF Close, Leaving
  <1>5. ASSUME NEW t \in Task, LeaveNested(t) PROVE LabelsHold'
    BY <1>5, PopLabels DEF LeaveNested, Leaving
  <1>6. ASSUME NEW t \in Task, NEW l \in Label, EnterGroup(t, l) PROVE LabelsHold'
    <2> DEFINE frame == GroupFrame(l, group[t], ctx[t])
    <2>1. frame \in Frame /\ frame.what = "group" /\ frame.token = group[t] /\ frame.label = l
      BY FrameTypes DEF GroupFrame, TypeOK
    <2>2. Push(t, frame) /\ group' = [group EXCEPT ![t] = l] /\ t \in started /\ UNCHANGED <<started, base>>
      BY <1>6 DEF EnterGroup, Running
    <2> HIDE DEF frame
    <2> QED
      BY <2>1, <2>2, PushLabels
  <1>7. ASSUME NEW t \in Task, LeaveGroup(t) PROVE LabelsHold'
    BY <1>7, PopLabels DEF LeaveGroup, Leaving
  <1>8. ASSUME NEW t \in Task, NEW a \in Builder, NEW f \in Failure, AssertionFails(t, a, f) PROVE LabelsHold'
    BY <1>8, SameLabels DEF AssertionFails, contexts
  <1>9. ASSUME NEW t \in Task, NEW f \in Failure, SoftFail(t, f) PROVE LabelsHold'
    BY <1>9, SameLabels DEF SoftFail, contexts
  <1>10. ASSUME NEW t \in Task, NEW a \in Builder, MakeBuilder(t, a) PROVE LabelsHold'
    BY <1>10, SameLabels DEF MakeBuilder, contexts
  <1>11. ASSUME NEW t \in Task, AppendHeld(t) \/ Throw(t) \/ Catch(t) PROVE LabelsHold'
    BY <1>11, SameLabels DEF AppendHeld, Throw, Catch, contexts
  <1>12. CASE UNCHANGED vars
    BY <1>12, SameLabels DEF vars, contexts
  <1> QED
    BY <1>1, <1>2, <1>3, <1>4, <1>5, <1>6, <1>7, <1>8, <1>9, <1>10, <1>11, <1>12 DEF Next, Step

\* The label a failure is filed under is that of the innermost group() around it (_Group.__enter__, __exit__), or the
\* one its task was started under, in threads that copy a context too.
THEOREM LabelIsInnermost == Spec => []GroupInEffect
  <1>1. TypeOK /\ LabelsHold => GroupInEffect
    <2> SUFFICES ASSUME TypeOK, LabelsHold, NEW t \in Task
                 PROVE  IF GroupFrames(t) = {} THEN group[t] = base[t]
                        ELSE \E i \in GroupFrames(t) :
                               (\A j \in GroupFrames(t) : j <= i) /\ group[t] = frames[t][i].label
      BY DEF GroupInEffect
    <2>1. InEffect(frames[t], Len(frames[t]) + 1, base[t], group[t])
      BY DEF LabelsHold
    <2>2. Len(frames[t]) \in Nat /\ DOMAIN frames[t] = 1 .. Len(frames[t])
      BY StackShape
    <2>3. \A j \in DOMAIN frames[t] : j < Len(frames[t]) + 1
      BY <2>2
    <2> QED
      BY <2>1, <2>3 DEF InEffect, GroupFrames
  <1> QED
    BY <1>1, InitTypes, StepTypes, InitLabels, StepLabels, PTL DEF Spec

=============================================================================
