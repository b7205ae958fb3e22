------------------------ MODULE SnapshotStore_proofs ------------------------
(***************************************************************************)
(* For any workers, keys, values and sessions: the lock file excludes,     *)
(* every call takes effect at one instant though the file is read and      *)
(* replaced in steps and processes die between them, and a session that    *)
(* prunes keeps what was used by the workers that ended.                   *)
(***************************************************************************)
EXTENDS SnapshotStore, TLAPS

Places == {"idle", "waiting", "locked", "inside", "resumed", "writing", "releasing", "dead", "ended", "done"}

Answers == {"none", "asked", "timed out", "refused", "created", "updated", "failed", "passed", "died"}

Recorded == [Key -> Value \cup {Absent}]

Types ==
  /\ mode \in Mode
  /\ store \in Recorded
  /\ pc \in [Proc -> Places]
  /\ call \in [Worker -> Call]
  /\ snap \in [Proc -> Recorded]
  /\ verdict \in [Worker -> Answers]
  /\ answer \in [Worker -> Answers]
  /\ touched \in [Worker -> SUBSET Key]
  /\ merged \subseteq Key /\ orphans \subseteq Key

\* The file is what whoever is about to replace it has loaded.
NothingMissed == \A p \in Proc : pc[p] = "writing" => snap[p] = store

\* A worker in a call has no answer yet, and only then.
AskedInCall ==
  \A w \in Worker :
    /\ (answer[w] = "asked") <=> pc[w] \notin {"idle", "dead", "ended", "done"}
    /\ pc[w] = "releasing" => verdict[w] \notin {"asked", "none"}
    /\ pc[w] # "done"

\* A value is about to be written where there is none, or over another on an update run, and never under not_.
MayWrite ==
  \A w \in Worker : pc[w] = "writing" =>
    /\ call[w].fits /\ ~call[w].negated
    /\ \/ verdict[w] = "created" /\ store[call[w].key] = Absent /\ ~mode.ci
       \/ verdict[w] = "updated" /\ store[call[w].key] # Absent /\ mode.update /\ store[call[w].key] # call[w].value

\* The controller prunes on full update runs, when the workers are gone, and nothing that those who ended touched.
PruningIsDue ==
  /\ pc[Controller] \in {"idle", "waiting", "locked", "writing", "done"}
  /\ pc[Controller] # "idle" => \A w \in Worker : pc[w] \in {"ended", "dead"}
  /\ pc[Controller] \in {"waiting", "locked", "writing"} =>
       mode.update /\ mode.full /\ orphans \cap merged = {}
  /\ \A w \in Worker : pc[w] = "ended" => touched[w] \subseteq merged

IInv == Types /\ LockIsOwn /\ NothingMissed /\ AskedInCall /\ MayWrite /\ PruningIsDue

-----------------------------------------------------------------------------

LEMMA InitInv == Init => IInv
<1> SUFFICES ASSUME Init PROVE IInv
  OBVIOUS
<1>1. (CHOOSE c \in Call : TRUE) \in Call
  <2>1. \E c \in Call : TRUE
    <3>1. PICK k \in Key, v \in Value : TRUE
      BY SnapshotConstants
    <3>2. [key |-> k, value |-> v, fits |-> TRUE, negated |-> TRUE] \in Call
      BY DEF Call
    <3> QED BY <3>2
  <2> QED BY <2>1
<1>2. Types
  <2>1. call \in [Worker -> Call]
    <3> DEFINE some == CHOOSE c \in Call : TRUE
    <3>1. some \in Call /\ call \in [Worker -> {some}]
      BY <1>1 DEF Init
    <3> HIDE DEF some
    <3> QED BY <3>1
  <2>2. pc \in [Proc -> Places] /\ snap \in [Proc -> Recorded]
    BY DEF Init, Places, Recorded, Unread
  <2> QED BY <2>1, <2>2 DEF Init, Types, Recorded, Answers
<1>3. LockIsOwn /\ NothingMissed /\ MayWrite
  BY DEF Init, LockIsOwn, NothingMissed, MayWrite, Proc
<1>4. AskedInCall /\ PruningIsDue
  BY SnapshotConstants DEF Init, AskedInCall, PruningIsDue, Proc
<1> QED BY <1>2, <1>3, <1>4 DEF IInv

LEMMA StepInv == IInv /\ [Next]_vars => IInv'
<1> SUFFICES ASSUME IInv, [Next]_vars PROVE IInv'
  OBVIOUS
<1> USE SnapshotConstants DEF IInv, Proc, Go
<1>1. ASSUME NEW w \in Worker, NEW c \in Call, Start(w, c) PROVE IInv'
  <2>1. Types'
    BY <1>1 DEF Start, Call, Places, Answers, Types
  <2>2. LockIsOwn'
    BY <1>1 DEF Start, Types, LockIsOwn
  <2>3. NothingMissed'
    BY <1>1 DEF Start, Types, LockIsOwn, NothingMissed
  <2>4. AskedInCall'
    BY <1>1 DEF Start, Types, AskedInCall, MayWrite
  <2>5. MayWrite'
    BY <1>1 DEF Start, Types, LockIsOwn, NothingMissed, MayWrite, PruningIsDue
  <2>6. PruningIsDue'
    BY <1>1 DEF Start, Types, PruningIsDue
  <2> QED BY <2>1, <2>2, <2>3, <2>4, <2>5, <2>6
<1>2. ASSUME NEW p \in Proc, Acquire(p) PROVE IInv'
  <2>1. Types'
    BY <1>2 DEF Acquire, session, Places, Answers, Types
  <2>2. LockIsOwn'
    BY <1>2 DEF Acquire, session, Types, LockIsOwn
  <2>3. NothingMissed'
    BY <1>2 DEF Acquire, session, Types, LockIsOwn, NothingMissed
  <2>4. AskedInCall'
    BY <1>2 DEF Acquire, session, Types, AskedInCall, MayWrite
  <2>5. MayWrite'
    BY <1>2 DEF Acquire, session, Types, LockIsOwn, NothingMissed, MayWrite, PruningIsDue
  <2>6. PruningIsDue'
    BY <1>2 DEF Acquire, session, Types, PruningIsDue
  <2> QED BY <2>1, <2>2, <2>3, <2>4, <2>5, <2>6
<1>3. ASSUME NEW p \in Proc, TimesOut(p) PROVE IInv'
  <2>1. Types'
    BY <1>3 DEF TimesOut, session, Places, Answers, Types
  <2>2. LockIsOwn'
    BY <1>3 DEF TimesOut, session, Types, LockIsOwn
  <2>3. NothingMissed'
    BY <1>3 DEF TimesOut, session, Types, LockIsOwn, NothingMissed
  <2>4. AskedInCall'
    BY <1>3 DEF TimesOut, session, Types, AskedInCall, MayWrite
  <2>5. MayWrite'
    BY <1>3 DEF TimesOut, session, Types, LockIsOwn, NothingMissed, MayWrite, PruningIsDue
  <2>6. PruningIsDue'
    BY <1>3 DEF TimesOut, session, Types, PruningIsDue
  <2> QED BY <2>1, <2>2, <2>3, <2>4, <2>5, <2>6
<1>4. ASSUME NEW w \in Worker, LoadsNothing(w) PROVE IInv'
  <2>1. Types'
    BY <1>4 DEF LoadsNothing, Loads, Decides, Forbidden, session, Places, Answers, Types
  <2>2. LockIsOwn'
    BY <1>4 DEF LoadsNothing, Loads, Decides, Forbidden, session, Types, LockIsOwn
  <2>3. NothingMissed'
    BY <1>4 DEF LoadsNothing, Loads, Decides, Forbidden, session, Types, LockIsOwn, NothingMissed
  <2>4. AskedInCall'
    BY <1>4 DEF LoadsNothing, Loads, Decides, Forbidden, session, Types, AskedInCall, MayWrite
  <2>5. MayWrite'
    BY <1>4 DEF LoadsNothing, Loads, Decides, Forbidden, session, Types, LockIsOwn, NothingMissed, MayWrite, PruningIsDue
  <2>6. PruningIsDue'
    BY <1>4 DEF LoadsNothing, Loads, Decides, Forbidden, session, Types, PruningIsDue
  <2> QED BY <2>1, <2>2, <2>3, <2>4, <2>5, <2>6
<1>5. ASSUME NEW w \in Worker, LoadsRecord(w) PROVE IInv'
  <2>1. Types'
    BY <1>5 DEF LoadsRecord, Loads, Decides, Compared, Rewriting, session, Places, Answers, Types
  <2>2. LockIsOwn'
    BY <1>5 DEF LoadsRecord, Loads, Decides, Compared, Rewriting, session, Types, LockIsOwn
  <2>3. NothingMissed'
    BY <1>5 DEF LoadsRecord, Loads, Decides, Compared, Rewriting, session, Types, LockIsOwn, NothingMissed
  <2>4. AskedInCall'
    BY <1>5 DEF LoadsRecord, Loads, Decides, Compared, Rewriting, session, Types, AskedInCall, MayWrite
  <2>5. MayWrite'
    BY <1>5 DEF LoadsRecord, Loads, Decides, Compared, Rewriting, session, Types, LockIsOwn, NothingMissed, MayWrite, PruningIsDue
  <2>6. PruningIsDue'
    BY <1>5 DEF LoadsRecord, Loads, Decides, Compared, Rewriting, session, Types, PruningIsDue
  <2> QED BY <2>1, <2>2, <2>3, <2>4, <2>5, <2>6
<1>6. ASSUME NEW w \in Worker, NEW key \in Key, StartsInside(w, key) PROVE IInv'
  <2>1. Types'
    BY <1>6 DEF StartsInside, Places, Answers, Types
  <2>2. LockIsOwn'
    BY <1>6 DEF StartsInside, Types, LockIsOwn
  <2>3. NothingMissed'
    BY <1>6 DEF StartsInside, Types, LockIsOwn, NothingMissed
  <2>4. AskedInCall'
    BY <1>6 DEF StartsInside, Types, AskedInCall, MayWrite
  <2>5. MayWrite'
    BY <1>6 DEF StartsInside, Types, LockIsOwn, NothingMissed, MayWrite, PruningIsDue
  <2>6. PruningIsDue'
    BY <1>6 DEF StartsInside, Types, PruningIsDue
  <2> QED BY <2>1, <2>2, <2>3, <2>4, <2>5, <2>6
<1>7. ASSUME NEW w \in Worker, InsideTimesOut(w) PROVE IInv'
  <2>1. Types'
    BY <1>7 DEF InsideTimesOut, Decides, session, Places, Answers, Types
  <2>2. LockIsOwn'
    BY <1>7 DEF InsideTimesOut, Decides, session, Types, LockIsOwn
  <2>3. NothingMissed'
    BY <1>7 DEF InsideTimesOut, Decides, session, Types, LockIsOwn, NothingMissed
  <2>4. AskedInCall'
    BY <1>7 DEF InsideTimesOut, Decides, session, Types, AskedInCall, MayWrite
  <2>5. MayWrite'
    BY <1>7 DEF InsideTimesOut, Decides, session, Types, LockIsOwn, NothingMissed, MayWrite, PruningIsDue
  <2>6. PruningIsDue'
    BY <1>7 DEF InsideTimesOut, Decides, session, Types, PruningIsDue
  <2> QED BY <2>1, <2>2, <2>3, <2>4, <2>5, <2>6
<1>8. ASSUME NEW w \in Worker, Saves(w) PROVE IInv'
  <2>1. Types'
    BY <1>8 DEF Saves, session, Places, Recorded, Call, Answers, Types
  <2>2. LockIsOwn'
    BY <1>8 DEF Saves, session, Types, LockIsOwn
  <2>3. NothingMissed'
    BY <1>8 DEF Saves, session, Types, LockIsOwn, NothingMissed
  <2>4. AskedInCall'
    BY <1>8 DEF Saves, session, Types, AskedInCall, MayWrite
  <2>5. MayWrite'
    BY <1>8 DEF Saves, session, Types, LockIsOwn, NothingMissed, MayWrite, PruningIsDue
  <2>6. PruningIsDue'
    BY <1>8 DEF Saves, session, Types, PruningIsDue
  <2> QED BY <2>1, <2>2, <2>3, <2>4, <2>5, <2>6
<1>9. ASSUME NEW w \in Worker, Releases(w) PROVE IInv'
  <2>1. Types'
    BY <1>9 DEF Releases, Unread, session, Places, Recorded, Answers, Types
  <2>2. LockIsOwn'
    BY <1>9 DEF Releases, Unread, session, Types, LockIsOwn
  <2>3. NothingMissed'
    BY <1>9 DEF Releases, Unread, session, Types, LockIsOwn, NothingMissed
  <2>4. AskedInCall'
    BY <1>9 DEF Releases, Unread, session, Types, AskedInCall, MayWrite
  <2>5. MayWrite'
    BY <1>9 DEF Releases, Unread, session, Types, LockIsOwn, NothingMissed, MayWrite, PruningIsDue
  <2>6. PruningIsDue'
    BY <1>9 DEF Releases, Unread, session, Types, PruningIsDue
  <2> QED BY <2>1, <2>2, <2>3, <2>4, <2>5, <2>6
<1>10. ASSUME NEW w \in Worker, Dies(w) PROVE IInv'
  <2>1. Types'
    BY <1>10 DEF Dies, session, Places, Answers, Types
  <2>2. LockIsOwn'
    BY <1>10 DEF Dies, session, Types, LockIsOwn
  <2>3. NothingMissed'
    BY <1>10 DEF Dies, session, Types, LockIsOwn, NothingMissed
  <2>4. AskedInCall'
    BY <1>10 DEF Dies, session, Types, AskedInCall, MayWrite
  <2>5. MayWrite'
    BY <1>10 DEF Dies, session, Types, LockIsOwn, NothingMissed, MayWrite, PruningIsDue
  <2>6. PruningIsDue'
    BY <1>10 DEF Dies, session, Types, PruningIsDue
  <2> QED BY <2>1, <2>2, <2>3, <2>4, <2>5, <2>6
<1>11. ASSUME NEW w \in Worker, Ends(w) PROVE IInv'
  <2>1. Types'
    BY <1>11 DEF Ends, Places, Answers, Types
  <2>2. LockIsOwn'
    BY <1>11 DEF Ends, Types, LockIsOwn
  <2>3. NothingMissed'
    BY <1>11 DEF Ends, Types, LockIsOwn, NothingMissed
  <2>4. AskedInCall'
    BY <1>11 DEF Ends, Types, AskedInCall, MayWrite
  <2>5. MayWrite'
    BY <1>11 DEF Ends, Types, LockIsOwn, NothingMissed, MayWrite, PruningIsDue
  <2>6. PruningIsDue'
    BY <1>11 DEF Ends, Types, PruningIsDue
  <2> QED BY <2>1, <2>2, <2>3, <2>4, <2>5, <2>6
<1>12. ASSUME FindsOrphans PROVE IInv'
  <2>1. Types'
    BY <1>12 DEF FindsOrphans, Places, Answers, Types
  <2>2. LockIsOwn'
    BY <1>12 DEF FindsOrphans, Types, LockIsOwn
  <2>3. NothingMissed'
    BY <1>12 DEF FindsOrphans, Types, LockIsOwn, NothingMissed
  <2>4. AskedInCall'
    BY <1>12 DEF FindsOrphans, Types, AskedInCall, MayWrite
  <2>5. MayWrite'
    BY <1>12 DEF FindsOrphans, Types, LockIsOwn, NothingMissed, MayWrite, PruningIsDue
  <2>6. PruningIsDue'
    BY <1>12 DEF FindsOrphans, Types, PruningIsDue
  <2> QED BY <2>1, <2>2, <2>3, <2>4, <2>5, <2>6
<1>13. ASSUME LoadsForPrune PROVE IInv'
  <2>1. Types'
    BY <1>13 DEF LoadsForPrune, session, Places, Answers, Types
  <2>2. LockIsOwn'
    BY <1>13 DEF LoadsForPrune, session, Types, LockIsOwn
  <2>3. NothingMissed'
    BY <1>13 DEF LoadsForPrune, session, Types, LockIsOwn, NothingMissed
  <2>4. AskedInCall'
    BY <1>13 DEF LoadsForPrune, session, Types, AskedInCall, MayWrite
  <2>5. MayWrite'
    BY <1>13 DEF LoadsForPrune, session, Types, LockIsOwn, NothingMissed, MayWrite, PruningIsDue
  <2>6. PruningIsDue'
    BY <1>13 DEF LoadsForPrune, session, Types, PruningIsDue
  <2> QED BY <2>1, <2>2, <2>3, <2>4, <2>5, <2>6
<1>14. ASSUME Prunes PROVE IInv'
  <2>1. Types'
    <3>1. \A k \in Key : snap[Controller][k] \in Value \cup {Absent}
      BY DEF Types, Recorded
    <3>2. store' \in Recorded
      BY <1>14, <3>1 DEF Prunes, Recorded
    <3> QED BY <1>14, <3>2 DEF Prunes, session, Places, Types
  <2>2. LockIsOwn'
    BY <1>14 DEF Prunes, session, Types, LockIsOwn
  <2>3. NothingMissed'
    BY <1>14 DEF Prunes, session, Types, LockIsOwn, NothingMissed
  <2>4. AskedInCall'
    BY <1>14 DEF Prunes, session, Types, AskedInCall, MayWrite
  <2>5. MayWrite'
    BY <1>14 DEF Prunes, session, Types, LockIsOwn, NothingMissed, MayWrite, PruningIsDue
  <2>6. PruningIsDue'
    BY <1>14 DEF Prunes, session, Types, PruningIsDue
  <2> QED BY <2>1, <2>2, <2>3, <2>4, <2>5, <2>6
<1>15. CASE UNCHANGED vars
  BY <1>15 DEF vars, session, Types, LockIsOwn, NothingMissed, AskedInCall, MayWrite, PruningIsDue
<1> QED
  BY <1>1, <1>2, <1>3, <1>4, <1>5, <1>6, <1>7, <1>8, <1>9, <1>10, <1>11, <1>12, <1>13, <1>14, <1>15 DEF Next, Step

LEMMA AlwaysInv == Spec => []IInv
  BY InitInv, StepInv, PTL DEF Spec

\* The lock file excludes: a process between the load and the save finds its own there (_file_lock).
THEOREM LockExcludes == Spec => []LockIsOwn
<1>1. IInv => LockIsOwn
  BY DEF IInv
<1> QED BY <1>1, AlwaysInv, PTL

\* A session that prunes keeps the records under every key a worker that ended had touched, whatever it saved since the
\* keys were looked for (pytest_sessionfinish, _prune_sub_key_orphans).
THEOREM EndedKeepTheirs == Spec => EndedIsKept
<1>1. ASSUME IInv, Prunes PROVE KeepsUsedBy({w \in Worker : pc[w] = "ended"})
  <2> SUFFICES ASSUME NEW w \in Worker, pc[w] = "ended", NEW k \in touched[w], store[k] # Absent
               PROVE store'[k] # Absent
    BY DEF KeepsUsedBy
  <2>1. pc[Controller] = "writing" /\ snap[Controller] = store
    BY <1>1 DEF Prunes, IInv, NothingMissed, Proc
  <2>2. k \in Key /\ k \notin orphans
    BY <1>1, <2>1 DEF IInv, Types, PruningIsDue
  <2>3. store'[k] = snap[Controller][k]
    BY <1>1, <2>2 DEF Prunes
  <2> QED BY <2>1, <2>3
<1>2. IInv /\ [Next]_vars => [Prunes => KeepsUsedBy({w \in Worker : pc[w] = "ended"})]_vars
  BY <1>1
<1> QED BY <1>2, AlwaysInv, PTL DEF Spec, EndedIsKept

-----------------------------------------------------------------------------
(* The refinement.  A step of the store that settles nothing leaves         *)
(* AnswerNow as it is; one that settles a call changes it there and         *)
(* nowhere else.                                                            *)

LEMMA Untold ==
  ASSUME UNCHANGED <<mode, store, call>>, AnswerNow' = AnswerNow
  PROVE  UNCHANGED Promise!vars
  BY DEF Promise!vars

\* A call in which nothing is settled yet is still asked.
LEMMA StillAsked ==
  ASSUME IInv, NEW w \in Worker, pc[w] \notin {"idle", "releasing", "dead", "ended"}
  PROVE  AnswerNow[w] = "asked"
  BY SnapshotConstants DEF IInv, AskedInCall, AnswerNow, Decided

LEMMA InitPromise == Init => Promise!Init
<1> SUFFICES ASSUME Init PROVE Promise!Init
  OBVIOUS
<1>1. IInv
  BY InitInv
<1>2. AnswerNow = [w \in Worker |-> "none"]
  BY DEF Init, AnswerNow, Decided, Proc
<1> QED BY <1>1, <1>2 DEF Init, Promise!Init, IInv, Types

LEMMA StepPromise == IInv /\ [Next]_vars => [Promise!Next]_(Promise!vars)
<1> SUFFICES ASSUME IInv, [Next]_vars PROVE Promise!Next \/ UNCHANGED Promise!vars
  OBVIOUS
<1> USE SnapshotConstants DEF IInv, Proc, Go
<1>1. ASSUME NEW w \in Worker, NEW c \in Call, Start(w, c) PROVE Promise!Next
  <2>1. AnswerNow' = [AnswerNow EXCEPT ![w] = "asked"]
    BY <1>1 DEF Start, Types, AnswerNow, Decided
  <2>2. AnswerNow[w] # "asked"
    BY <1>1 DEF Start, AskedInCall, AnswerNow, Decided
  <2>3. Promise!Ask(w)
    BY <1>1, <2>1, <2>2 DEF Start, Promise!Ask, Promise!Tell
  <2> QED BY <2>3 DEF Promise!Next
<1>2. ASSUME NEW p \in Proc, Acquire(p) PROVE UNCHANGED Promise!vars
  <2>1. AnswerNow' = AnswerNow
    BY <1>2 DEF Acquire, Types, AnswerNow, Decided
  <2> QED BY <1>2, <2>1, Untold DEF Acquire
<1>3. ASSUME NEW p \in Proc, TimesOut(p) PROVE Promise!Next \/ UNCHANGED Promise!vars
  <2>1. CASE p = Controller
    <3>1. AnswerNow' = AnswerNow
      BY <1>3, <2>1 DEF TimesOut, Types, AnswerNow, Decided
    <3> QED BY <1>3, <3>1, Untold DEF TimesOut
  <2>2. CASE p \in Worker
    <3>1. AnswerNow[p] = "asked"
      BY <1>3, <2>2, StillAsked DEF TimesOut
    <3>2. AnswerNow' = [AnswerNow EXCEPT ![p] = "timed out"]
      BY <1>3, <2>2 DEF TimesOut, Types, AnswerNow, Decided
    <3>3. Promise!Answer(p)
      BY <1>3, <3>1, <3>2 DEF TimesOut, Promise!Answer, Promise!TimeOut, Promise!Tell
    <3> QED BY <2>2, <3>3 DEF Promise!Next
  <2> QED BY <2>1, <2>2
<1>4. ASSUME NEW w \in Worker, LoadsNothing(w) PROVE Promise!Next \/ UNCHANGED Promise!vars
  <2>1. AnswerNow[w] = "asked" /\ UNCHANGED <<mode, store, call>>
    BY <1>4, StillAsked DEF LoadsNothing, Loads
  <2>2. CASE Forbidden(w)
    <3>1. AnswerNow' = [AnswerNow EXCEPT ![w] = "refused"]
      BY <1>4, <2>2 DEF LoadsNothing, Loads, Decides, Types, AnswerNow, Decided
    <3>2. Promise!Refuse(w)
      BY <1>4, <2>2, <3>1
      DEF LoadsNothing, Forbidden, Promise!Refuse, Promise!Creatable, Promise!Stored, Promise!Tell
    <3> QED BY <2>1, <3>2 DEF Promise!Answer, Promise!Next
  <2>3. CASE ~Forbidden(w) /\ call[w].fits
    <3>1. AnswerNow' = AnswerNow
      BY <1>4, <2>1, <2>3 DEF LoadsNothing, Loads, Decides, Types, AnswerNow, Decided
    <3> QED BY <2>1, <3>1, Untold
  <2>4. CASE ~Forbidden(w) /\ ~call[w].fits
    <3>1. AnswerNow' = [AnswerNow EXCEPT ![w] = "failed"]
      BY <1>4, <2>4 DEF LoadsNothing, Loads, Decides, Types, AnswerNow, Decided
    <3>2. Promise!Misfit(w)
      BY <1>4, <2>4, <3>1
      DEF LoadsNothing, Forbidden, Promise!Misfit, Promise!Creatable, Promise!Stored, Promise!Tell
    <3> QED BY <2>1, <3>2 DEF Promise!Answer, Promise!Next
  <2> QED BY <2>2, <2>3, <2>4
<1>5. ASSUME NEW w \in Worker, LoadsRecord(w) PROVE Promise!Next \/ UNCHANGED Promise!vars
  <2> DEFINE recorded == store[call[w].key]
             rewrites == Rewriting(w) /\ recorded # call[w].value
  <2>1. AnswerNow[w] = "asked" /\ UNCHANGED <<mode, store, call>> /\ recorded # Absent
    BY <1>5, StillAsked DEF LoadsRecord, Loads
  <2>2. CASE ~rewrites
    <3>1. AnswerNow' = [AnswerNow EXCEPT ![w] = Compared(call[w], recorded)]
      BY <1>5, <2>2 DEF LoadsRecord, Loads, Decides, Types, AnswerNow, Decided
    <3>2. Promise!Compare(w)
      BY <2>1, <2>2, <3>1
      DEF Rewriting, Compared, Promise!Compare, Promise!Compared, Promise!Stale, Promise!Stored, Promise!Tell
    <3> QED BY <2>1, <3>2 DEF Promise!Answer, Promise!Next
  <2>3. CASE rewrites /\ call[w].fits
    <3>1. AnswerNow' = AnswerNow
      BY <1>5, <2>1, <2>3 DEF LoadsRecord, Loads, Decides, Types, AnswerNow, Decided
    <3> QED BY <2>1, <3>1, Untold
  <2>4. CASE rewrites /\ ~call[w].fits
    <3>1. AnswerNow' = [AnswerNow EXCEPT ![w] = "failed"]
      BY <1>5, <2>4 DEF LoadsRecord, Loads, Decides, Types, AnswerNow, Decided
    <3>2. Promise!Misfit(w)
      BY <2>1, <2>4, <3>1 DEF Rewriting, Promise!Misfit, Promise!Stale, Promise!Stored, Promise!Tell
    <3> QED BY <2>1, <3>2 DEF Promise!Answer, Promise!Next
  <2> QED BY <2>2, <2>3, <2>4
<1>6. ASSUME NEW w \in Worker, NEW key \in Key, StartsInside(w, key) PROVE UNCHANGED Promise!vars
  <2>1. AnswerNow' = AnswerNow
    BY <1>6 DEF StartsInside, Types, AnswerNow, Decided
  <2> QED BY <1>6, <2>1, Untold DEF StartsInside
<1>7. ASSUME NEW w \in Worker, InsideTimesOut(w) PROVE Promise!Next \/ UNCHANGED Promise!vars
  <2>1. AnswerNow[w] = "asked" /\ UNCHANGED <<mode, store, call>>
    BY <1>7, StillAsked DEF InsideTimesOut
  <2>2. CASE Decides(w, "releasing", "timed out")
    <3>1. AnswerNow' = [AnswerNow EXCEPT ![w] = "timed out"]
      BY <1>7, <2>2 DEF InsideTimesOut, Decides, Types, AnswerNow, Decided
    <3> QED BY <2>1, <3>1 DEF Promise!Answer, Promise!TimeOut, Promise!Tell, Promise!Next
  <2>3. CASE Go(w, "resumed") /\ UNCHANGED verdict
    <3>1. AnswerNow' = AnswerNow
      BY <1>7, <2>3 DEF InsideTimesOut, Types, AnswerNow, Decided
    <3> QED BY <2>1, <3>1, Untold
  <2> QED BY <1>7, <2>2, <2>3 DEF InsideTimesOut
<1>8. ASSUME NEW w \in Worker, Saves(w) PROVE Promise!Next
  <2>1. AnswerNow[w] = "asked" /\ UNCHANGED <<mode, call>>
    BY <1>8, StillAsked DEF Saves
  <2>2. AnswerNow' = [AnswerNow EXCEPT ![w] = verdict[w]]
    BY <1>8 DEF Saves, Types, AnswerNow, Decided
  <2>3. store' = [store EXCEPT ![call[w].key] = call[w].value]
    BY <1>8 DEF Saves, NothingMissed
  <2>4. Promise!Create(w) \/ Promise!Overwrite(w)
    BY <1>8, <2>2, <2>3
    DEF Saves, MayWrite, Promise!Create, Promise!Overwrite, Promise!Creatable, Promise!Stale, Promise!Stored,
        Promise!Records, Promise!Tell
  <2> QED BY <2>1, <2>4 DEF Promise!Answer, Promise!Next
<1>9. ASSUME NEW w \in Worker, Releases(w) PROVE UNCHANGED Promise!vars
  <2>1. AnswerNow' = AnswerNow
    BY <1>9 DEF Releases, Types, AnswerNow, Decided
  <2> QED BY <1>9, <2>1, Untold DEF Releases
<1>10. ASSUME NEW w \in Worker, Dies(w) PROVE Promise!Next \/ UNCHANGED Promise!vars
  <2>1. UNCHANGED <<mode, store, call>>
    BY <1>10 DEF Dies
  <2>2. CASE answer[w] = "asked"
    <3>1. AnswerNow' = [AnswerNow EXCEPT ![w] = "died"]
      BY <1>10, <2>2 DEF Dies, Types, AnswerNow, Decided
    <3>2. AnswerNow[w] # "none"
      BY <2>2 DEF AskedInCall, AnswerNow, Decided
    <3> QED BY <2>1, <3>1, <3>2 DEF Promise!Die, Promise!Tell, Promise!Next
  <2>3. CASE answer[w] # "asked"
    <3>1. AnswerNow' = AnswerNow
      BY <1>10, <2>3 DEF Dies, Types, AskedInCall, AnswerNow, Decided
    <3> QED BY <2>1, <3>1, Untold
  <2> QED BY <2>2, <2>3
<1>11. ASSUME NEW w \in Worker, Ends(w) PROVE UNCHANGED Promise!vars
  <2>1. AnswerNow' = AnswerNow
    BY <1>11 DEF Ends, Types, AnswerNow, Decided
  <2> QED BY <1>11, <2>1, Untold DEF Ends
<1>12. ASSUME FindsOrphans \/ LoadsForPrune PROVE UNCHANGED Promise!vars
  <2>1. AnswerNow' = AnswerNow
    BY <1>12 DEF FindsOrphans, LoadsForPrune, Types, AnswerNow, Decided
  <2> QED BY <1>12, <2>1, Untold DEF FindsOrphans, LoadsForPrune
<1>13. ASSUME Prunes PROVE Promise!Next
  <2>1. AnswerNow' = AnswerNow
    BY <1>13 DEF Prunes, Types, AnswerNow, Decided
  <2>2. pc[Controller] = "writing" /\ snap[Controller] = store
    BY <1>13 DEF Prunes, NothingMissed
  <2>3. orphans \in SUBSET Key /\ store' = [k \in Key |-> IF k \in orphans THEN Absent ELSE store[k]]
    BY <1>13, <2>2 DEF Prunes, Types
  <2>4. mode.update /\ mode.full
    BY <2>2 DEF PruningIsDue
  <2> QED BY <1>13, <2>1, <2>3, <2>4 DEF Prunes, Promise!Prune, Promise!Next
<1>14. CASE UNCHANGED vars
  <2>1. AnswerNow' = AnswerNow
    BY <1>14 DEF vars, AnswerNow, Decided
  <2> QED BY <1>14, <2>1, Untold DEF vars
<1> QED
  BY <1>1, <1>2, <1>3, <1>4, <1>5, <1>6, <1>7, <1>8, <1>9, <1>10, <1>11, <1>12, <1>13, <1>14 DEF Next, Step

\* Every snapshot() takes effect at one instant (snapshot, _file_lock, _save): the protocol of lock, load and replace
\* implements SnapshotPromise, where a call is one step.
THEOREM TakesEffectAtOnce == Spec => KeepsPromise
  BY InitPromise, StepPromise, AlwaysInv, PTL DEF Spec, KeepsPromise, Promise!Spec

=============================================================================
