---------------------------- MODULE SnapshotStore ----------------------------
(***************************************************************************)
(* A snapshot file shared by test processes (assertpy2/snapshot.py, with   *)
(* _save and _load of _snapshot_codec.py), and the pruning of it when a    *)
(* session ends (assertpy2/pytest_plugin.py).                              *)
(*                                                                         *)
(* Workers are the processes of a pytest-xdist session.  The Controller    *)
(* waits for them, merges the keys they touched and, on a full update run, *)
(* removes the keys nobody touched.  A lock file serialises reading and    *)
(* writing; it stays behind when its holder dies.                          *)
(*                                                                         *)
(* One file is modelled, keyed by line number.  A custom id is a file with *)
(* a single key.  Values are compared by equality: tolerances and ignored  *)
(* fields make more values equal and change nothing in the protocol.       *)
(***************************************************************************)
EXTENDS Naturals

CONSTANTS
  Worker,     \* processes that run tests
  Mortal,     \* those that may be killed
  Controller, \* the process that ends the session
  Key, Value,
  Mode,       \* the flags a session may run with: update mode, CI mode, and
              \* whether every test was selected
  Absent,     \* nothing is stored under a key
  Nobody,     \* there is no lock file
  MaxCalls    \* bound: snapshot() calls of one worker

ASSUME SnapshotConstants ==
  /\ Mortal \subseteq Worker
  /\ Mode \subseteq [update : BOOLEAN, ci : BOOLEAN, full : BOOLEAN]
  /\ Controller \notin Worker
  /\ Nobody \notin Worker \cup {Controller}
  /\ Absent \notin Value /\ Key # {} /\ Value # {}
  /\ MaxCalls \in Nat

(* A call: under which key, with which value, whether its placeholders      *)
(* accept the value, and whether it is under not_.                          *)
Call == [key : Key, value : Value, fits : BOOLEAN, negated : BOOLEAN]

VARIABLES
  mode,     \* the flags of this session
  store,    \* the file: the value under each key; no file when all are Absent
  lock,     \* who made the lock file
  pc,       \* where each process is
  call,     \* the call each worker makes, or made last
  snap,     \* what each process loaded under the lock
  verdict,  \* what a worker will be told once the lock is released
  answer,   \* what it was told
  calls,    \* how many calls it has made
  touched,  \* _TOUCHED of each worker
  merged,   \* _controller_touched
  orphans   \* the keys the controller took for obsolete

session == <<touched, merged, orphans>>
vars == <<mode, store, lock, pc, call, snap, verdict, answer, calls, session>>

Proc == Worker \cup {Controller}

Go(p, where) == pc' = [pc EXCEPT ![p] = where]

\* Nothing loaded: no call is under the lock.
Unread == [k \in Key |-> Absent]

\* What a comparison with recorded says, which not_ turns around.
Compared(c, recorded) ==
  LET held == c.fits /\ recorded = c.value
  IN IF held # c.negated THEN "passed" ELSE "failed"

-----------------------------------------------------------------------------

Init ==
  /\ mode \in Mode
  /\ store \in [Key -> Value \cup {Absent}]
  /\ lock = Nobody
  /\ pc = [p \in Proc |-> "idle"]
  /\ call \in [Worker -> {CHOOSE c \in Call : TRUE}]
  /\ snap = [p \in Proc |-> Unread]
  /\ verdict = [w \in Worker |-> "none"]
  /\ answer = [w \in Worker |-> "none"]
  /\ calls = [w \in Worker |-> 0]
  /\ touched = [w \in Worker |-> {}]
  /\ merged = {}
  /\ orphans = {}

\* snapshot() up to the lock: the key is recorded as used, whatever comes of it.
Start(w, c) ==
  /\ pc[w] = "idle"
  /\ calls[w] < MaxCalls
  /\ calls' = [calls EXCEPT ![w] = @ + 1]
  /\ call' = [call EXCEPT ![w] = c]
  /\ touched' = [touched EXCEPT ![w] = @ \cup {c.key}]
  /\ answer' = [answer EXCEPT ![w] = "asked"]
  /\ Go(w, "waiting")
  /\ UNCHANGED <<mode, store, lock, snap, verdict, merged, orphans>>

\* A slip: it is taken over when there is one.
AcquireAnyway(p) ==
  /\ pc[p] = "waiting"
  /\ lock' = p
  /\ Go(p, "locked")
  /\ UNCHANGED <<mode, store, call, snap, verdict, answer, calls, session>>

\* _file_lock(): the lock file is made when there is none ...
Acquire(p) ==
  /\ pc[p] = "waiting"
  /\ lock = Nobody
  /\ lock' = p
  /\ Go(p, "locked")
  /\ UNCHANGED <<mode, store, call, snap, verdict, answer, calls, session>>

\* A slip: it polls for as long as it takes.
NeverTimesOut(p) == FALSE

\* ... and whoever finds one after the deadline raises TimeoutError, which for
\* the controller breaks the hook that ends the session.
TimesOut(p) ==
  /\ pc[p] = "waiting"
  /\ lock # Nobody
  /\ Go(p, IF p = Controller THEN "done" ELSE "idle")
  /\ answer' = [w \in Worker |-> IF w = p THEN "timed out" ELSE answer[w]]
  /\ UNCHANGED <<mode, store, lock, call, snap, verdict, calls, session>>

-----------------------------------------------------------------------------
(* Under the lock: the file is loaded, and what to do follows from it.      *)

Loads(w) ==
  /\ w \in Worker
  /\ pc[w] \in {"locked", "resumed"}
  /\ snap' = [snap EXCEPT ![w] = store]
  /\ UNCHANGED <<mode, store, lock, call, answer, calls, session>>

Decides(w, where, what) ==
  /\ Go(w, where)
  /\ verdict' = [verdict EXCEPT ![w] = what]

\* A slip: under not_ a snapshot is created like any other.
ForbiddenInCi(w) == mode.ci

\* _forbid_creation(): in CI mode, or under not_
Forbidden(w) == mode.ci \/ call[w].negated

\* _rewriting()
Rewriting(w) == mode.update /\ ~call[w].negated

\* No record: it is made, unless forbidden or refused by a placeholder.
LoadsNothing(w) ==
  /\ Loads(w)
  /\ store[call[w].key] = Absent
  /\ CASE Forbidden(w) -> Decides(w, "releasing", "refused")
       [] ~Forbidden(w) /\ call[w].fits -> Decides(w, "writing", "created")
       [] OTHER -> Decides(w, "releasing", "failed")

\* A record: an update run overwrites it when it differs; else it is compared,
\* after the lock is released, with what was loaded here.
LoadsRecord(w) ==
  LET c == call[w]
      recorded == store[c.key]
  IN /\ Loads(w)
     /\ recorded # Absent
     /\ CASE ~(Rewriting(w) /\ recorded # c.value) ->
               Decides(w, "releasing", Compared(c, recorded))
          [] Rewriting(w) /\ recorded # c.value /\ c.fits ->
               Decides(w, "writing", "updated")
          [] OTHER -> Decides(w, "releasing", "failed")

\* Where a value may be written its placeholders are asked, and where one may be overwritten it is compared: code of
\* the user's, under the lock, which may itself take a snapshot in the file ...
AsksTheUser(w) == IF store[call[w].key] = Absent THEN ~Forbidden(w) ELSE Rewriting(w)

StartsInside(w, key) ==
  /\ w \in Worker
  /\ pc[w] = "locked" /\ AsksTheUser(w)
  /\ touched' = [touched EXCEPT ![w] = @ \cup {key}]
  /\ Go(w, "inside")
  /\ UNCHANGED <<mode, store, lock, call, snap, verdict, answer, calls, merged, orphans>>

\* ... and finds the lock file of its own process there until the deadline.  The error passes through the call around
\* it, or the user's code swallows it and goes on.
InsideTimesOut(w) ==
  /\ w \in Worker
  /\ pc[w] = "inside"
  /\ Decides(w, "releasing", "timed out") \/ (Go(w, "resumed") /\ UNCHANGED verdict)
  /\ UNCHANGED <<mode, store, lock, call, snap, answer, calls, session>>

\* _save(): the whole file is replaced by what was loaded and the new value.
Saves(w) ==
  /\ w \in Worker
  /\ pc[w] = "writing"
  /\ store' = [snap[w] EXCEPT ![call[w].key] = call[w].value]
  /\ Go(w, "releasing")
  /\ UNCHANGED <<mode, lock, call, snap, verdict, answer, calls, session>>

\* The lock file is removed and the call returns or raises.
Releases(w) ==
  /\ w \in Worker
  /\ pc[w] = "releasing"
  /\ lock' = Nobody
  /\ answer' = [answer EXCEPT ![w] = verdict[w]]
  /\ snap' = [snap EXCEPT ![w] = Unread]
  /\ verdict' = [verdict EXCEPT ![w] = "none"]
  /\ Go(w, "idle")
  /\ UNCHANGED <<mode, store, call, calls, session>>

-----------------------------------------------------------------------------

\* A worker is killed, wherever it is; its lock file stays.
Dies(w) ==
  /\ w \in Mortal
  /\ pc[w] \notin {"dead", "ended"}
  /\ Go(w, "dead")
  /\ answer' = [answer EXCEPT ![w] = IF @ = "asked" THEN "died" ELSE @]
  /\ UNCHANGED <<mode, store, lock, call, snap, verdict, calls, session>>

\* A slip: only what the last worker touched is remembered.
EndsAlone(w) ==
  /\ w \in Worker
  /\ pc[w] = "idle"
  /\ Go(w, "ended")
  /\ merged' = touched[w]
  /\ UNCHANGED <<mode, store, lock, call, snap, verdict, answer, calls, touched, orphans>>

\* A worker finishes and ships what it touched (pytest_sessionfinish on the
\* worker, pytest_testnodedown on the controller).
Ends(w) ==
  /\ w \in Worker
  /\ pc[w] = "idle"
  /\ Go(w, "ended")
  /\ merged' = merged \cup touched[w]
  /\ UNCHANGED <<mode, store, lock, call, snap, verdict, answer, calls, touched, orphans>>

\* pytest_sessionfinish and _find_orphans(), which reads the file unlocked.
FindsOrphans ==
  /\ pc[Controller] = "idle"
  /\ \A w \in Worker : pc[w] \in {"ended", "dead"}
  /\ orphans' = IF mode.full /\ merged # {}
                THEN {k \in Key \ merged : store[k] # Absent}
                ELSE {}
  /\ Go(Controller, IF orphans' # {} /\ mode.update THEN "waiting" ELSE "done")
  /\ UNCHANGED <<mode, store, lock, call, snap, verdict, answer, calls, touched, merged>>

\* _prune_sub_key_orphans(): the file is loaded again under the lock ...
LoadsForPrune ==
  /\ pc[Controller] = "locked"
  /\ snap' = [snap EXCEPT ![Controller] = store]
  /\ Go(Controller, "writing")
  /\ UNCHANGED <<mode, store, lock, call, verdict, answer, calls, session>>

\* ... and saved, or removed, without them.
Prunes ==
  /\ pc[Controller] = "writing"
  /\ store' = [k \in Key |-> IF k \in orphans THEN Absent ELSE snap[Controller][k]]
  /\ lock' = Nobody
  /\ Go(Controller, "done")
  /\ UNCHANGED <<mode, call, snap, verdict, answer, calls, session>>

Step(w) ==
  \/ \E c \in Call : Start(w, c)
  \/ \E key \in Key : StartsInside(w, key)
  \/ InsideTimesOut(w)
  \/ LoadsNothing(w) \/ LoadsRecord(w) \/ Saves(w) \/ Releases(w)
  \/ Dies(w) \/ Ends(w)

Next ==
  \/ \E p \in Proc : Acquire(p) \/ TimesOut(p)
  \/ \E w \in Worker : Step(w)
  \/ FindsOrphans \/ LoadsForPrune \/ Prunes

Spec == Init /\ [][Next]_vars

(* Fairness: a live process goes on with the call it is in.  A killed one   *)
(* is at "dead", where none of these is enabled.  That a waiting one does   *)
(* not poll forever is what its deadline is for: if the lock is taken and   *)
(* given back over and over it may miss every gap, and times out.           *)
Fairness ==
  /\ \A w \in Worker :
       /\ WF_vars(LoadsNothing(w) \/ LoadsRecord(w))
       /\ WF_vars(InsideTimesOut(w))
       /\ WF_vars(Saves(w))
       /\ WF_vars(Releases(w))
  /\ \A p \in Proc : WF_vars(Acquire(p) \/ TimesOut(p))
  /\ WF_vars(LoadsForPrune) /\ WF_vars(Prunes)

FairSpec == Spec /\ Fairness

-----------------------------------------------------------------------------
(* Properties *)

\* Only one process is between loading the file and writing it, and the lock
\* file is its own: nobody took it over, nobody else removed it.
LockIsOwn == \A p \in Proc : pc[p] \in {"locked", "inside", "resumed", "writing", "releasing"} => lock = p

\* A call that wrote nothing is decided when it loads, one that writes when the
\* file is replaced.
Decided(w) == pc[w] = "releasing"

AnswerNow == [w \in Worker |-> IF Decided(w) THEN verdict[w] ELSE answer[w]]

\* Every call takes effect at one instant, whoever else is at the file, dies
\* over it or prunes it: no entry is lost, none is created twice, and what a
\* call is told is true of the file at that instant.
Promise == INSTANCE SnapshotPromise WITH answer <- AnswerNow

KeepsPromise == Promise!Spec

\* Pruning keeps what was used: the records under the keys a worker reached.
KeepsUsedBy(workers) ==
  \A w \in workers : \A k \in touched[w] : store[k] # Absent => store'[k] # Absent

\* A snapshot used on any worker that ended is not taken for an orphan.
EndedIsKept == [][ Prunes => KeepsUsedBy({w \in Worker : pc[w] = "ended"}) ]_vars

\* A snapshot used on another worker is never taken for an orphan: what a test
\* recorded or passed against is still there after the session prunes.
UsedIsKept ==
  [][ Prunes => \A w \in Worker : answer[w] \in {"created", "updated", "passed"} =>
        (store[call[w].key] # Absent => store'[call[w].key] # Absent) ]_vars

\* A call ends, with an answer or an exception, even if the process that held
\* the lock is gone for good.
CallsEnd == \A w \in Worker : (answer[w] = "asked") ~> (answer[w] # "asked")

=============================================================================
