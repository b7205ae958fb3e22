--------------------------- MODULE SnapshotPromise ---------------------------
(***************************************************************************)
(* What snapshot() promises to tests that share one snapshot file: every   *)
(* call takes effect at one instant between its start and its return, as   *)
(* if nobody else were at the file.                                        *)
(***************************************************************************)
CONSTANTS Worker, Key, Value, Absent, Call, Mode

VARIABLES
  mode,    \* whether the run updates snapshots, and whether it may create them
  store,   \* the value recorded under each key, or Absent
  call,    \* what each worker asked last
  answer   \* what it was told: "asked" while it has not been

vars == <<mode, store, call, answer>>

Stored(w) == store[call[w].key]

\* What a comparison says, which not_ turns around.
Compared(c, recorded) ==
  LET held == c.fits /\ recorded = c.value
  IN IF held # c.negated THEN "passed" ELSE "failed"

Creatable(w) == Stored(w) = Absent /\ ~mode.ci /\ ~call[w].negated

Stale(w) == Stored(w) # Absent /\ mode.update /\ ~call[w].negated /\ Stored(w) # call[w].value

Tell(w, what) == answer' = [answer EXCEPT ![w] = what]

Records(w, what) ==
  /\ call[w].fits
  /\ store' = [store EXCEPT ![call[w].key] = call[w].value]
  /\ Tell(w, what)

-----------------------------------------------------------------------------

Init ==
  /\ mode \in Mode
  /\ store \in [Key -> Value \cup {Absent}]
  /\ call \in [Worker -> Call]
  /\ answer = [w \in Worker |-> "none"]

Ask(w) ==
  /\ answer[w] # "asked"
  /\ \E c \in Call : call' = [call EXCEPT ![w] = c]
  /\ Tell(w, "asked")
  /\ UNCHANGED <<mode, store>>

Create(w) == Creatable(w) /\ Records(w, "created")

Overwrite(w) == Stale(w) /\ Records(w, "updated")

\* Nothing is written: creating is forbidden, a placeholder refuses the value,
\* or there is a record to compare with.
Refuse(w) == Stored(w) = Absent /\ ~Creatable(w) /\ Tell(w, "refused")

Misfit(w) == (Creatable(w) \/ Stale(w)) /\ ~call[w].fits /\ Tell(w, "failed")

Compare(w) ==
  /\ Stored(w) # Absent /\ ~Stale(w)
  /\ Tell(w, Compared(call[w], Stored(w)))

\* The lock could not be had in time.
TimeOut(w) == Tell(w, "timed out")

Answer(w) ==
  /\ answer[w] = "asked"
  /\ UNCHANGED <<mode, call>>
  /\ \/ Create(w)
     \/ Overwrite(w)
     \/ (Refuse(w) \/ Misfit(w) \/ Compare(w) \/ TimeOut(w)) /\ UNCHANGED store

\* A process that dies is told nothing, even if its call took effect.
Die(w) ==
  /\ answer[w] # "none"
  /\ Tell(w, "died")
  /\ UNCHANGED <<mode, store, call>>

\* An update run drops what no test of it reached.
Prune ==
  /\ mode.update /\ mode.full
  /\ \E keys \in SUBSET Key :
       store' = [k \in Key |-> IF k \in keys THEN Absent ELSE store[k]]
  /\ UNCHANGED <<mode, call, answer>>

Next == (\E w \in Worker : Ask(w) \/ Answer(w) \/ Die(w)) \/ Prune

Spec == Init /\ [][Next]_vars
=============================================================================
