------------------------------- MODULE Polling -------------------------------
(***************************************************************************)
(* One poll of eventually() or eventually_sync(): the loops of             *)
(* AsyncAssertionBuilder._poll and SyncAssertionBuilder._run in            *)
(* assertpy2/async_assertions.py.                                          *)
(*                                                                         *)
(* An attempt calls the probe and replays the recorded assertions on what  *)
(* it returned.  A failed assertion and an ignored exception are tried     *)
(* again until the deadline; anything else leaves at once.  The clock      *)
(* ticks on its own between any two steps, so an attempt takes as long as  *)
(* it likes and a sleep may end late.                                      *)
(***************************************************************************)
EXTENDS PollRecorder

CONSTANTS
  Timeout,    \* budgets a poll may have; more than MaxClock is endless
  Interval,   \* intervals it may have
  MaxClock,   \* bound: where the clock stops
  MaxPolls    \* bound: attempts of a recorded poll

ASSUME PollingConstants ==
  /\ Timeout \subseteq Nat /\ Interval \subseteq Nat
  /\ MaxClock \in Nat /\ MaxPolls \in Nat

VARIABLES
  kind,      \* how a timeout is delivered: "strict", "soft" or "warn"
  trace,     \* whether the poll is recorded
  timeout, interval,
  clock,     \* since the poll started
  pc,        \* "ready", "probing", "failed", "sleeping" or "done"
  wake,      \* when a sleep ends
  recorder,
  retries,   \* _RETRIES: the attempts of a poll that converged late
  result,    \* what became of the poll
  polls,     \* history: the attempts that failed
  asked,     \* history: whether the probe was asked since the last sleep
  late,      \* history: how often it was asked when time was up, counted to two
  summary    \* what the timeout said of them

settings == <<kind, trace, timeout, interval>>
asking == <<asked, late>>
vars == <<settings, clock, pc, wake, recorder, retries, result, polls, asking, summary>>

NoSummary == [says |-> "nothing"]

-----------------------------------------------------------------------------

Init ==
  /\ kind \in {"strict", "soft"}
  /\ trace \in BOOLEAN
  /\ timeout \in Timeout
  /\ interval \in Interval
  /\ clock = 0
  /\ pc = "ready"
  /\ wake = 0
  /\ recorder = Blank
  /\ retries = <<>>
  /\ result = "none"
  /\ polls = <<>>
  /\ asked = FALSE
  /\ late = 0
  /\ summary = NoSummary

Tick ==
  /\ clock < MaxClock /\ pc # "done"
  /\ clock' = clock + 1
  /\ UNCHANGED <<settings, pc, wake, recorder, retries, result, polls, asking, summary>>

\* An attempt starts.
Attempt ==
  /\ pc = "ready"
  /\ Len(polls) < MaxPolls
  /\ pc' = "probing"
  /\ asked' = TRUE
  /\ late' = IF clock >= timeout /\ late < 2 THEN late + 1 ELSE late
  /\ UNCHANGED <<settings, clock, wake, recorder, retries, result, polls, summary>>

Ends(how) == pc' = "done" /\ result' = how

\* Every assertion of the chain held.
Passes ==
  /\ pc = "probing"
  /\ Ends("passed")
  /\ retries' = IF recorder.total > 0 THEN Append(retries, recorder.total + 1) ELSE retries
  /\ UNCHANGED <<settings, clock, wake, recorder, polls, asking, summary>>

\* _record_poll(): an assertion failed on a value, or the probe raised what is
\* ignored.  Without a recorder nothing is kept.
FailsWith(outcome, what) ==
  LET p == [at |-> clock, outcome |-> outcome, what |-> what] IN
  /\ pc = "probing"
  /\ pc' = "failed"
  /\ IF trace
     THEN /\ recorder' = Recorded(recorder, p)
          /\ polls' = Append(polls, p)
     ELSE UNCHANGED <<recorder, polls>>
  /\ UNCHANGED <<settings, clock, wake, retries, result, asking, summary>>

\* An exception that is not ignored, or a cancellation, leaves the poll.
Escapes ==
  /\ pc \in {"probing", "sleeping"}
  /\ Ends("escaped")
  /\ UNCHANGED <<settings, clock, wake, recorder, retries, polls, asking, summary>>

\* _out_of_time(): raised, or delivered in the mode of the chain, with an inert
\* builder for whatever the chain goes on to.
OutOfTime ==
  /\ pc = "failed"
  /\ clock >= timeout
  /\ Ends(IF kind = "strict" THEN "raised" ELSE "inert")
  /\ summary' = IF trace THEN Summary(recorder, clock) ELSE NoSummary
  /\ UNCHANGED <<settings, clock, wake, recorder, retries, polls, asking>>

\* A slip: the loop sleeps without asking whether time is up.
SleepsUnasked ==
  /\ pc = "failed"
  /\ wake' = clock + (IF interval < timeout - clock THEN interval ELSE timeout - clock)
  /\ pc' = "sleeping" /\ asked' = FALSE
  /\ UNCHANGED <<settings, clock, recorder, retries, result, polls, late, summary>>

\* The loop sleeps an interval, but not beyond the deadline.
Sleeps ==
  /\ pc = "failed"
  /\ clock < timeout
  /\ wake' = clock + (IF interval < timeout - clock THEN interval ELSE timeout - clock)
  /\ pc' = "sleeping" /\ asked' = FALSE
  /\ UNCHANGED <<settings, clock, recorder, retries, result, polls, late, summary>>

\* A slip: the loop takes the end of its sleep for the end of its time.
WakesOutOfTime ==
  /\ pc = "sleeping" /\ clock >= wake
  /\ IF clock >= timeout
     THEN /\ Ends(IF kind = "strict" THEN "raised" ELSE "inert")
          /\ summary' = IF trace THEN Summary(recorder, clock) ELSE NoSummary
     ELSE pc' = "ready" /\ UNCHANGED <<result, summary>>
  /\ UNCHANGED <<settings, clock, wake, recorder, retries, polls, asking>>

Wakes ==
  /\ pc = "sleeping" /\ clock >= wake
  /\ pc' = "ready"
  /\ UNCHANGED <<settings, clock, wake, recorder, retries, result, polls, asking, summary>>

Next ==
  \/ Tick \/ Attempt \/ Passes
  \/ \E k \in Key \cup {Unkeyed} : FailsWith("fail", k)
  \/ \E e \in Exc : FailsWith("error", e)
  \/ Escapes \/ OutOfTime \/ Sleeps \/ Wakes

Spec == Init /\ [][Next]_vars

(* Fairness: time goes by, the probe returns, and the loop, which is the    *)
(* only one to run its steps, is given its turn.  Nothing makes an          *)
(* assertion hold.                                                          *)
Returns ==
  \/ Passes \/ Escapes
  \/ \E k \in Key \cup {Unkeyed} : FailsWith("fail", k)
  \/ \E e \in Exc : FailsWith("error", e)

Fairness ==
  /\ WF_vars(Tick)
  /\ WF_vars(Attempt) /\ WF_vars(pc = "probing" /\ Returns)
  /\ WF_vars(OutOfTime) /\ WF_vars(Sleeps) /\ WF_vars(Wakes)

FairSpec == Spec /\ Fairness

-----------------------------------------------------------------------------
(* Properties *)

\* However the polls came, the samples are the runs of polls that did not
\* differ, the first few and the last few of them, with every repeat counted
\* and nothing left out but what dropped counts.
KeepsTheWindow ==
  [head |-> recorder.head, tail |-> recorder.tail, dropped |-> recorder.dropped]
    = Window(polls)

\* What a timeout says of the run is so, for all the polls and not only for
\* those it kept.
TellsTheTruth ==
  summary # NoSummary => True(summary, polls, clock)

\* A timeout is only ever delivered after the whole budget, and the failure it
\* tells is of an attempt made since the last sleep: a sleep ends by the deadline
\* at the latest, so that the probe is asked once more when time is up, however
\* late the loop is woken, and never again after that.
UsesTheBudget ==
  /\ result \in {"raised", "inert"} => clock >= timeout /\ asked
  /\ pc = "sleeping" => wake <= timeout
  /\ late <= 1

\* A poll with a finite budget ends, whether or not its condition ever holds.
PollEnds == (pc = "ready" /\ ~trace /\ timeout <= MaxClock) ~> (pc = "done")

=============================================================================
