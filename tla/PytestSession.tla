--------------------------- MODULE PytestSession ---------------------------
(***************************************************************************)
(* The session side of the pytest plugin, in update mode: the tests of a   *)
(* process leave failures, runs of inline snapshots, snapshot keys and     *)
(* polls behind; a worker ships them when it finishes; the controller      *)
(* merges what arrives in any order, writes the inline literals, sweeps    *)
(* for snapshot keys that were shared, and says what the failures have in  *)
(* common.                                                                 *)
(*                                                                         *)
(* Workers die without shipping, or ship failures of another version that  *)
(* the controller cannot read.  Source files are edited while tests run.   *)
(* Without pytest-xdist the controller runs the tests itself.              *)
(***************************************************************************)
EXTENDS InlineRecord, Clustering

CONSTANTS
  Worker,       \* the pytest-xdist workers
  Controller,   \* the process that ends the session
  Mortal,       \* the workers that may die
  Foreign,      \* the workers that may ship failures the controller cannot read
  File,         \* the source files
  Rooted,       \* those under the rootdir
  Installed,    \* those of an installed package
  Source,       \* the text of each file when the session starts
  Edit,         \* the token an edit of the user puts at the start of a file
  Case,         \* what a test may do in one of its phases (see Phase below)
  Suite,        \* what a session may select: the tests, and the number of modules that cannot be collected
  NoReach,      \* a phase that reaches no inline snapshot
  NoKey,        \* a phase that reaches no snapshot
  Minimum,      \* the failing tests a cluster must hold
  Escalated,    \* whether a warning about a shared snapshot key is an error
  MaxRuns,      \* bound: the phases run in a session
  MaxEdits      \* bound: the edits of the user

ASSUME SessionAssumption ==
  /\ Mortal \subseteq Worker /\ Foreign \subseteq Worker /\ Controller \notin Worker
  /\ Rooted \subseteq File /\ Installed \subseteq File
  /\ (\A s \in Suite : s.tests \subseteq Case)
  /\ (\A k \in Case : k.fails \in BOOLEAN /\ k.late \in Nat)
  /\ Minimum \in Nat \ {0, 1}

\* The values of a difference are numbers their texts sort at.
ASSUME DiffAssumption ==
  /\ Absent \in Nat
  /\ \A k \in Case :
       /\ k.diff.entries \in Seq(ToSet(k.diff.entries))
       /\ \A entry \in ToSet(k.diff.entries) : entry.actual \in Nat /\ entry.expected \in Nat

\* A call is one token of one file, and one that is written with a literal is followed by it.
ASSUME SourceAssumption ==
  /\ Call \cap (Literal \cup {Comma, Edit}) = {}
  /\ Source \in [File -> Seq(UNION {ToSet(Source[file]) : file \in File})]
  /\ \A one, other \in File : \A i \in DOMAIN Source[one], j \in DOMAIN Source[other] :
       Source[one][i] \in Call /\ Source[one][i] = Source[other][j] => one = other /\ i = j
  /\ \A file \in File : \A i \in DOMAIN Source[file] :
       Source[file][i] \in Call \ Empty => i < Len(Source[file]) /\ Source[file][i + 1] \notin Call

\* The calls that are reached are calls of the files.  A comparison without functions of the test's answers later as now.
ASSUME ReachAssumption ==
  \A reach \in {k.reach : k \in Case} \ {NoReach} :
    /\ \E file \in File : reach.call \in ToSet(Source[file]) \cap Call
    /\ reach.text \in Literal /\ reach.pure \in BOOLEAN
    /\ reach.pure => reach.drifts = reach.takes

Process == Worker \cup {Controller}

\* A phase is a record:
\*   test     the node id
\*   fails    whether it fails on its own account, and diff what its failure carries
\*   reach    the inline call it reaches, or NoReach: call, negated, text (the value as a literal),
\*            takes and drifts (what its comparison passes for now, and at the end), pure
\*   key      the snapshot key it reaches, or NoKey
\*   late     the polls in it that passed close to their deadline
FileOf(call) == CHOOSE file \in File : \E i \in DOMAIN Source[file] : Source[file][i] = call

VARIABLES
  parallel,      \* whether the tests are run by workers
  suite,         \* what is selected
  phase,         \* of each process: idle, running, dead, shipped, down
  \* what a process holds
  seen,          \* _inline._SEEN: runs by file and place
  failed,        \* config._assertpy2_failed_ids
  failures,      \* config._assertpy2_failures
  retried,       \* _retried
  accesses,      \* _snapshot._ACCESS_NODES, by key
  wire,          \* worker.workeroutput
  \* what the controller has collected
  collected,     \* failures, count, lost, unreadable, collectErrors, inline, accesses
  \* the world
  content,       \* the text of each file
  \* what the session ends with
  exit,          \* whether the run is red
  problems,      \* what _fail_the_run() printed about inline snapshots
  swept,         \* the shared keys the sweep names, with the number of tests
  polls,         \* the late polls named
  summary,       \* the failure clusters
  \* history
  done,          \* what each process ran: the phase, and whether it failed and recorded a run
  edited,        \* the files as the user last left them
  torn           \* the files whose write failed half way

held     == <<seen, failed, failures, retried, accesses>>
result   == <<exit, problems, swept, polls, summary>>
history  == <<done, edited, torn>>
vars     == <<parallel, suite, phase, held, wire, collected, content, result, history>>

NoWire  == [present |-> FALSE]
Pending == [silent |-> "pending"]
Nothing == <<>>

Runs(p) == IF parallel THEN p \in Worker ELSE p = Controller

NothingCollected ==
  [failures |-> <<>>, count |-> 0, lost |-> 0, unreadable |-> 0, collectErrors |-> 0,
   inline |-> {}, accesses |-> Nothing, retried |-> <<>>]

Init ==
  /\ parallel \in BOOLEAN
  /\ suite \in Suite
  /\ phase = [p \in Process |-> IF Runs(p) THEN "running" ELSE "idle"]
  /\ seen = [p \in Process |-> Nothing]
  /\ failed = [p \in Process |-> {}]
  /\ failures = [p \in Process |-> <<>>]
  /\ retried = [p \in Process |-> <<>>]
  /\ accesses = [p \in Process |-> Nothing]
  /\ wire = [w \in Worker |-> NoWire]
  /\ collected = NothingCollected
  /\ content = Source
  /\ exit = "ok" /\ problems = {} /\ swept = {} /\ polls = <<>> /\ summary = Pending
  /\ done = [p \in Process |-> <<>>]
  /\ edited = Source
  /\ torn = {}

-----------------------------------------------------------------------------
(* A test *)

\* Whether the value no longer matches the literal of the call, as the test was imported with it.
Stale(reach) ==
  reach.call \in Empty \/ LiteralOf(Source[FileOf(reach.call)], reach.call) \notin reach.takes

\* What a call comes to under update mode: "raises", "compares", "ignores" or "records".  An empty call
\* under not_ is refused, a stale one is refused where the value is no literal or the file is an installed
\* package's, and one whose file was edited under the run may not be found in it any more.
Outcome(reach, found) ==
  LET file == FileOf(reach.call)
  IN  CASE reach.negated                             -> IF reach.call \in Empty THEN "raises" ELSE "compares"
        [] Stale(reach) /\ reach.text = NoText       -> "raises"
        [] file \in Installed                        -> IF Stale(reach) THEN "raises" ELSE "ignores"
        [] ~found                                    -> "raises"
        [] OTHER                                     -> "records"

RunOf(reach) ==
  [text |-> reach.text, stale |-> Stale(reach), source |-> content[FileOf(reach.call)],
   takes |-> reach.takes, drifts |-> reach.drifts, later |-> MayBeAskedLater(reach.text, reach.pure),
   judged |-> {}]

SiteOf(reach) == <<FileOf(reach.call), Place(content[FileOf(reach.call)], reach.call)>>

At(fun, x, default) == IF x \in DOMAIN fun THEN fun[x] ELSE default
Put(fun, x, value)  == [y \in DOMAIN fun \cup {x} |-> IF y = x THEN value ELSE fun[y]]

\* Whether a test is the one warned of sharing a snapshot key: the second to reach it in its process.
IsWarned(nodes, k) == k.key # NoKey /\ k.test \notin nodes /\ Cardinality(nodes) = 1

\* The failures recorded for the summary: one that differs at nothing is counted, and not listed.
ForClustering(recorded, k) ==
  LET found == IF k.fails THEN ObservationsOf(k.diff) ELSE <<>>
  IN  IF found = <<>> THEN recorded ELSE Append(recorded, [node |-> k.test, found |-> found])

\* One phase of a test, from its setup hook to the report of it: whatever it reaches is noted, and a failure
\* is recorded with what it differed at.
RunPhase(p, k, found) ==
  LET inline  == IF k.reach = NoReach THEN "none" ELSE Outcome(k.reach, found)
      nodes   == At(accesses[p], k.key, {})
      red     == k.fails \/ inline = "raises" \/ (IsWarned(nodes, k) /\ Escalated)
  IN  /\ phase[p] = "running"
      /\ found \/ (k.reach # NoReach /\ content[FileOf(k.reach.call)] # Source[FileOf(k.reach.call)])
      /\ seen' = IF inline # "records" THEN seen
                 ELSE [seen EXCEPT ![p] =
                         Put(@, SiteOf(k.reach), Noted(At(@, SiteOf(k.reach), <<>>), RunOf(k.reach)))]
      /\ accesses' = IF k.key = NoKey THEN accesses ELSE [accesses EXCEPT ![p] = Put(@, k.key, nodes \cup {k.test})]
      /\ retried' = [retried EXCEPT ![p] = @ \o [i \in 1 .. k.late |-> k.test]]
      /\ failed' = IF red THEN [failed EXCEPT ![p] = @ \cup {k.test}] ELSE failed
      /\ failures' = IF red THEN [failures EXCEPT ![p] = ForClustering(@, k)] ELSE failures
      /\ done' = [done EXCEPT ![p] = Append(@, [case |-> k, red |-> red, recorded |-> inline = "records"])]
      /\ UNCHANGED <<parallel, suite, phase, wire, collected, content, result, edited, torn>>

MayRun == MapThenSumSet(LAMBDA p : Len(done[p]), Process) < MaxRuns

\* The user saves a file while the tests run.  One that no selected test reaches is never opened.
UserEdits(file) ==
  /\ \E p \in Process : phase[p] = "running"
  /\ \E k \in suite.tests : k.reach # NoReach /\ FileOf(k.reach.call) = file
  /\ Len(content[file]) < Len(Source[file]) + MaxEdits
  /\ content' = [content EXCEPT ![file] = <<Edit>> \o @]
  /\ edited' = content'
  /\ UNCHANGED <<parallel, suite, phase, held, wire, collected, result, done, torn>>

\* A module cannot be collected: every worker reports it, pytest-xdist tells the controller once.
CollectFails ==
  /\ collected.collectErrors < suite.broken /\ \A p \in Process : done[p] = <<>>
  /\ collected' = [collected EXCEPT !.collectErrors = @ + 1]
  /\ UNCHANGED <<parallel, suite, phase, held, wire, content, result, history>>

-----------------------------------------------------------------------------
(* A worker ends *)

\* The failures of a worker as the controller may find them on the wire: as they are, or, from a worker of
\* another version, missing, with a count that is none or too low, or with a row no version makes.
Garbled(true) ==
  {[present |-> FALSE], [true EXCEPT !.isCount = FALSE]}
    \cup {[true EXCEPT !.count = n] : n \in 0 .. Cardinality({true.failures[i].node : i \in DOMAIN true.failures}) - 1}
    \cup {[true EXCEPT !.failures[i].found[1].signature.where = <<"nowhere">>] :
            i \in {j \in DOMAIN true.failures : true.failures[j].found[1].signature.located}}

\* pytest_sessionfinish() on a worker.
Finishes(w) ==
  LET true == [present |-> TRUE, failures |-> failures[w], count |-> Cardinality(failed[w]), isCount |-> TRUE]
  IN  /\ phase[w] = "running" /\ w \in Worker
      /\ phase' = [phase EXCEPT ![w] = "shipped"]
      /\ \E shipped \in {true} \cup (IF w \in Foreign THEN Garbled(true) ELSE {}) :
           wire' = [wire EXCEPT ![w] = [present |-> TRUE, failed |-> shipped, inline |-> Shipped(seen[w]),
                                        retried |-> retried[w], accesses |-> accesses[w]]]
      /\ seen' = [seen EXCEPT ![w] = Nothing]
      /\ UNCHANGED <<parallel, suite, failed, failures, retried, accesses, collected, content, result, history>>

Dies(w) ==
  /\ phase[w] = "running" /\ w \in Mortal
  /\ phase' = [phase EXCEPT ![w] = "dead"]
  /\ UNCHANGED <<parallel, suite, held, wire, collected, content, result, history>>

\* Whether the failures a worker shipped are ones the controller can group by and count.
Readable(shipped) ==
  /\ shipped.present
  /\ \A i \in DOMAIN shipped.failures : \A j \in DOMAIN shipped.failures[i].found :
       IsWellFormed(shipped.failures[i].found[j].signature)
  /\ shipped.isCount
  /\ shipped.count >= Cardinality({shipped.failures[i].node : i \in DOMAIN shipped.failures})

\* A slip: two workers that run the same test report one failing test.
TakenAlike(into, w, shipped) ==
  IF ~Readable(shipped) THEN [into EXCEPT !.unreadable = @ + 1]
  ELSE [into EXCEPT !.failures = @ \o [i \in DOMAIN shipped.failures |->
                       [shipped.failures[i] EXCEPT !.node = <<Controller, @>>]],
                    !.count = @ + shipped.count]

\* _collect_worker_failures() for a worker that finished.
Taken(into, w, shipped) ==
  IF ~Readable(shipped) THEN [into EXCEPT !.unreadable = @ + 1]
  ELSE [into EXCEPT !.failures = @ \o [i \in DOMAIN shipped.failures |->
                       [shipped.failures[i] EXCEPT !.node = <<w, @>>]],
                    !.count = @ + shipped.count]

\* A slip: what one worker knows of a snapshot key replaces what another did.
Overwritten(one, other) == other @@ one

\* The tests that reached each key, of two processes together.
Unioned(one, other) ==
  [key \in DOMAIN one \cup DOMAIN other |-> At(one, key, {}) \cup At(other, key, {})]

\* pytest_testnodedown() on the controller.
NodeDown(w) ==
  /\ phase[w] \in {"dead", "shipped"}
  /\ phase' = [phase EXCEPT ![w] = "down"]
  /\ collected' =
       IF phase[w] = "dead" THEN [collected EXCEPT !.lost = @ + 1]
       ELSE LET merged == Taken(collected, w, wire[w].failed)
            IN  [merged EXCEPT !.inline = @ \cup wire[w].inline, !.retried = @ \o wire[w].retried,
                               !.accesses = Unioned(@, wire[w].accesses)]
  /\ exit' = IF phase[w] = "dead" \/ failed[w] # {} THEN "failed" ELSE exit
  /\ UNCHANGED <<parallel, suite, held, wire, content, problems, swept, polls, summary, history>>

-----------------------------------------------------------------------------
(* The session ends *)

\* The rows of a file by place, and what each place gets.
Decisions(rows, file) ==
  LET here == {row \in rows : row.file = file}
  IN  [place \in {row.place : row \in here} |-> Decided({row \in here : row.place = place})]

SourcesOf(rows, file) == UNION {row.sources : row \in {one \in rows : one.file = file}}

\* The keys two tests or more reached, each with the number of them.
SharedKeys(totals) ==
  {<<key, Cardinality(totals[key])>> : key \in {k \in DOMAIN totals : Cardinality(totals[k]) >= 2}}

\* pytest_sessionfinish() on the controller: the late polls, the shared keys, the inline literals.
SessionFinish(fault, cut) ==
  LET rows    == Shipped(seen[Controller]) \cup collected.inline
      written == [file \in File |->
                    Written(file, content[file], Decisions(rows, file), SourcesOf(rows, file),
                            file \in Rooted, fault[file], cut)]
      shared  == SharedKeys(Unioned(accesses[Controller], collected.accesses))
      found   == UNION {written[file].problems : file \in File}
  IN  /\ phase[Controller] = IF parallel THEN "idle" ELSE "running"
      /\ parallel => \A w \in Worker : phase[w] = "down"
      /\ phase' = [phase EXCEPT ![Controller] = "finished"]
      /\ polls' = retried[Controller] \o collected.retried
      /\ swept' = shared
      /\ content' = [file \in File |-> written[file].content]
      /\ problems' = found
      /\ exit' = IF found # {} \/ (Escalated /\ shared # {}) \/ failed[Controller] # {} \/ collected.collectErrors > 0
                 THEN "failed" ELSE exit
      /\ seen' = [seen EXCEPT ![Controller] = Nothing]
      /\ accesses' = [accesses EXCEPT ![Controller] = Nothing]
      /\ collected' = [collected EXCEPT !.inline = {}, !.accesses = Nothing]
      /\ torn' = {file \in File : <<file, "unwritten">> \in found}
      /\ UNCHANGED <<parallel, suite, failed, failures, retried, wire, summary, done, edited>>

\* pytest_terminal_summary().
TerminalSummary ==
  LET own      == [i \in DOMAIN failures[Controller] |->
                     [failures[Controller][i] EXCEPT !.node = <<Controller, @>>]]
      total    == Cardinality(failed[Controller]) + collected.count
      recorded == own \o collected.failures
  IN  /\ phase[Controller] = "finished"
      /\ phase' = [phase EXCEPT ![Controller] = "over"]
      /\ summary' = IF total < Minimum THEN Silence
                    ELSE Rendered(Clusters(recorded, Minimum), total, collected.lost, collected.unreadable,
                                  collected.collectErrors)
      /\ UNCHANGED <<parallel, suite, held, wire, collected, content, exit, problems, swept, polls, history>>

\* One file at most goes wrong, in one of the ways a read or a write can, a write after any part of it.
Faults == {<<[file \in File |-> IF file = one THEN fault ELSE NoFault], cut>> :
             one \in Rooted \ Installed, fault \in ReadFault \cup WriteFault \cup {NoFault}, cut \in {0, 2}}
Fault  == {pair \in Faults : pair[2] = 0 \/ \E file \in File : pair[1][file] = "unwritten"}

Next ==
  \/ \E p \in Process, k \in suite.tests, found \in BOOLEAN : MayRun /\ RunPhase(p, k, found)
  \/ \E file \in Rooted \ Installed : UserEdits(file)
  \/ CollectFails
  \/ \E w \in Worker : Finishes(w) \/ Dies(w) \/ NodeDown(w)
  \/ \E fault \in Fault : SessionFinish(fault[1], fault[2])
  \/ TerminalSummary

Spec == Init /\ [][Next]_vars

-----------------------------------------------------------------------------
(* Properties *)

Over == phase[Controller] = "over"

\* The processes whose end the controller heard of, and those whose failures it could read.
Heard == {p \in Process : IF parallel THEN p \in Worker /\ wire[p].present ELSE p = Controller}
Read  == {p \in Heard : p = Controller \/ Readable(wire[p].failed)}

Ran(p) == {done[p][i] : i \in DOMAIN done[p]}

\* Every run of an inline call that reached the recorder of a process that was heard of.
Recorded == {one.case.reach : one \in {r \in UNION {Ran(p) : p \in Heard} : r.recorded}}

\* A file is left as the user had it, or with a literal at some of its calls, each of which every case that
\* reached the call takes, on whichever worker it ran and whatever functions it compares by; nothing else in
\* the file moves.  Only a write that failed is excepted, and it is told (apply_inline_records, _settled).
LiteralsHold ==
  phase[Controller] \in {"finished", "over"} =>
    \A file \in File \ torn :
      \E literal \in [ToSet(Source[file]) \cap Call -> Literal] :
        /\ content[file] = Spliced(edited[file], literal)
        /\ \A call \in DOMAIN literal : literal[call] # NoText =>
             \A reach \in Recorded : reach.call = call => literal[call] \in reach.takes

\* A case that asked for a literal gets one it takes, or the run is red and names the file: nothing asked for is
\* dropped without a word, whatever the workers disagree on, the user edits or the system refuses (_decided, _written).
NothingDropped ==
  phase[Controller] \in {"finished", "over"} =>
    \A reach \in {r \in Recorded : Stale(r)} :
      \/ /\ FileOf(reach.call) \notin torn
         /\ LiteralOf(content[FileOf(reach.call)], reach.call) \in reach.takes
      \/ /\ exit = "failed"
         /\ \E problem \in problems : problem[1] = FileOf(reach.call)

\* A side of a cluster is told in the same words whatever order the values came in.
HonestSide(said, values) ==
  /\ said.example = Min(values)
  /\ said.capped <=> Cardinality(values) > ExampleLimit
  /\ ~said.capped => said.others = Cardinality(values) - 1

\* The failing tests of the workers that could be read.
RedTests == UNION {{<<p, one.case.test>> : one \in {r \in Ran(p) : r.red}} : p \in Read}

\* The total is a number of distinct failing tests, and every worker that could not be read is announced, as dead or as
\* unreadable.
CountsAreHonest ==
  Over /\ ~summary.silent =>
    /\ summary.total = Cardinality(RedTests)
    /\ summary.lost = Cardinality({w \in Worker : parallel /\ ~wire[w].present})
    /\ summary.unreadable = Cardinality(Heard \ Read)

\* The sizes are numbers of distinct failing tests; the values named are all there were; no two clusters read alike.
ClustersAreHonest ==
  LET showing  == UNION {UNION {{<<<<p, one.case.test>>, o>> : o \in ToSet(ObservationsOf(one.case.diff))} :
                                  one \in {r \in Ran(p) : r.case.fails}} : p \in Read}
      Tests(key)        == {s[1] : s \in {s \in showing : s[2].signature = key}}
      Values(key, side) == {s[2][side] : s \in {s \in showing : s[2].signature = key}}
      large    == {key \in {s[2].signature : s \in showing} : Cardinality(Tests(key)) >= Minimum}
      clusters == summary.clusters
  IN  Over /\ ~summary.silent =>
        /\ \A i \in DOMAIN clusters :
             /\ clusters[i].size = Cardinality(Tests(clusters[i].signature)) /\ clusters[i].size >= Minimum
             /\ HonestSide(clusters[i].actual, Values(clusters[i].signature, "actual"))
             /\ HonestSide(clusters[i].expected, Values(clusters[i].signature, "expected"))
             /\ \A j \in DOMAIN clusters \ {i} : summary.headings[i] # summary.headings[j]
        /\ Cardinality(large) = Len(clusters) + summary.omitted
        /\ summary.outside = Cardinality(RedTests \ UNION {Tests(key) : key \in large})

\* What the summary claims is so, counted from what the tests did (render, clusters).
SummaryIsHonest == CountsAreHonest /\ ClustersAreHonest

\* The late polls of a test in a process: which phase of it, and which poll of the phase.
Late(p, test) ==
  UNION {{<<p, i, n>> : n \in 1 .. done[p][i].case.late} : i \in {j \in DOMAIN done[p] : done[p][j].case.test = test}}

\* A key that two tests reached is named with the number of them, though no worker saw more than one, and so is
\* every late poll, under its test (_warn_on_reused_snapshot_keys, _report_retries).
SweepIsExact ==
  phase[Controller] \in {"finished", "over"} =>
    LET reached(key) == {one.case.test : one \in {r \in UNION {Ran(p) : p \in Heard} : r.case.key = key}}
    IN  /\ \A key \in {k.key : k \in Case} \ {NoKey} :
             \A n \in 0 .. MaxRuns : <<key, n>> \in swept <=> (n = Cardinality(reached(key)) /\ n >= 2)
        /\ \A test \in {k.test : k \in Case} :
             Cardinality({i \in DOMAIN polls : polls[i] = test})
               = Cardinality(UNION {Late(p, test) : p \in Heard})
=============================================================================
