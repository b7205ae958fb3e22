# A TLA+ model of assertpy2

assertpy2 is a fluent assertion library with a pytest plugin: `assert_that(x).is_equal_to(y)`. Much of it is one
condition on one value. This project models the parts where that is not so: state that outlives a call and is shared
by tasks, threads, processes or by code of the user's that runs in the middle of the library's, and the algorithms
behind the assertions that search, pair, walk or group. Each module names the source it is a model of, and
`PROJECT.json` maps each definition to its lines.

## The system

| component | source | state it keeps | operations | who touches it |
|---|---|---|---|---|
| soft blocks | `assertpy.py` 289-690 | `_soft_ctx`, `_soft_err`, `_soft_group` (context variables), `_SoftBlock` | enter, exit, `group()`, `soft_fail()`, a failing assertion | coroutines and threads with copied contexts, exceptions |
| verdict runs | `assertpy.py` 1739-2461 | `kind`, `_check_sink`, `_unmet_prerequisite`, `_answers_to`, `_run_pivots` of builders | `not_`, `check()`, `error()`, `_unmet()`, `builder()` | extensions that assert, nest, pivot and catch |
| extensions | `assertpy.py` 1263-1650 | registry, class attributes, dictionary of callables | add, remove, make a builder | threads |
| snapshot files | `snapshot.py`, `_snapshot_codec.py` | files and lock files; `_TOUCHED` per process | `snapshot()`, pruning | pytest-xdist workers, the controller, kills |
| inline snapshots | `_inline.py` | runs per call, source files | record, decide, rewrite | workers, controller, editors |
| plugin session | `pytest_plugin.py`, `_clustering.py` | counters and lists on worker and controller | setup, report, ship, merge, finish | workers that die or ship garbage |
| polling | `async_assertions.py` | `_PollRecorder`, the deadline; the chain, its coroutine | attempt, sleep, time out; link, await, drop | the probe, the clock, cancellation, the collector |
| reporting of passes | `_passes.py`, `assertpy.py` | open-block count, scopes, held attempts | `log_passes()`, observed calls, poll attempts | tasks and threads |
| one-shot reading | `_engine/_introspection.py`, `_mixin_base.py`, `_satisfies.py` | `Replay`: what the iterator gave so far | walk, drain, hand over | code of the user's, during a walk |
| containment, pairing | `contains.py`, `collection.py`, `_engine/_membership.py`, `_engine/_pairing.py`, `_satisfies.py` | none | search, index, count, augment | - |
| equality and diff engine | `base.py`, `_engine/_equality.py`, `_compare.py`, `_diff.py` | the pairs a walk is inside | `is_equal_to()`, `match.equal_to()` | values that lead back to themselves |
| exceptions and error trees | `exception.py` | the exception a chain has come to | `raises()` and the links after it | causes in circles, groups in groups |
| contract drift | `_engine/_contract.py`, `assertpy.py` 931-1123 | the finds of a walk | `assert_conforms(exact=True)` | pydantic, validators of the user's that reshape |
| most matchers, JSON and scalar assertions, messages, typed surface | the rest | a matcher registry | one condition each | - |

How they interact: `assert_that()` reads the soft context once and fixes the builder's mode; every failure goes
through `error()` and `_deliver()`, which is where soft blocks, verdict runs and warn mode meet. A snapshot asks
the builder whether it is answering a negation, and delivers its own failures through `error()`. A poll replays
recorded calls on fresh builders, in strict mode, and delivers its timeout in the mode of its chain. The plugin
carries what snapshot, inline and polling left in process globals from workers to the controller. Assertions about
items read the value through `Replay`, search it by `_membership`, and pair by `_pairing`; `matches_error_tree()`
pairs too.

What makes the components correct, and what is hard in each, is in `PROJECT.json` under `hazards`, at its line.

## Modules

| module | models | role |
|---|---|---|
| `SoftLedger` | - | abstract: a failure is known, told once, never forgotten |
| `SoftAssertions` | `_SoftAssertions`, `_Group`, `_SoftBlock`, `_collecting`, `soft_fail`, `_deliver` | implements `SoftLedger` |
| `Verdict` | `NegatedBuilder`, `CheckBuilder`, `_unmet`, `builder`, `_release_pivots` | |
| `Extensions` | `add_extension`, `remove_extension`, `_graft`, the builders made | |
| `ErrorTrees` | `ExceptionMixin` | recursive operators, with the definitions they are checked against |
| `SnapshotPromise` | - | abstract: every call takes effect at one instant |
| `SnapshotStore` | `snapshot`, `_file_lock`, `_save`, `_find_orphans`, `_prune_sub_key_orphans`, `pytest_testnodedown`, `pytest_sessionfinish` | implements `SnapshotPromise` |
| `InlineRecord` | `_inline.py`: the record of a run, the decision for a call, the rewriting of a file | operators |
| `Clustering` | `_clustering.py`: signatures, observations, clusters, summary | operators |
| `PytestSession` | the session side of `pytest_plugin.py` | composes `InlineRecord` and `Clustering` |
| `PollRecorder` | `_PollRecorder`, `_summarize` | operators, with the reference definitions they are checked against |
| `Polling` | `AsyncAssertionBuilder._poll`, `SyncAssertionBuilder` | extends `PollRecorder` |
| `PollChain` | the chains of `AsyncAssertionBuilder`, `__await__`, `__del__` | |
| `PassLog` | `_passes.py`, `_LogPasses`, `_scoped_builder`, `_observe`, the attempts of the polls | |
| `OneShot` | `Replay` and the links that read through it | |
| `Membership` | `_engine/_membership.py` | operators |
| `Pairing` | `_engine/_pairing.py` | |
| `Containment` | the assertions of `contains.py`, `collection.py`, `_satisfies.py` that search or pair | composes `Membership` and `Pairing` |
| `ObjectGraphs` | what `==` answers of two values, what the engine decides of one pair | operators |
| `DiffWalk` | the structural walk, its alignment and the diff it writes | extends `ObjectGraphs` |
| `EqualTo` | `is_equal_to()` and `match.equal_to()` | extends `DiffWalk` |
| `PayloadTypes` | payloads, annotations, and what pydantic's validation builds and drops | operators, external |
| `ContractDrift` | the walk of `_contract.py` and `assert_conforms()` | composes `PayloadTypes` |
| `SoftAssertions_proofs`, `SnapshotStore_proofs`, `PassLog_proofs`, `PytestSession_proofs` | | theorems |
| `Verdict_proofs` | | theorems about `Verdict` and `Extensions` |
| `Polling_proofs` | | theorems about `Polling` and `PollChain` |
| `Collections_proofs` | | theorems about `Pairing`, `OneShot` and `Containment` |
| `PassLogInvariant_proofs` | | the invariant of `PassLog_proofs`, and lemmas about the steps it is kept by |
| `MC...` | | constants for TLC, and which modules share a run |

A definition whose comment begins "A slip" is a mutated form of the one after it, which a mutant puts in its place
to show that a property notices. No action uses it.

Three MC modules hold several modules that do not interact: a behaviour of `MCVerdict`, `MCPolling` or
`MCCollections` draws in its initial state what it is `about` and takes the steps of that module only. The state
of a run is then the sum, not the product, of theirs.

### SoftAssertions

One record per `with` statement is on the stack `frames` of its task; `ctx`, `err` and `group` are the three
context variables, one copy per task. `Spawn` copies the three (a coroutine, `asyncio.to_thread`) or leaves the
new task's empty (a plain `threading.Thread`), by `CopiesContext`. A block object is one value shared by every
context that names it. `EnterFresh`/`EnterNested` are the two branches of `__enter__`; `Close`/`LeaveNested`
those of `__exit__`, with or without an exception passing (`flying`). A failed assertion on a builder made in
soft mode, and `soft_fail()`, go through `SoftDelivery`. Coroutines switch only at an `await`, and the library
has none here, so their steps are whole calls. A thread's delivery takes two steps: reading the flag, and
appending (`CollectIt`, then `AppendHeld`). `told` and `happened` are history, and so is `base`. A failure is
told when an exception carries it: its own, the aggregate of the block, or another on whose note it travels.

### Verdict

One thread. The four fields a run saves are in `obj`, per builder; a frame of `stack` is one call of `_verdict()`
or `_checked()` with its locals. Between a `Begin` and its `End` any step may happen on any builder made so far:
that is an extension's body. `EndNot` is everything `not_` does once the assertion returned, in all four modes;
`Unwind` is the `finally` clause alone. `first` in a frame is history: the failure a strict run of the same code
would have stopped at.

### Extensions

One name, since names do not touch one another. A function is an attribute of the builder class; any other callable
is in a dictionary, and put on each builder as it is made. `add_extension()` holds a lock
from its look at what is there (`Add`) to what it puts there (`Installs`); `remove_extension()` takes none. Each of
their statements is a step, and steps of removals fall anywhere. Two functions may have the same code, which is when a
second registration is no collision (a fixture that runs twice). What a builder is owed is kept as history (`promised`)
from the calls that are over; where a removal overlaps another call it is `Unknown`.

### ErrorTrees

`links` and `members` are the attributes of the exceptions, `view` the builder in hand. Each link is an action; what it
decides goes through `Answers`, which is the part of `error()`, `_unmet()` and `not_` they share. `RootCause`,
`Nodes`, `Leaves` and `MatchesShape` are the walks of the code; the property compares them with definitions that do not
walk: the root is the exception whose loss cuts nothing else off, the order of a tree is that of its places, and a
shape fits by Hall's condition.

### SnapshotStore

`store` is the file, `lock` the lock file with the name of its maker. A call is `Start`, `Acquire` or `TimesOut`,
`LoadsNothing` or `LoadsRecord` (the load and the decision, which nothing can interrupt but a kill), `Saves`, and
`Releases` with the answer. The comparison against a record that is not rewritten happens after the lock is
released, on what was loaded under it, so it is decided at the load. Code of the user's that is asked under the lock
(a placeholder, a comparator, `__eq__`) may take a snapshot in the same file: `StartsInside`, which waits for the lock
of its own process, and `InsideTimesOut`, whose error ends the call around it or is swallowed. `Ends` and `Dies` are
the two ways a worker leaves; `FindsOrphans`, `LoadsForPrune` and `Prunes` are the end of the session.

The refinement of `SnapshotPromise` reads the answer of a call that writes at the save and of any other at the
load, whatever is told later (`AnswerNow`). The answer of a call inside a call is not part of it: it is always that
it timed out.

### PytestSession, InlineRecord, Clustering

A test has three phases, each of which may fail, reach an inline snapshot, reach a snapshot key and leave a late poll.
A process keeps what its phases left; `Finishes` hands it to the controller (`pytest_sessionfinish` on a worker),
which merges it in the order it comes (`pytest_testnodedown`), or cannot read it, or hears that the worker died. The
end of the session writes the inline literals file by file, sweeps for shared snapshot keys, and summarises. A source
file is a sequence of tokens; an edit of the user's puts one at its start while tests run, which moves every offset.
`InlineRecord` is the part of it that is about one call and one file; `Clustering` is the grouping of failures by the
difference they share.

### PollRecorder and Polling

The recorder is a record with the fields of `_PollRecorder`; `Recorded` is `record()`. `Summary` is the sentence
as the claims it makes, and `True` says when those claims hold of the whole sequence of attempts. `Window` is what
the samples should be, defined on that sequence without a recorder. In `Polling` the clock ticks at any moment, so
an attempt may outlast the budget and a sleep may end late.

### PollChain

`chains` are the objects made, with the fields that decide the warning; each link makes a new one and supersedes the
old, which may still be held, branched off, awaited, run as a task, cancelled, or dropped. A chain nobody holds is
collected by reference counting or, once a coroutine was made of it, by the collector of cycles, at any time and in any
order. `heard` is history: what the test did, and what it was told.

### PassLog

`entries`, `calls` and `attempts` are the `PassScope`, `Observed` and `Held` objects ever made; `ctx` holds the
three context variables of a task, `stack` the part of its Python stack that has a marker in it, and a frame's
`old` is the token it resets. A builder is known by the entry it reports to, since nothing else about it is asked
here; that makes a pivot the same builder as its parent, as `_builder_like()` intends. `Begin` to `Return` or
`RaiseFromCall` is `_observe()`; the callback or logger runs between `Tell` and `TellEnds` or `RaiseFromFlush`,
over the assertion that reports or over the flush. `BeginAttempt` is `holding()`, `PassAttempt` and
`RaiseFromAttempt` are `release()` on the two ways out, `FlushStep` and `FlushEnds` are `flush()`. `BeginQuietly`
stands for the markers that report nothing: an assertion asked for its verdict, and the steps a blocking chain replays.

Tasks interleave wherever user code runs, and anything may happen there: another block, a poll, leaving the block
the assertion is watched by, starting a task. That is exact for `copy_context().run()` and for asyncio tasks, and
more than asyncio allows inside a callback. What runs between two such places is one step, so two threads in one
copied context are not interleaved inside `emit()` or `flush()`; `PROJECT.json` lists that hazard as uncovered.
A logger answers `isEnabledFor()` the same throughout an entry. `by`, `under`, `passed` in `calls`, `end` in
`attempts` and `reported` are history.

### OneShot

`frames` is what is under way: a walk hands an item to code that may begin another walk of the same chain, drain it,
or, where it was handed the iterator itself, take items behind the chain's back. `kept`, `seen` and `givenAway` are
the fields of `Replay`. The iterator may raise, and may go on after it did. Code that kept the iterator and takes from
it when no link handed it over, or after a link of its own read more, is left out: the chain cannot see it.

### Membership, Pairing and Containment

An object has an identity, a hash, and a symmetric `==`: `1` and `1.0`, a NaN, `mock.ANY`, a signalling NaN that
refuses to be hashed, and a matcher stand for the combinations. `Membership` has each search twice, as the walk the code
does below `WalkUnder` comparisons and as the set or Counter it uses from there, so the bound of 400 becomes 4.
`Containment` asks the assertion; those that hold in any order run `Pairing`, one step of its loops at a time, from
`options` in any order; `ContainmentIsExact` compares every verdict, and what the failure names, with a definition that
searches nothing. A pair whose `==` raises is one that `equals()` answers false for, and a value equals a matcher when
the matcher matches it, as `Matcher.__eq__` does. `ContainmentSpec` is what is proved about; a run checks its steps
beside those of other modules.

### ObjectGraphs, DiffWalk and EqualTo

A value is an atom, or a box with a kind and parts, which may lead back to it. `NodeDecision` is what the engine
decides of one pair before it takes it apart. `DiffWalk` is the walk: its stack, what it owes the pairs around it, the
entries it writes. `EqualTo` is the question: mappings by their keys, sequences with keys left out item by item, the
rest by `==` or by the walk, once as an assertion and once as a matcher. The reference, `PartsAgree`, is the greatest
relation that no difference of a reachable pair contradicts.

### PayloadTypes and ContractDrift

`Validate` is pydantic as the code relies on it, and it says what the code has to find out without being told: the paths
of the keys that were dropped. It also says which parts are loose, those that were not built item by item or key by
key: sets, resized lists, keys made one, iterables read once, dicts several types may have built. `ValueDrift` and what it
calls are the functions of the same names; a declaration is `Told` by an annotation or `Untold`, known from the schema
alone. `DriftIsExact` compares the two: outside loose parts a key is named exactly when it was dropped; inside, a part
may be refused, and a key named that was not dropped. A key that was dropped is passed over in silence only inside an
odd item, one that a validator took away where it left items of one other class (see below).

## Runs

| run | instance | shows |
|---|---|---|
| `soft_blocks` | 3 tasks (one a thread in an empty context), 3 blocks, depth 3, 1 failure | type, no orphaned failure, one owner per block, the owner collects into its block, refinement of the ledger |
| `soft_fairness` | 2 coroutines, 2 blocks, 2 labels, depth 2 | the label in effect; a collected failure is told |
| `soft_threads` | main and a thread in a copied context | **violated**: an orphaned failure |
| `verdicts` | a builder, 2 pivots, 3 nested runs, 3 modes; or 2 threads, 3 changes, 2 builders, 3 functions (two of one code), 2 other callables; or 5 exceptions, two of them groups | the first failure is the verdict, nothing is left of a run, a negation is silent only on an answer; no addition replaces another's, builders call what the calls that are over left; every link about an exception is answered for the one the chain came to |
| `verdict_answering` | a builder and 2 pivots in strict mode, 2 nested runs | **violated**: a pivot marked as answering a negation that is over |
| `snapshot_store` | 2 workers (one mortal), 2 keys, 2 values, one call each and one inside each, 4 kinds of session | refinement of the promise, mutual exclusion by the lock file, calls end, pruning keeps what ended workers used |
| `snapshot_prune` | the same | **violated**: what a dead worker used is pruned |
| `session` | 2 workers (one mortal, one that may ship garbage) or none, 3 phases, 3 files, 4 calls, 1 edit, every write fault | literals are put where every case takes them; nothing asked for is dropped in silence; the summary claims only what is so; the sweep counts over all processes |
| `polling` | 2 comparable values and an uncomparable one, 2 exception classes, 5 attempts, window 1+2; or 3 chains of one test | the samples and the sentence are true; no early time-out, and none without asking after the last sleep; a poll ends; a warning for each abandoned chain and no other |
| `pass_log` | 2 tasks, 2 entries, 2 observed assertions, 1 quiet stretch, 2 attempts (when both tasks run, 1 entry, or 2 with 2 assertions and attempts between them) | the factory follows the open blocks; markers live as long as what they mark; only outermost assertions are lines; a pass is told once, in order, to its own open entry, and only once the attempts around it passed; none is lost |
| `collections` | lists of up to 3 of 6 objects, texts of up to 3 characters, 3 by 3 pairings; or 3 links over 3 items with 1 error; or 2 values of up to 2 parts and a third they may share, 9 combinations of kinds, 7 of options; or a payload held to a model of one field, of some 100 types | verdicts and what failures name match definitions that do not search; a pairing is maximum; all links read alike; comparisons agree with the greatest relation, the assertion with the matcher, and every difference is told; an exact check names what validation dropped |
| `text_absence` | the same | **violated**: a long text is asked for parts by its characters |

Why the bounds are enough. `soft_blocks`: a block that is inherited, one of the heir's own and one entered
after either closed are three; a third nesting level is entered from inside a nested one, which is the case the
depth counter could get wrong. One failure is enough for the ledger, since no action reads another failure than the one
it delivers; the types of the lists allow more and the proofs are for any number.

`verdicts`: a run inside a run inside a run has an enclosing run that is itself enclosed, which is where fields are put
back twice; two pivots may answer to one holder or one be made by the other. Of extensions, a removal that overlaps an
addition that overlaps another is three changes; of two builders one is made before and one after. Of exceptions, two
and a group are in every circle of causes the walk can be led around, with an entry outside it; a group of three with a
group in it, against trees of up to three, is where a shape fits only in another order than it is written.

`snapshot_store`: the interleavings that could lose an entry need two workers with different keys, those that could
create one twice need the same key, and a stale lock needs one death. The proofs are for any number of all of them.

`session`: a decision that depends on the order needs two runs of a call on two workers; a third is one that has no
literal to offer. Two calls in a file are one that moves the other's offset. A value list and a cluster list that
overflow are of one and of two (the code's are larger and differ in size only).

`polling`: a window of one and two samples fills, collapses, drops and drops again within five attempts, and
the code's 5 and 20 differ only in size; five attempts hold a raise, a recovery, another raise and a cycle. The
budget of 1 lets an attempt begin before the deadline, at it and after it, and end in any of these places, before the
clock stops at 2; a budget of 9 is one that is never spent, so that polls of every length are seen. Three chains are a chain, its successor and a branch.

`pass_log`: two entries and two attempts give each order in which an entry and an attempt inside another attempt
can begin, which is what decides where a pass waits, and two passes are enough to be out of order or to be cut off
by a callback that raises. An attempt that is over in the context of the task that runs the second one needs two
attempts and one entry. Where both tasks run, a second entry is open only while no more than two assertions and attempts
were begun (`MaxShared`, `MaxBusy`): each task holds a block, leaves it first or last, and asks something in it, but not
all the lengths at once.

`collections`: three entries and three options have augmenting paths through two owners, one of which was itself moved.
An iterator of three items can be taken from behind a walk that stands between what was read and what is left. Two
values and a third they may share, with references back to the root, make every pair that is met again inside itself,
met twice beside itself, and met again under an outer pair that is not settled; alignment is checked for up to two
items, and the fast paths for longer sequences are left out with it.

A payload has one level above a field and two below it, which is a container of classes that hold containers; lists of up
to two have an item that was taken away beside one that stayed; two keys, an alias, and an alias of an alias are every
order in which two spellings can be tried. Of pairs of a type in a container and a container in a type those are chosen
that pair, replay or refuse differently.

Symmetry is used where a run checks no liveness: over blocks and failures in `soft_blocks`, over pivots in
`verdicts` (nothing of `Extensions` or `ErrorTrees` names a builder) and over tasks in `pass_log` (its temporal
properties are about single steps). Deadlock is not checked where the system may stop: a session ends, a test has no
more calls to make, a bound is reached. `collections` and `text_absence` check it: a question is always answered.

### What the violated runs say

* `soft_threads` - `_deliver()` asks whether the block listens and appends later, without a lock. For a thread
  that runs in a copy of the block's context the block may close in between. The comment of `_SoftBlock` and the
  guide promise otherwise. Coroutines and plain threads are safe, which is proved.
* `verdict_answering` - a pivot made under `not_` inside `check()` keeps `_answering_another` until the outermost
  run ends, and a snapshot asked of it is refused though no negation is running.
* `snapshot_prune` - a worker that dies ships nothing, and the session prunes without asking whether one did.
* `text_absence` - `does_not_contain()` with two or more items builds an index of a `str`, as its siblings take care
  not to; from 400 comparisons on a part of two characters is looked for among single ones and never found.

### Smaller disagreements

Met while modelling, allowed for by the properties, and not runs of their own:

* `contains_exactly(nan, 1, 2)` on `[nan, 2, 1]` names index 0 as where the order differs: the first index is found by
  `!=`, the verdict by identity or `==` (`contains.py` 848-855).
* `assert_that("ab").contains_sequence("a", "b", "a")` is worded without the "after ..." it has for a list
  (`contains.py` 675).
* The matcher and the assertion are said to be one relation (`matchers.py` 289-297). Under `strict_types` with keys
  left out, `[[...]]` and `[Own(...)]`, `Own` a class of lists, differ for the assertion and are equal for the matcher,
  since only the assertion asks the classes of the items (`base.py` 384-393, `_engine/_equality.py` 837-843). One list object
  on both sides, under comparators, passes the assertion by identity and fails the matcher (`_engine/_compare.py`
  859-866); with `strict_types` added the assertion fails too. `SpelledEitherWay` leaves these out, and
  `VerdictIsAgreement` a value compared with itself under comparators.
* A chain made by `described_as()` whose coroutine attributes were read, and whose await was then refused, still warns
  that it was never awaited, against the comment at `async_assertions.py` 606. `AbandonedIsHeard` excepts that chain, and
  only that one: any other that refused is not warned of.
* A call of an extension is named by the outermost one on the builder, so that A on one builder, C on another and B on
  the first again is reported as B, and a call inherited by a thread in a copied context that ends meanwhile leaves the
  thread's failure unnamed (`assertpy.py` 1379-1445). Names of calls are not modelled.

* Where every built item is of one class, `_unpaired` takes each raw item for one that became it (`_engine/_contract.py`
  1588-1622: "each raw item became one too"). A validator that takes an item of another class away, from a `tuple[A, B]`
  or a list of a union, breaks that: the item is read as the class that is left, and a key its own class dropped may go
  unnamed, though the documentation says that items of mixed classes in a resized list fail (`assertpy.py` 992).
  `DriftIsExact` excepts that item (`OddItem`) and nothing else: the items that were left, and an item taken away from
  its own class, are held to it. Without the exception TLC finds it violated.

## Fairness

`soft_fairness` assumes that the body of each open `with` statement ends, at every depth (strong fairness of
leaving at that depth, since a body may enter and leave others in between), and that a thread finishes an append it
began. It does not assume that anything fails or is caught. Python guarantees neither that a body ends nor that it
fails; the property is about blocks that do end.

`snapshot_store` assumes that a live process goes on with the call it is in, and that a call inside it meets its own
deadline; a killed process is not assumed to do anything, its lock file stays, and the others' calls end by their
deadline.

`polling` assumes that the clock goes on, that the probe returns or raises, and that the loop is given its turn.
Nothing makes an assertion hold. A probe that blocks forever blocks the poll in the code too. The fairness is assumed of
the behaviours about polls only: Python does not promise when a chain is collected, and nothing about chains is a
liveness property.

The other runs check safety and assume no fairness.

## What is proved

`SoftAssertions_proofs`, for any sets of tasks, threads, blocks, failures and labels and any depth:

* `TypeCorrect` - the type invariant;
* `NoFailureOrphaned`, `OneOwnerPerBlock`, `OwnerCollects` - the three safety invariants of `soft_blocks`, from
  the assumption `~CopiesContext`, that no OS thread runs in a copy of a block's context. `soft_threads` shows
  that the first needs the assumption;
* `BlocksKeepTheLedger` (`KeepsLedger`) - from the same assumption, `Spec` implements `SoftLedger!Spec` under `Pending`;
* `LabelIsInnermost` (`GroupInEffect`) - without it.

None of the three invariants is inductive: that an exit closes the block its own entry made, and not one it inherited,
depends on what every statement open in the task did to the depth. The invariant `IInv` keeps, for each frame, the
depth before its entry (`was`); the frames of a task above the one that made its block count up from one without a
gap; a task that inherited a listening block stands at least at the depth it inherited; and a pending append is
into a block that its thread still owns. `Close` then needs the lemma `OutermostIsOwner`: an exit that brings the
depth to zero while the block listens is the exit of the entry that made it.

The ledger is a set, the blocks are lists that a list of tasks append to in two steps. Over `IInv` the refinement needs
`OneHome`: a collected failure has happened, and is in one block or in the hands of one task. What a closing block
reports is then no other block's, and `Pending` loses just that. Each step is one of the ledger or leaves
it alone (`StepLedger`). For the labels, `LabelsHold` says of every `group()` that is open what was in effect where it
was entered, since that is what its token will put back.

`Verdict_proofs`, for any builders and any depth of runs:

* `EachRunHasItsFirst` - a run is told of the first failure in it, the one a strict run of the same code would have
  stopped at, however runs nest, share a holder, pivot or are cut short;
* `SilenceIsRead` - a builder collects in silence only while a run is there to read it;
* `RunsLeaveNothing` - when no run is open, every builder is in the mode the first was made in, and nothing of a run is
  left in it: no run can put back another mode than that or `check`, and its pivots get the one it puts back (`Heeds`);
* `NegationIsHeard` - `not_` is silent just when its assertion failed with an answer; an assertion that held, or that
  lacked what it needs, is heard aloud or by the enclosing run.

Several runs save and restore the same two fields of one holder, so the property of each speaks of the fields only
while it is innermost. What the invariant adds is where a run's note is otherwise: in the frame of the next run of that
holder inside it (`SinkKept`, `UnmetKept`, by `Innermost` and `Within`). That a frame restores the right mode needs
`Placed` (the outermost run of a holder saved the mode it was made with, the others saw `check`) and `Silent`;
that a pivot reads the fields its holder has needs `Linked`. `Marked` is about the flag that tells an outer `not_` it
is answered for. `Inv(o, s, m)` is stated of any builders, runs and builders made, so that a run that ends and fails
into the one around it is two small steps, each a lemma.

`PassLog_proofs`, for any tasks and any number of entries, calls and attempts:

* `MarkersAreTrue` (`AliveIsRunning`), `InnerIsQuiet` (`OnlyOutermost`), `BuildersAreScoped` (`FactoryMatches`);
* `TellsWhatPassed` (`OnlyWhatPassed`), `TellsTheOpenBlock` (`IntoOpenEntry`) - what a step that reports a pass may do;
* `NoPassIsLost` (`Accounted`) - a pass to be reported is told, waits, or there is a reason it can no longer be told;
* `PassesInOrder` (`InOrderOnce`) - those of one task into one entry are told in the order asked, each once.

The context variables of a task say what is on its stack, unless it inherited them: the invariant says what a frame
found there (`Handed`, `Watched`, `Shaped`), that no two frames are of the same call (`Single`), and that an attempt
began after those around it (`Nested`). Of the passes an attempt holds back it says that each could be told if the
attempts it depends on passed (`Recorded`), and that each of these has passed or is around the attempt (`Settled`): the
outermost one that passes then releases nothing that another may still discard. `Births` is about
the numbers entries and attempts are given when they are made, which the code compares to tell what is inside what.
That an entry left is open needs the chain of entries each task is in (`Blocks`). `Accounts` is inductive beside all
this, by cases of where a pass is.

`Order` is inductive beside it too. For a task that is `Apart`, in no attempt but those on its own stack, it says that
the passes of one task into one entry are in order in what was told and in what each attempt holds, that what was told comes before
what is held, and what an outer attempt holds before what an inner one does (`Sorted`); and that the assertion which
runs was asked after all of these (`Latest`). What an attempt flushes first is then due next (`FirstHeld`), whether it
is told or handed to the attempt around (`FurtherOut`). No step makes a task that has asked something apart that was
not (`Fewer`, `PollMore`), so a task which shared an attempt has no order to keep later. `NotBornIsApart` leads from
the property's words to `Apart`.

`SnapshotStore_proofs`, for any workers, keys, values, sessions and number of calls:

* `LockExcludes` - only the process whose lock file it is is between the load and the release;
* `EndedKeepTheirs` - a session that prunes keeps what workers that ended had touched;
* `TakesEffectAtOnce` - the refinement: `Spec` implements `SnapshotPromise!Spec` under `AnswerNow`.

The invariant adds to mutual exclusion what it is for: whoever is about to write holds what is in the file now
(`NothingMissed`), so replacing the whole file changes one key; a call about to write still may (`MayWrite`), since the
record it was decided on is the one there; a call has no answer while it runs (`AskedInCall`); and the controller prunes
when the workers are gone, nothing that is in `merged` (`PruningIsDue`). `StepPromise` then has one step per action:
each leaves `AnswerNow` alone, or changes it for one worker as an action of the promise does.

`Verdict_proofs`, of `Extensions`, for any threads, implementations and number of calls: `RegistryHolds` (`ExtensionsHold`). An addition
has the lock, a removal has none and may come between any two of its steps; the invariant says what a thread in the
middle of a call may rely on whoever removes meanwhile, and what besides if nobody did (`Relies`). `Overlaps` makes the
second of use: a call that saw no other is the only one, and nothing is promised while any runs. What was promised
last is in the one place it belongs to and the other is empty (`IsThere`), and a builder has its own copy of what was in
the registry when it was made (`BuilderHolds`).

`PytestSession_proofs`, for any workers, tests, files and number of phases: `SweepHolds` (`SweepIsExact`) and `CountsHold`,
the half of `SummaryIsHonest` that counts: the total is the number of distinct failing tests of the workers that could be
read, and who died or could not be read is announced. This invariant relates what a process noted to what it ran
(`NotedBy`), what is on the wire to that (`Ships`), what the controller merged to those whose end it heard of (`Merged`),
and what it said to both (`Told`). Late polls are counted: a list holds a test as often as a set of marks has elements
(`Tally`), and lists put together hold what sets that have nothing in common hold together (`TallyTogether`).

`SummaryHolds` (`SummaryIsHonest`) adds the clusters. A list of failures is known by what it shows, the pairs of a test
and an observation (`Shows`): what a process noted shows what its failing tests did (`ClusterNoted`), naming tests by their
worker (`ShowsRenamed`) and merging (`ShowsTogether`) keep it, and what was read off the wire is what was sent
(`ClusterShips`, `GarbledFailures`). `ClusterInv` holds this up to the summary, and `Clusters`, `Headings` and `Side` are
shown to say of a list only what is so of that set: the values of a side are kept one by one, the smallest always and
all of them up to the limit, the clusters are listed each once, and headings that read alike are numbered apart.
The observations, the values and the list are recursive functions; `Upward` (an induction from 0, by `WFMin`) gives
each what it needs to be unfolded (`UpwardRecursion`). It is assumed that a case's differences are a sequence with
values of which one can say which sorts first (`DiffAssumption`).

Of the inline snapshots it proves `LiteralsAreTaken` (`LiteralsHold`) and `NothingIsDropped` (`NothingDropped`), by an
invariant of the same shape (`InlineInv`): every reach a process recorded has a run at the place its call had in the file
as it was then (`SeenHolds`), and every row that is shipped or merged tells of a reach what is true of it, with a row for
each (`RowsTell`). At the end of the session one row is enough to know that a literal is taken by the reach it tells of
(`GivenIsTaken`), and that a reach that asked is given one or named (`WrittenIsTold`). Between the decisions and the file
is the rewriting: `Rewritten` puts the literals in from the last offset to the first, `Spliced` says the file token
by token, and the two are shown equal (`RewriteIsSplice`), by going from the end of the file to its start with the part
that is behind already done (`OneEdit`, `WrittenFrom`). "To the start" is `Downward`, which is `WFMin` once more; it
also gives the two functions, whose definitions are recursive, what they need to be unfolded (`DownwardRecursion`). That
a literal is found again where it was put is `LiteralFollows`. The proofs assume that a call is one token of one file
and that a call written with a literal is followed by it (`SourceAssumption`), and that a comparison without functions of
the test's answers at the end as it did (`ReachAssumption`): what makes it safe to ask it then.

`Polling_proofs`, of `Polling`, for any probe, budget, interval, limits of the samples and number of attempts:

* `BudgetIsUsed` (`UsesTheBudget`) - a timeout comes when the budget is used up, tells of an attempt made since the last
  sleep, and is preceded by at most one attempt begun when time was up (`Budget`);
* `WindowIsKept` (`KeepsTheWindow`) - the samples are the first runs of attempts that do not differ and the last ones, with
  the repeats of each and the gap between them counted;
* `SummaryIsTrue` (`TellsTheTruth`) - each claim of the sentence is so of all attempts, those the samples dropped included.

`PollHolds` says of the recorder what it knows of the whole sequence of attempts: the samples are its window (`Shows`),
the counters count it (`Facts`). Both are kept by one more attempt: the starts of runs are numbered in their order
(`Enumerated`), and an attempt either lengthens the last run or opens one (`RunsGrow`). The claim that a value "cycles"
is read off the samples alone; it is so since a sequence with as many changes as it has values must repeat one
(`MoreThanAPath`, by counting), and a sample is an attempt (`Position`).

Of `PollChain`, for any number of chains and links: `DroppedIsHeard` (`AbandonedIsHeard`). The invariant ties the flags of
a chain to what was heard of it while it lives (`Told`): a chain that was superseded has a branch, one that was awaited or
whose coroutine ran was heard of, one that refused asserts nothing and is marked, one that warned is gone. It is of one chain and whether it branched, so a
link is two small steps, on the chain and on the new one.

`Collections_proofs`, of `Pairing`, for any entries and options: `AlwaysAPairing` - no entry has two options nor an option two entries,
and each pair is one that is accepted, in the middle of a displacement too - and `PairedStays` - what is paired once
stays so. The invariant is about the chain that is followed: its entries are distinct, each gave its place up to the one
before it (`ChainHolds`), and the first has none (`Unpaired`).

`NoPairingIsLarger` (`PairingIsMaximum`) says that no pairing there is has more pairs, for any finite number of entries
and whatever pairs `completed_pairing()` begins with. An entry is lost when it is in a set that accepts only what is paired within the set
(`Closed`). A search that fails leaves such a set behind, the entry and all it asked to move over (`Explored`,
`GivesUp`); no later chain that succeeds passes through one (`ChainAvoids`), so it stays closed (`LostStays`) and to try
each entry once is enough (`Settled`). At the end each pair of another pairing is sent to an entry that is paired here, one
of a lost entry to the owner of its option, and no two to the same (`NoneHasMore`). "The last place on the chain that is
in the set" is found by `WFMin`, which stands in for an induction along the chain.

Of `Containment`, for any objects, `==`, hashes and matchers that `MembershipAssumption` allows, any collections and items,
and any size from which a set or a Counter answers: `AnswersAreExact` (`ContainmentIsExact`). Every search but the pairing is one
step, so the work is in what it computes. A function that goes through a sequence is unfolded once (`UpwardRecursion`), and
what it computes is proved of its first n elements, for all n, by the least n of which it is not so (`FirstOf`, `Upward`):
the elements some have and their number (`ThoseTold`, `ThoseLength`), the repeats (`RepeatsAreNamed`), the first end of texts in
turn (`TheFirstEnd`). That `contains_in_order()` may take each item at the first place left for it is `TheFurthest`: whoever
places more items among the first n elements places one fewer, or as many, among those before (`PlacedBefore`). An index answers
as a walk does where types are safe (`HashedAlike`). The surplus two Counters leave is what the best pairing leaves: of one
kind of equal values, a pairing that could not be larger leaves over as many as there are too many (`OfOneKind`), and the kinds
are apart since `==` is transitive among safe types. The walk that pairs values with items as it meets them leaves a valid
pairing (`GreedyIs`), so the invariant of `Pairing` holds from there on, and with `NoneHasMore` what is left over at the end is
what no pairing has a place for. `ContainmentInv` adds to both only what a question that waits for a pairing was about.

Of `OneShot`, for any number of items, links, errors and depth: `LinksReadAlike` - a walk that ended read the items
from the first on without a gap, up to the end of the iterator or to where it was told to stop. The invariant says that
what was kept is a run of the items (`SeenIsARun`), that an end that was seen is the end (`DoneIsTheEnd`), and what code
that was handed the iterator may have taken (`Handed`).

The proofs assume of the constants what the modules' ASSUMEs say and TLC evaluates.

Model-checked only: liveness (`PollEnds` among it), and the verdicts of `EqualTo`, `ContractDrift` and `ErrorTrees`
(`VerdictIsAgreement`, `EveryDifferenceIsTold`, `SpelledEitherWay`, `DriftIsExact`, `ErrorsAreRead`). Liveness is beyond
the prover. So is induction over values, payloads and error trees of any depth, which a proof of those for every input
would need; their operators are RECURSIVE, which the prover does not take either.

## What is not modelled

The JSON assertions, the matchers other than `match.equal_to()`, sortedness and the scalar assertions
are functions of one value; the dangling scan is a walk over the syntax tree of a test file; the typed surface does not
run. Wording, hints and layout of messages are left out. In the modelled parts:

* snapshots: the JSON encoding is taken as faithful; comparators and placeholders are reduced to whether they accept
  the value; the warnings are left out; `matches_contract_snapshot()` follows the same protocol and is not modelled apart;
* soft blocks: value taint after a soft failure; one `group()` object entered twice, since the model keeps the token of a
  group with its frame and the code with the object (`assertpy.py` 338-347);
* snapshots: a write by another session between looking for orphans and pruning, when the workers of this one are gone;
* session and inline snapshots: how a call is found in the syntax tree, the layout of a literal, encodings; a row that a
  worker ships is taken as well formed; the runs of a worker that dies are unknown to everybody;
* extensions: the name a call is reported under; a builder that is not made because the dictionary changed while it was
  read; what a removal that overlaps an addition leaves is `Unknown`, since it may take the newer one away or fail;
* error trees: unions of classes, `warns()`, what an inert builder refuses;
* poll chains: the end of the interpreter, where warnings are gone;
* containment: numpy's element-wise comparison, sets and dictionaries as the value, sizes, extracting;
* equality: text, sets and the fields of objects, `rel`, `ignore_null`, `include`, nested key paths, keys of several
  types, alignment of more than two items, numpy, and the views a failure is described with.

* contract drift: what validators do inside pydantic is `PayloadTypes`' choice of it, keys built into models, payloads
  that hold themselves, the caches, the payload put back as it was sent before it is walked, contract snapshots.

## Plan

1. Sortedness and the registry of matchers; contract snapshots.
2. The names of extension calls, as a stack per builder and context.
3. Alignment of three items and more, and the fields of objects, in `DiffWalk`.
4. Proofs: that `DiffWalk` never has a pair twice on its stack.
