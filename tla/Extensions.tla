----------------------------- MODULE Extensions -----------------------------
(***************************************************************************)
(* The registry of extensions: add_extension() and remove_extension() by   *)
(* several threads, and the builders made meanwhile, in                    *)
(* assertpy2/assertpy.py.  Names do not touch one another, so there is one *)
(* name, which a built-in of the library may have as well.                 *)
(*                                                                         *)
(* A function is put on the class of the builders, and every builder has   *)
(* it at once.  Any other callable is kept in a dictionary and put on each *)
(* builder as it is made.  add_extension() works under a lock and          *)
(* remove_extension() does not, so its steps fall between those of others. *)
(* To make a builder is one step: a thread that walks the dictionary while *)
(* another adds to it may be raised at, and then has no builder.           *)
(***************************************************************************)
EXTENDS Naturals, Sequences

CONSTANTS
  Thread,
  Function,      \* functions
  Callable,      \* other callables
  Code,          \* the code of each function, which rebuilding it does not change
  Nothing,       \* no implementation
  Unknown,       \* any, where calls that overlap leave it open
  MaxChanges,    \* bound: calls of add_extension() and remove_extension()
  MaxBuilders    \* bound: builders made

Implementation == Function \cup Callable

ASSUME ExtensionsAssumption ==
  /\ Function \cap Callable = {} /\ Nothing \notin Implementation \cup Thread
  /\ Unknown \notin Implementation \cup {Nothing} /\ "built-in" \notin Implementation \cup {Nothing}
  /\ DOMAIN Code = Function

VARIABLES
  builtIn,    \* whether the library has an operation of the name
  onClass,    \* vars(_ExtendedBuilder) at the name
  kept,       \* _extensions at the name
  lock,       \* _extensions_lock: the thread that holds it, or Nothing
  doing,      \* what each thread is in the middle of
  builders,   \* the builders made, in turn
  changes,    \* the calls made
  promised    \* history: the implementation calls that are over have left, where they did not overlap

extensionVars == <<builtIn, onClass, kept, lock, doing, builders, changes, promised>>

Idle == [at |-> "idle", impl |-> Nothing, override |-> FALSE, alone |-> TRUE]

ExtensionsInit ==
  /\ builtIn \in BOOLEAN
  /\ onClass = Nothing /\ kept = Nothing /\ lock = Nothing
  /\ doing = [t \in Thread |-> Idle]
  /\ builders = <<>> /\ changes = 0 /\ promised = Nothing

Same(one, other) == one = other \/ (one \in Function /\ other \in Function /\ Code[one] = Code[other])

Removing(t) == doing[t].at \in {"deleting", "popping"}
Adding(t)   == doing[t].at \in {"clearing", "emptying", "installing"}

Goes(t, at) == doing' = [doing EXCEPT ![t].at = at]

\* A call that begins is noted in those it overlaps: a removal in every other, an addition in removals.
Begins(t, new, others) ==
  doing' = [u \in Thread |->
    IF u = t THEN [new EXCEPT !.alone = others = {}]
    ELSE IF u \in others THEN [doing[u] EXCEPT !.alone = FALSE] ELSE doing[u]]

\* It returns, or an error of a step is raised out of it, and what it leaves is known if nothing fell in between.
Returns(t, leaves) ==
  /\ doing' = [doing EXCEPT ![t] = Idle]
  /\ promised' = IF doing[t].alone THEN leaves ELSE Unknown

-----------------------------------------------------------------------------
(* add_extension() *)

\* A name that is taken is refused, unless by the same implementation, or it is to be replaced.
MayTake(impl, override) ==
  override \/ Same(onClass, impl) \/ Same(kept, impl) \/ (onClass = Nothing /\ kept = Nothing /\ ~builtIn)

Adds(t, impl, override) ==
  /\ MayTake(impl, override) /\ promised' = Unknown
  /\ Begins(t, [at |-> "clearing", impl |-> impl, override |-> override, alone |-> TRUE],
            {u \in Thread \ {t} : Removing(u)})

Refuses(impl, override) == ~MayTake(impl, override) /\ UNCHANGED <<lock, promised, doing>>

\* A slip: nobody waits for another that adds.
AddUnlocked(t, impl, override) ==
  /\ doing[t].at = "idle" /\ changes < MaxChanges
  /\ changes' = changes + 1
  /\ (Adds(t, impl, override) /\ UNCHANGED lock) \/ Refuses(impl, override)
  /\ UNCHANGED <<builtIn, onClass, kept, builders>>

Add(t, impl, override) ==
  /\ doing[t].at = "idle" /\ lock = Nothing /\ changes < MaxChanges
  /\ changes' = changes + 1
  /\ (Adds(t, impl, override) /\ lock' = t) \/ Refuses(impl, override)
  /\ UNCHANGED <<builtIn, onClass, kept, builders>>

\* An implementation of the other kind is taken away first: a function pops what is kept ...
Pops(t) ==
  /\ doing[t].at = "clearing" /\ doing[t].impl \in Function
  /\ kept' = Nothing
  /\ Goes(t, "installing")
  /\ UNCHANGED <<builtIn, onClass, lock, builders, changes, promised>>

\* ... and a callable looks at the class, and deletes what it saw there ...
LooksAtClass(t) ==
  /\ doing[t].at = "clearing" /\ doing[t].impl \in Callable
  /\ Goes(t, IF onClass = Nothing THEN "installing" ELSE "emptying")
  /\ UNCHANGED <<builtIn, onClass, kept, lock, builders, changes, promised>>

EmptiesClass(t) ==
  /\ doing[t].at = "emptying" /\ onClass # Nothing
  /\ onClass' = Nothing
  /\ Goes(t, "installing")
  /\ UNCHANGED <<builtIn, kept, lock, builders, changes, promised>>

\* ... which raises where it was removed in between.
FindsClassEmpty(t) ==
  /\ doing[t].at = "emptying" /\ onClass = Nothing
  /\ lock' = Nothing
  /\ Returns(t, Nothing)
  /\ UNCHANGED <<builtIn, onClass, kept, builders, changes>>

Installs(t) ==
  LET impl == doing[t].impl
  IN  /\ doing[t].at = "installing"
      /\ IF impl \in Function THEN onClass' = impl /\ UNCHANGED kept ELSE kept' = impl /\ UNCHANGED onClass
      /\ lock' = Nothing
      /\ Returns(t, impl)
      /\ UNCHANGED <<builtIn, builders, changes>>

-----------------------------------------------------------------------------
(* remove_extension(), which goes by the name alone *)

Remove(t) ==
  /\ doing[t].at = "idle" /\ changes < MaxChanges
  /\ changes' = changes + 1 /\ promised' = Unknown
  /\ Begins(t, [Idle EXCEPT !.at = IF onClass = Nothing THEN "popping" ELSE "deleting"],
            {u \in Thread \ {t} : doing[u].at # "idle"})
  /\ UNCHANGED <<builtIn, onClass, kept, lock, builders>>

Deletes(t) ==
  /\ doing[t].at = "deleting" /\ onClass # Nothing
  /\ onClass' = Nothing
  /\ Goes(t, "popping")
  /\ UNCHANGED <<builtIn, kept, lock, builders, changes, promised>>

\* Another thread took it from the class in between: an AttributeError, and nothing is popped.
FindsItGone(t) ==
  /\ doing[t].at = "deleting" /\ onClass = Nothing
  /\ Returns(t, Nothing)
  /\ UNCHANGED <<builtIn, onClass, kept, lock, builders, changes>>

TakesAway(t) ==
  /\ doing[t].at = "popping"
  /\ kept' = Nothing
  /\ Returns(t, Nothing)
  /\ UNCHANGED <<builtIn, onClass, lock, builders, changes>>

-----------------------------------------------------------------------------
(* Builders *)

\* One made by assert_that(), plain or in a log_passes() block, or a pivot of another; all get what is kept now.
Make ==
  /\ Len(builders) < MaxBuilders
  /\ builders' = Append(builders, [own |-> kept, under |-> promised])
  /\ UNCHANGED <<builtIn, onClass, kept, lock, doing, changes, promised>>

BuiltIn == IF builtIn THEN "built-in" ELSE Nothing

\* What the class answers.  That of a log_passes() block has the library's names again, and asks this one first.
FoundOnClass == IF onClass # Nothing THEN onClass ELSE BuiltIn

\* What a builder calls by the name: its own attribute comes before those of its class.
Calls(b) == IF b.own # Nothing THEN b.own ELSE FoundOnClass

\* not_ and check() take the operation for the library's own, and refuse some of these.
StillOurs(b) == b.own = Nothing /\ onClass = Nothing

ExtensionsStep ==
  \/ \E t \in Thread :
       \/ \E impl \in Implementation, override \in BOOLEAN : Add(t, impl, override)
       \/ Pops(t) \/ LooksAtClass(t) \/ EmptiesClass(t) \/ FindsClassEmpty(t) \/ Installs(t)
       \/ Remove(t) \/ Deletes(t) \/ FindsItGone(t) \/ TakesAway(t)
  \/ Make

ExtensionsSpec == ExtensionsInit /\ [][ExtensionsStep]_extensionVars

-----------------------------------------------------------------------------

\* "An extension cannot replace an assertion by accident", and is registered "from the moment add_extension() runs until
\* remove_extension() takes it away", whatever other threads add and remove.  An addition without override never has
\* another implementation under its hands; and what a builder calls is what was added last: a function at once, another
\* callable if the builder was made since, and for good then.  not_ and check() take it for the library's own just where
\* the builder would not call an extension.
ExtensionsHold ==
  /\ \A t \in Thread : Adding(t) /\ ~doing[t].override =>
       \A there \in {onClass, kept} \ {Nothing} : Same(there, doing[t].impl)
  /\ \A i \in DOMAIN builders :
       LET b == builders[i]
       IN  /\ b.under \in Callable => Calls(b) = b.under
           /\ b.under \in Function \cup {Nothing} =>
                \/ promised = Unknown
                \/ Calls(b) = IF promised \in Function THEN promised ELSE BuiltIn
           /\ StillOurs(b) <=> Calls(b) = BuiltIn
=============================================================================
