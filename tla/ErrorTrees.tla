----------------------------- MODULE ErrorTrees -----------------------------
(***************************************************************************)
(* Exceptions a call raised: raises() and does_not_raise(), the call, and  *)
(* the links that ask what it was caused by and what a group of exceptions *)
(* holds, each of which may pivot to another exception                     *)
(* (ExceptionMixin in assertpy2/exception.py).                             *)
(*                                                                         *)
(* Causes may lead back to where they came from.  A group is made of       *)
(* exceptions that exist, so groups do not hold one another in a circle.   *)
(* A chain is asserted or negated link by link, strict or soft; a warning  *)
(* goes on as a soft failure does.                                         *)
(***************************************************************************)
EXTENDS Naturals, Sequences, FiniteSets

LOCAL INSTANCE SequencesExt

CONSTANTS
  Error,       \* exceptions
  NoError,
  Class,       \* classes a test asks for
  IsA,         \* isinstance(): pairs of an exception and a class
  Group,       \* the exceptions that are a BaseExceptionGroup
  Escaping,    \* those that are no Exception, as KeyboardInterrupt
  Circumstances,  \* the fields the exceptions may have
  Wanted,      \* what contains_error() and does_not_contain_error() are asked for
  Specs        \* the trees matches_error_tree() expects: of classes, and lists for groups

ASSUME ErrorsAssumption ==
  /\ NoError \notin Error /\ Group \cup Escaping \subseteq Error /\ IsA \subseteq Error \X Class
  /\ Wanted \subseteq Seq(Class)

VARIABLES
  links,     \* __cause__, __context__ and __suppress_context__ of each exception
  members,   \* .exceptions of each group
  soft,      \* whether a failure is collected, or raised
  view,      \* the builder in hand: how far it got, and the exception it is about
  asked      \* history: the last question and what came of it, put away before the next

errorVars == <<links, members, soft, view, asked>>

NotAsked == [link |-> "nothing"]

View(at, error) == [at |-> at, error |-> error, class |-> NoError, averse |-> FALSE]

ErrorsInit ==
  /\ \E c \in Circumstances : links = c.links /\ members = c.members
  /\ soft \in BOOLEAN
  /\ view = View("callable", NoError)
  /\ asked = NotAsked

-----------------------------------------------------------------------------
(* Reading an exception *)

EffectiveCause(error) ==
  LET its == links[error]
  IN  IF its.cause # NoError THEN its.cause ELSE IF its.suppressed THEN NoError ELSE its.context

RECURSIVE RootFrom(_, _)
RootFrom(error, seen) ==
  LET next == EffectiveCause(error)
  IN  IF next \in seen \cup {NoError} THEN error ELSE RootFrom(next, seen \cup {next})

RootCause(error) == RootFrom(error, {error})

RECURSIVE NodesOf(_)
NodesOf(pending) ==
  IF pending = <<>> THEN <<>>
  ELSE LET node == Last(pending)
           held == IF node \in Group THEN Reverse(members[node]) ELSE <<>>
       IN  <<node>> \o NodesOf(Front(pending) \o held)

Nodes(error)  == NodesOf(<<error>>)
Leaves(error) == SelectSeq(Nodes(error), LAMBDA node : node \notin Group)

FirstOf(error, class) ==
  LET found == SelectSeq(Nodes(error), LAMBDA node : <<node, class>> \in IsA)
  IN  IF found = <<>> THEN NoError ELSE found[1]

\* A slip: the entries are paired with the exceptions in the order they are written, whatever both stand in.
RECURSIVE MatchesAsWritten(_, _)
MatchesAsWritten(spec, errors) ==
  /\ Len(spec) = Len(errors)
  /\ \A i \in DOMAIN spec :
       IF spec[i] \in Class THEN <<errors[i], spec[i]>> \in IsA
       ELSE errors[i] \in Group /\ MatchesAsWritten(spec[i], members[errors[i]])

\* A maximum pairing that is complete: Pairing says that one is found if there is any.
RECURSIVE MatchesShape(_, _)
MatchesShape(spec, errors) ==
  /\ Len(spec) = Len(errors)
  /\ \E pairing \in [DOMAIN spec -> DOMAIN errors] :
       /\ \A i, j \in DOMAIN spec : pairing[i] = pairing[j] => i = j
       /\ \A i \in DOMAIN spec :
            LET error == errors[pairing[i]]
            IN  IF spec[i] \in Class THEN <<error, spec[i]>> \in IsA
                ELSE error \in Group /\ MatchesShape(spec[i], members[error])

-----------------------------------------------------------------------------
(* Asking *)

\* A link decides, and hands on a builder: the pivot if it holds, one that takes every further link for nothing after
\* a soft failure, and itself under not_, which inverts what was decided but no prerequisite.
Answers(link, of, negated, decided, gives, onward) ==
  LET failing == decided = "unmet" \/ (decided = "fails") # negated
  IN  /\ asked = NotAsked
      /\ asked' = [link |-> link, about |-> view.error, of |-> of, negated |-> negated, failing |-> failing,
                   gives |-> gives]
      /\ view' = IF failing /\ ~soft THEN View("over", NoError)
                 ELSE IF negated THEN view
                 ELSE IF failing THEN View("inert", NoError)
                 ELSE onward
      /\ UNCHANGED <<links, members, soft>>

Decided(holds) == IF holds THEN "holds" ELSE "fails"

\* raises() and does_not_raise().
Expect(class, averse) ==
  /\ view.at = "callable"
  /\ view' = [View("expecting", NoError) EXCEPT !.class = class, !.averse = averse]
  /\ UNCHANGED <<links, members, soft, asked>>

Judges(error, negated) ==
  LET named == <<error, view.class>> \in IsA
  IN  Answers("when_called_with", <<view.class, view.averse>>, negated, Decided(named # view.averse), error,
              IF view.averse THEN view ELSE View("caught", error))

\* The call raises: what nobody named and is no Exception goes to the runner.
CallRaises(error, negated) ==
  /\ view.at = "expecting"
  /\ IF error \in Escaping /\ <<error, view.class>> \notin IsA
     THEN view' = View("over", NoError) /\ UNCHANGED <<links, members, soft, asked>>
     ELSE Judges(error, negated)

\* It returns, or returns what is still to be awaited, which is refused.
CallReturns(awaitable, negated) ==
  /\ view.at = "expecting"
  /\ IF awaitable THEN view' = View("over", NoError) /\ UNCHANGED <<links, members, soft, asked>>
     ELSE Answers("when_called_with", <<view.class, view.averse>>, negated, Decided(view.averse), NoError,
                  View("returned", NoError))

\* The test goes on.
GoOn == asked # NotAsked /\ asked' = NotAsked /\ UNCHANGED <<links, members, soft, view>>

Caught == view.at = "caught"

Raised == Caught /\ asked = NotAsked /\ view' = View("raised", view.error) /\ UNCHANGED <<links, members, soft, asked>>

Pivots(link, class, negated, to) ==
  Answers(link, class, negated, Decided(to # NoError /\ <<to, class>> \in IsA), to, View("caught", to))

CausedBy(class, negated)     == Caught /\ Pivots("caused_by", class, negated, EffectiveCause(view.error))
HasRootCause(class, negated) == Caught /\ Pivots("has_root_cause", class, negated, RootCause(view.error))

IsGroup == view.error \in Group

\* A question about a group: _require_group() fails for what is none, whether negated or not.
OfGroup(link, of, negated, holds, gives, onward) ==
  Caught /\ Answers(link, of, negated, IF IsGroup THEN Decided(holds) ELSE "unmet", gives, onward)

ContainsError(wanted, negated) ==
  OfGroup("contains_error", wanted, negated,
          \A i \in DOMAIN wanted : FirstOf(view.error, wanted[i]) # NoError, NoError, view)

DoesNotContainError(unwanted, negated) ==
  OfGroup("does_not_contain_error", unwanted, negated,
          \A i \in DOMAIN unwanted : FirstOf(view.error, unwanted[i]) = NoError, NoError, view)

ErrorOf(class, negated) ==
  LET found == FirstOf(view.error, class)
  IN  OfGroup("error_of", class, negated, found # NoError, found, View("caught", found))

\* errors() has nothing it can be wrong about once a group is caught, and is not negated.
Errors == OfGroup("errors", NoError, FALSE, TRUE, Leaves(view.error), View("leaves", NoError))

MatchesErrorTree(spec, negated) ==
  OfGroup("matches_error_tree", spec, negated, MatchesShape(spec, members[view.error]), NoError, view)

ErrorsStep ==
  \/ \E class \in Class, averse \in BOOLEAN : Expect(class, averse)
  \/ \E negated \in BOOLEAN :
       \/ \E error \in Error : CallRaises(error, negated)
       \/ \E awaitable \in BOOLEAN : CallReturns(awaitable, negated)
       \/ \E class \in Class : CausedBy(class, negated) \/ HasRootCause(class, negated) \/ ErrorOf(class, negated)
       \/ \E wanted \in Wanted : ContainsError(wanted, negated) \/ DoesNotContainError(wanted, negated)
       \/ \E spec \in Specs : MatchesErrorTree(spec, negated)
  \/ Raised \/ Errors \/ GoOn

-----------------------------------------------------------------------------

\* The exceptions on the way of the causes, but for those behind one that is left out.
Behind(error, without) ==
  LET within[n \in 0 .. Cardinality(Error)] ==
        IF n = 0 THEN {error} \ {without}
        ELSE within[n - 1] \cup ({EffectiveCause(e) : e \in within[n - 1]} \ {NoError, without})
  IN  within[Cardinality(Error)]

\* The root is the one whose loss cuts off nothing else that is on the way.
IsRoot(root, error) == Behind(error, root) = Behind(error, NoError) \ {root} /\ root \in Behind(error, NoError)

\* The places in a tree, and what is there.
RECURSIVE Places(_)
Places(error) ==
  {<<>>} \cup (IF error \in Group
               THEN UNION {{<<i>> \o place : place \in Places(members[error][i])} : i \in DOMAIN members[error]}
               ELSE {})

RECURSIVE There(_, _)
There(error, place) == IF place = <<>> THEN error ELSE There(members[error][place[1]], Tail(place))

Before(one, other) ==
  \/ IsStrictPrefix(one, other)
  \/ \E n \in DOMAIN one \cap DOMAIN other :
       one[n] < other[n] /\ \A m \in 1 .. n - 1 : one[m] = other[m]

HeldAt(error, class) == {place \in Places(error) : <<There(error, place), class>> \in IsA}

IsLeaf(error, place) == There(error, place) \notin Group

\* Hall: the entries find a place each exactly where any of them together have as many exceptions to choose from.
RECURSIVE HasShape(_, _)
HasShape(errors, spec) ==
  LET Fits(j, i) == IF spec[i] \in Class THEN <<errors[j], spec[i]>> \in IsA
                    ELSE errors[j] \in Group /\ HasShape(members[errors[j]], spec[i])
  IN  /\ Len(errors) = Len(spec)
      /\ \A some \in SUBSET DOMAIN spec :
           Cardinality({j \in DOMAIN errors : \E i \in some : Fits(j, i)}) >= Cardinality(some)

\* Whether what a link says of an exception is so.
IsSo(link, error, of) ==
  CASE link = "caused_by"              -> EffectiveCause(error) # NoError /\ <<EffectiveCause(error), of>> \in IsA
    [] link = "has_root_cause"         -> \E root \in Error : IsRoot(root, error) /\ <<root, of>> \in IsA
    [] link = "contains_error"         -> \A i \in DOMAIN of : HeldAt(error, of[i]) # {}
    [] link = "does_not_contain_error" -> \A i \in DOMAIN of : HeldAt(error, of[i]) = {}
    [] link = "error_of"               -> HeldAt(error, of) # {}
    [] link = "matches_error_tree"     -> HasShape(members[error], of)
    [] link = "errors"                 -> TRUE

\* Every link after the call answers for the exception the chain had come to by then: the root is told of causes that
\* lead back as of those that end, "whatever one finds the other pivots to" (error_of), the first is the group before its
\* members, the leaves come in their order and as often as they are held, and a tree matches in whatever order it is
\* written or raised.  A question about a group fails of what is none, "with or without not_".
ErrorsAreRead ==
  asked.link \notin {"nothing", "when_called_with"} =>
    LET error   == asked.about
        ofGroup == asked.link \notin {"caused_by", "has_root_cause"}
        unmet   == ofGroup /\ error \notin Group
    IN  /\ asked.failing <=> unmet \/ IsSo(asked.link, error, asked.of) = asked.negated
        /\ asked.link = "has_root_cause" => IsRoot(asked.gives, error)
        /\ asked.link = "error_of" /\ ~unmet /\ asked.gives # NoError =>
             \E place \in HeldAt(error, asked.of) :
               /\ asked.gives = There(error, place)
               /\ \A other \in HeldAt(error, asked.of) : ~Before(other, place)
        /\ asked.link = "errors" /\ ~unmet =>
             LET leaves == {place \in Places(error) : IsLeaf(error, place)}
             IN  /\ Len(asked.gives) = Cardinality(leaves)
                 /\ \A place \in leaves :
                      asked.gives[1 + Cardinality({other \in leaves : Before(other, place)})] = There(error, place)
=============================================================================
