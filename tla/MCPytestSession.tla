-------------------------- MODULE MCPytestSession --------------------------
(***************************************************************************)
(* An instance of PytestSession for TLC: a file with an empty call and one *)
(* that holds a literal, a file outside the rootdir and one of an installed*)
(* package; tests that fail alike, that ask for literals that suit one     *)
(* another or do not, and that share a snapshot key.                       *)
(***************************************************************************)
EXTENDS PytestSession

CONSTANTS c1, c2, c3, c4, old, a, b, x, s1, f1, f2, f3, t1, t2

MCSource ==
  [file \in File |-> CASE file = f1 -> <<c1, x, c2, old, x>> [] file = f2 -> <<c3, x>> [] OTHER -> <<c4, x>>]

NoDiff == [kind |-> "none", label |-> NoLabel, entries |-> <<>>]

Entry(steps, actual, expected, absent) ==
  [steps |-> steps, actual |-> actual, expected |-> expected, absent |-> absent]

\* users[0].role and users[1].role are one place, the keys 3 and "3" are two.
Role(i)   == <<<<"key", <<"str", "users">>>>, <<"index", <<"int", i>>>>, <<"key", <<"str", "role">>>>>>
Three(ty) == <<<<"key", <<ty, "three">>>>>>

Fails(test, diff) ==
  [test |-> test, fails |-> TRUE, diff |-> diff, reach |-> NoReach, key |-> NoKey, late |-> 0]
Reaches(test, call, text, takes, drifts, pure, negated, key, late) ==
  [test |-> test, fails |-> FALSE, diff |-> NoDiff, key |-> key, late |-> late,
   reach |-> [call |-> call, text |-> text, takes |-> takes, drifts |-> drifts, pure |-> pure, negated |-> negated]]

MCFailing ==
  { Fails(t1, [kind |-> "dict", label |-> NoLabel,
               entries |-> <<Entry(Role("0"), 1, 3, "neither"), Entry(Three("int"), 1, 2, "neither")>>]),
    Fails(t2, [kind |-> "dict", label |-> NoLabel,
               entries |-> <<Entry(Role("1"), 2, 3, "neither"), Entry(Three("int"), 3, 2, "actual"),
                             Entry(Three("str"), 1, 2, "neither")>>]),
    Fails(t1, [kind |-> "set", label |-> NoLabel,
               entries |-> <<Entry(<<<<"item", <<"int", "7">>>>>>, 1, 2, "actual")>>]),
    Fails(t2, [kind |-> "dict", label |-> NoLabel, entries |-> <<Entry(Three("int"), 0, 2, "neither"),
                                                                  Entry(Three("str"), 0, 2, "neither")>>]) }

\* c1 is empty: one case takes the other's literal, the other not, and a third has no literal to offer.
MCEmptyCall ==
  { Reaches(t1, c1, a, {a, b}, {a, b}, TRUE, FALSE, s1, 0),
    Reaches(t2, c1, b, {b}, {b}, TRUE, FALSE, s1, 1),
    Reaches(t2, c1, NoText, {}, {}, TRUE, FALSE, NoKey, 1) }

\* c2 holds a literal: cases that compare by functions of the test's, and may answer otherwise later.
MCStaleCall ==
  { Reaches(t2, c2, a, {a}, {a, b}, FALSE, FALSE, NoKey, 0),
    Reaches(t1, c2, old, {old, a}, {old, b}, FALSE, FALSE, NoKey, 0),
    Reaches(t1, c2, b, {b}, {b}, TRUE, FALSE, NoKey, 0),
    Reaches(t2, c1, b, {b}, {b}, TRUE, FALSE, NoKey, 0) }

\* Files that are not to be written, a call that is refused, and a comparison that does not pass for its own value.
MCRefused ==
  { Reaches(t1, c3, a, {a}, {a}, TRUE, FALSE, NoKey, 0),
    Reaches(t1, c4, a, {a}, {a}, TRUE, FALSE, NoKey, 0),
    Reaches(t2, c1, a, {}, {}, FALSE, FALSE, NoKey, 0),
    Reaches(t2, c1, a, {a}, {a}, TRUE, TRUE, NoKey, 0) }

MCCase  == MCFailing \cup MCEmptyCall \cup MCStaleCall \cup MCRefused
MCSuite == {[tests |-> MCFailing, broken |-> 1], [tests |-> MCEmptyCall, broken |-> 0],
            [tests |-> MCStaleCall, broken |-> 0], [tests |-> MCRefused, broken |-> 0]}

=============================================================================
