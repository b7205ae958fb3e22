----------------------------- MODULE MCEqualTo ------------------------------
(***************************************************************************)
(* An instance of EqualTo for TLC: two values and a third that either may  *)
(* hold, and that may hold the left one; the same value twice; and two     *)
(* scalars.  yes is True, which is equal to one and of another type; near  *)
(* is within the tolerance of one; the comparator accepts one and two in   *)
(* place of one, and no two at all.                                        *)
(***************************************************************************)
EXTENDS EqualTo, TLC
LOCAL INSTANCE Functions

CONSTANTS left, right, shared, one, two, near, yes, nan

MCBox      == {left, right, shared}
MCAtom     == {one, two, near, yes, nan}
MCAtomType == [v \in MCAtom |-> CASE v = yes -> "bool" [] v = nan -> "float" [] OTHER -> "int"]
MCAlike    == {<<one, yes>>, <<yes, one>>}
MCNear     == {<<one, near>>, <<near, one>>}
MCApproves == {<<one, one>>, <<one, two>>}

Lists(n, held)    == UNION {[1 .. k -> held] : k \in 0 .. n}
Mappings(n, held) == UNION {[keys -> held] : keys \in SUBSET (1 .. n)}

Holding(form, n, held) == IF form = "dict" THEN Mappings(n, held) ELSE Lists(n, held)

\* Options, each with the scalar they make a difference to.
Settings ==
  {<<{}, two>>, <<{}, nan>>, <<{"strict_types"}, yes>>, <<{"tolerance"}, near>>, <<{"comparators"}, two>>,
   <<{"strict_types", "tolerance"}, near>>, <<{"strict_types", "comparators"}, two>>}

Forms ==
  {<<"list", "list", "list">>, <<"list", "list", "odd">>, <<"list", "list", "sub">>, <<"list", "sub", "list">>,
   <<"list", "tuple", "list">>, <<"odd", "odd", "list">>, <<"list", "list", "dict">>, <<"dict", "dict", "list">>,
   <<"dict", "dict", "dict">>}

HoldsMappings(form) == "dict" \in Range(form)

\* Every setting for lists, and for the other kinds those they could be confused under.
Fits(form, setting) ==
  \/ form = <<"list", "list", "list">>
  \/ setting \in {<<{}, two>>, <<{"strict_types"}, yes>>}
  \/ HoldsMappings(form) /\ Cardinality(setting[1]) = 1
  \/ form = <<"list", "tuple", "list">> /\ setting[1] = {"tolerance"}

\* Keys are left out where there are some, and where the classes of what has none are told apart.
LeavesOut(form, setting, keys) ==
  keys = {} \/ (setting[1] \subseteq {"strict_types"} /\ (HoldsMappings(form) \/ form = <<"list", "list", "sub">>))

HoldThree(form, setting, i, j, k, two_roots, keys) ==
  Hold(left :> form[1] @@ right :> form[2] @@ shared :> form[3], left :> i @@ right :> j @@ shared :> k,
       setting[1], two_roots, keys)

ThirdHolds(form, setting) == IF setting = <<{}, two>> /\ ~HoldsMappings(form) THEN 2 ELSE 1

\* Two values and the third, where one of them leads to it.  A tuple cannot be put into itself.
HoldTwo(form, setting) ==
  \E keys \in {{}, {1}} :
    /\ LeavesOut(form, setting, keys)
    /\ \E i \in Holding(form[1], 2, {one, left, shared}) \ {<<>>},
          j \in Holding(form[2], 2, {one, setting[2], right, shared}) \ {<<>>},
          k \in Holding(form[3], ThirdHolds(form, setting), {one, setting[2], left}) :
         /\ k = <<>> \/ shared \in Range(i) \cup Range(j)
         /\ form[2] = "tuple" => right \notin Range(j)
         /\ HoldThree(form, setting, i, j, k, <<left, right>>, keys)

HoldOneTwice(form, setting) ==
  \E i \in Holding(form[1], 2, {one, setting[2], left}) :
    HoldThree(form, setting, i, <<>>, <<>>, <<left, left>>, {})

HoldScalars(form, setting) ==
  \E pair \in MCAtom \X MCAtom : HoldThree(form, setting, <<>>, <<>>, <<>>, pair, {})

HoldAny ==
  /\ asking = "nothing"
  /\ \E form \in Forms, setting \in Settings :
       /\ Fits(form, setting)
       /\ \/ HoldTwo(form, setting)
          \/ HoldOneTwice(form, setting)
          \/ form = <<"list", "list", "list">> /\ HoldScalars(form, setting)
=============================================================================
