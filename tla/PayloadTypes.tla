---------------------------- MODULE PayloadTypes ----------------------------
(***************************************************************************)
(* What a payload holds, the types a pydantic model declares, and what     *)
(* validation makes of one by the other.  pydantic is not part of the      *)
(* repository: validation is modelled from what _contract.py, its tests    *)
(* and the documentation rely on, and it tells what the code under         *)
(* verification has to find out without asking it: the keys it dropped.    *)
(*                                                                         *)
(* A part of a payload is a scalar, a mapping, a list (or another          *)
(* collection that can be read again), an iterable that can be read once,  *)
(* or JSON text.  A path leads to a part by keys and positions; 0 enters   *)
(* JSON text.                                                              *)
(***************************************************************************)
EXTENDS Naturals, Sequences, FiniteSets
LOCAL INSTANCE SequencesExt
LOCAL INSTANCE Functions
LOCAL INSTANCE TLC

CONSTANT Coerced   \* the key validation makes of each, for a mapping whose keys it coerces

Scalar(v)    == [is |-> "scalar", value |-> v]
Mapping(at)  == [is |-> "mapping", at |-> at]
Listed(seq)  == [is |-> "list", items |-> seq]
Once(seq)    == [is |-> "once", items |-> seq]
Text(part)   == [is |-> "text", of |-> part]

Decoding == 0

\* What a path leads to, in a sequence of one, or nothing.
RECURSIVE Followed(_, _)
Followed(raw, path) ==
  IF path = <<>> THEN <<raw>>
  ELSE IF raw.is = "mapping" /\ Head(path) \in DOMAIN raw.at THEN Followed(raw.at[Head(path)], Tail(path))
  ELSE IF raw.is = "list" /\ Head(path) \in DOMAIN raw.items THEN Followed(raw.items[Head(path)], Tail(path))
  ELSE <<>>

-----------------------------------------------------------------------------
(* Types.  A class has the aliases and the type of each of its fields and  *)
(* its configuration; "reshaped" is a type with a validator of the         *)
(* project's own around it.                                                *)

Named(kind, inside)   == [is |-> kind, of |-> inside]
UnionOf(types)        == [is |-> "union", among |-> types]
FixedTuple(types)     == [is |-> "tuple", each |-> types]
LiteralOf(values)     == [is |-> "literal", values |-> values]
Reshaped(how, inside) == [is |-> "reshaped", how |-> how, of |-> inside]
AnyScalar   == [is |-> "plain"]
AnyType == [is |-> "any"]
NoneType == [is |-> "none"]

IsClass(type) == type.is \in {"model", "dataclass", "typed_dict", "root"}

\* The aliases of a field are paths, in the order they are tried.
FieldSources(class, name) ==
  LET aliases == class.fields[name].aliases
  IN  IF aliases = <<>> THEN <<<<name>>>>
      ELSE (IF class.byAlias THEN aliases ELSE <<>>) \o (IF class.byName THEN <<<<name>>>> ELSE <<>>)

\* The first source that is there, in a sequence of one, or nothing.
ReadFrom(raw, sources) ==
  LET there == SelectSeq(sources, LAMBDA source : Followed(raw, source) # <<>>)
  IN  IF there = <<>> THEN <<>> ELSE <<Head(there)>>

-----------------------------------------------------------------------------
(* Validation: what is built, the paths of the keys dropped, and the loose *)
(* parts, those that are not read item by item or key by key.  An odd part *)
(* is an item that a validator took away from items of another class.      *)

Invalid == [valid |-> FALSE]
Loose   == [place |-> <<>>, apart |-> FALSE]
OddItem == [place |-> <<1>>, apart |-> TRUE]
Valid(built, dropped, loose) == [valid |-> TRUE, built |-> built, dropped |-> dropped, loose |-> loose]

From(place, paths)      == {place \o path : path \in paths}
FromLoose(place, parts) == {[part EXCEPT !.place = place \o @] : part \in parts}

\* Several parts of one, each at its place.
Together(built, parts, place, dropped, loose) ==
  IF \E n \in DOMAIN parts : ~parts[n].valid THEN Invalid
  ELSE Valid(built,
             dropped \cup UNION {From(place[n], parts[n].dropped) : n \in DOMAIN parts},
             loose \cup UNION {FromLoose(place[n], parts[n].loose) : n \in DOMAIN parts})

Instance(class, at, extra) == [is |-> "instance", class |-> class, at |-> at, extra |-> extra]

FieldsSet(built) == IF built.is = "instance" THEN Cardinality(DOMAIN built.at) ELSE 0

\* A set holds the first of those that are equal; a class may call any instance equal to its own.
Merged(items) ==
  LET Same(one, other) == one = other \/ (one.is = "instance" /\ other.is = "instance" /\ one.class.ownEq)
      First(n) == ~\E m \in 1 .. n - 1 : Same(items[m], items[n])
      kept     == SetToSortSeq({n \in DOMAIN items : First(n)}, <)
  IN  [n \in DOMAIN kept |-> items[kept[n]]]

\* A plain dict is built by it, or by what its items are declared as: which of several built one does not show.
RECURSIVE BuildsDict(_)
BuildsDict(type) ==
  \/ type.is \in {"typed_dict", "dict", "any"}
  \/ type.is \in {"list", "set", "json", "reshaped"} /\ BuildsDict(type.of)
  \/ type.is = "union" /\ \E n \in DOMAIN type.among : BuildsDict(type.among[n])

\* JSON text and a root model hold one part.
Decoded(part) == IF part.valid THEN Together(part.built, <<part>>, <<<<Decoding>>>>, {}, {}) ELSE Invalid
BuiltRoot(class, part) ==
  IF part.valid THEN Together(Instance(class, part.built, <<>>), <<part>>, <<<<>>>>, {}, {}) ELSE Invalid

BuiltItems(kind, parts, loose) ==
  LET built == [n \in DOMAIN parts |-> parts[n].built]
  IN  Together([is |-> kind, items |-> IF kind = "set" THEN Merged(built) ELSE built],
               parts, [n \in DOMAIN parts |-> <<n>>], {}, loose)

\* A record holds its extras where its fields are, so that one lands on the field of its name.
BuiltClass(class, raw, read, parts, others) ==
  LET unread  == DOMAIN raw.at \ {Head(read[name]) : name \in DOMAIN read}
      kept    == DOMAIN others
      at      == [name \in DOMAIN read |-> parts[name].built]
      extra   == [key \in kept |-> others[key].built]
      over    == extra @@ at
      beside  == [key \in kept \ DOMAIN class.fields |-> extra[key]]
      held    == IF class.is = "model" THEN parts ELSE [name \in DOMAIN read \ kept |-> parts[name]]
      built   == CASE class.is = "typed_dict" -> Mapping(over)
                   [] class.is = "dataclass"  -> Instance(class, [name \in DOMAIN over \ DOMAIN beside |-> over[name]], beside)
                   [] class.is = "model"      -> Instance(class, at, IF class.forgets THEN <<>> ELSE extra)
      fields  == Together(at, held, read, {<<key>> : key \in unread \ kept}, {})
      extras  == Together(extra, others, [key \in kept |-> <<key>>], {}, IF class.forgets THEN {Loose} ELSE {})
  IN  IF \A name \in DOMAIN parts : parts[name].valid
      THEN Together(built, <<fields, extras>>, <<<<>>, <<>>>>, {}, {})
      ELSE Invalid

\* The member that validates and sets most fields, the first of equals.
BuiltUnion(answers, loose) ==
  LET able   == {n \in DOMAIN answers : answers[n].valid}
      Set(n) == FieldsSet(answers[n].built)
      taken  == CHOOSE n \in able : \A m \in able \ {n} : Set(n) > Set(m) \/ (Set(n) = Set(m) /\ n < m)
  IN  IF able = {} THEN Invalid ELSE [answers[taken] EXCEPT !.loose = @ \cup loose]

\* Two keys that are made one keep one of their values.
BuiltMapping(kind, parts) ==
  LET Made(key) == IF kind = "keyed" THEN Coerced[key] ELSE key
      built     == [made \in {Made(key) : key \in DOMAIN parts} |->
                      parts[CHOOSE key \in DOMAIN parts : Made(key) = made].built]
  IN  Together(Mapping(built), parts, [key \in DOMAIN parts |-> <<key>>], {},
               IF Cardinality(DOMAIN built) < Cardinality(DOMAIN parts) THEN {Loose} ELSE {})

\* What a validator that looks at the parts first can turn a choice to: the last of equals.
RECURSIVE Turned(_)
Turned(type) ==
  CASE type.is = "union" -> UnionOf(Reverse([n \in DOMAIN type.among |-> Turned(type.among[n])]))
    [] type.is \in {"list", "set", "dict", "keyed", "json", "reshaped"} -> [type EXCEPT !.of = Turned(@)]
    [] type.is = "tuple"   -> [type EXCEPT !.each = [n \in DOMAIN type.each |-> Turned(type.each[n])]]
    [] type.is \in {"model", "dataclass", "typed_dict"} ->
         [type EXCEPT !.fields = [name \in DOMAIN @ |-> [@[name] EXCEPT !.type = Turned(@)]]]
    [] OTHER -> type

\* Every scalar of a dict is made another.
Rewritten(built) ==
  IF built.is # "mapping" THEN built
  ELSE [built EXCEPT !.at = [key \in DOMAIN @ |-> IF @[key].is = "scalar" THEN Scalar("two") ELSE @[key]]]

\* What a validator of the project's own makes validate, of the part it was sent.
Shortened(part, n) == [part EXCEPT !.items = SubSeq(@, n + 1, Len(@))]
Reshapes(how, raw) ==
  IF how = "wraps" THEN raw.is = "mapping" ELSE how # "rewrites" /\ raw.is = "list" /\ raw # Listed(<<>>)
Handed(how, raw) ==
  CASE how = "wraps"   -> Listed(<<raw>>)
    [] how = "unwraps" -> Head(raw.items)
    [] how = "filters" -> Shortened(raw, 1)
    [] how \in {"empties", "steers"} -> Listed(<<>>)
    [] how = "trims"   -> raw

\* What is left is all of one class, and the item taken away is not.
StandsOut(taken, left) ==
  LET Classes(items) == {item.class : item \in {one \in items : one.is = "instance"}}
  IN  /\ \A item \in Range(left) : item.is = "instance"
      /\ Cardinality(Classes(Range(left))) = 1 /\ Classes({taken}) # Classes(Range(left))

\* What a validator takes away counts as what it would have been built into: whole is the part as sent,
\* built by the type, or by the type turned where the validator steers.
BuiltReshaped(how, whole, answer) ==
  LET Later(paths) == {<<Head(path) + 1>> \o Tail(path) : path \in paths}
      built   == IF how = "trims" THEN Shortened(answer.built, 1) ELSE answer.built
      outlier == /\ how \in {"filters", "trims"} /\ whole.valid /\ built.is \in {"list", "set"}
                 /\ StandsOut(Head(whole.built.items), built.items)
      dropped == CASE how = "wraps"   -> {Tail(path) : path \in answer.dropped}
                   [] how = "unwraps" -> From(<<1>>, answer.dropped)
                   [] how = "trims"   -> answer.dropped
                   [] how \in {"empties", "steers"} -> IF whole.valid THEN whole.dropped ELSE {}
                   [] how = "filters" -> IF whole.valid THEN whole.dropped ELSE Later(answer.dropped)
  IN  IF answer.valid THEN Valid(built, dropped, IF outlier THEN {Loose, OddItem} ELSE {Loose}) ELSE Invalid

Rebuilt(how, answer) == IF how = "rewrites" /\ answer.valid THEN [answer EXCEPT !.built = Rewritten(@)] ELSE answer

FieldsRead(class, raw) ==
  [name \in {n \in DOMAIN class.fields : ReadFrom(raw, FieldSources(class, n)) # <<>>} |->
     Head(ReadFrom(raw, FieldSources(class, name)))]

ExtrasKept(class, raw, read) ==
  IF class.extra = "allow" THEN DOMAIN raw.at \ {Head(read[name]) : name \in DOMAIN read} ELSE {}

RECURSIVE Validate(_, _)

ValidateItems(kind, types, raw, loose) ==
  BuiltItems(kind, [n \in DOMAIN raw.items |-> Validate(types[n], raw.items[n])], loose)

ValidateClass(class, raw) ==
  LET read == FieldsRead(class, raw)
  IN  BuiltClass(class, raw, read,
                 [name \in DOMAIN read |-> Validate(class.fields[name].type, Head(Followed(raw, read[name])))],
                 [key \in ExtrasKept(class, raw, read) |-> Validate(class.extras, raw.at[key])])

ValidateReshaped(how, type, raw) ==
  IF Reshapes(how, raw)
  THEN BuiltReshaped(how, Validate(IF how = "steers" THEN Turned(type) ELSE type, raw), Validate(type, Handed(how, raw)))
  ELSE Rebuilt(how, Validate(type, raw))

Anything(raw) == Valid([is |-> "kept"], {}, {})

Validate(type, raw) ==
  LET scalar == raw.is = "scalar"
  IN  CASE type.is = "any"     -> Anything(raw)
        [] type.is = "plain"   -> IF scalar THEN Valid(raw, {}, {}) ELSE Invalid
        [] type.is = "none"    -> IF scalar /\ raw.value = "none" THEN Valid(raw, {}, {}) ELSE Invalid
        [] type.is = "literal" -> IF scalar /\ raw.value \in type.values THEN Valid(raw, {}, {}) ELSE Invalid
        [] type.is = "json"    -> IF raw.is = "text" THEN Decoded(Validate(type.of, raw.of)) ELSE Invalid
        [] type.is = "union"   ->
             BuiltUnion([n \in DOMAIN type.among |-> Validate(type.among[n], raw)],
               IF Cardinality({n \in DOMAIN type.among : BuildsDict(type.among[n])}) > 1 THEN {Loose} ELSE {})
        [] type.is \in {"list", "set"} ->
             IF raw.is \notin {"list", "once"} THEN Invalid
             ELSE ValidateItems(type.is, [n \in DOMAIN raw.items |-> type.of], raw,
                                IF type.is = "set" \/ raw.is = "once" THEN {Loose} ELSE {})
        [] type.is = "lazy"    ->
             IF raw.is \notin {"list", "once"} THEN Invalid ELSE Valid([is |-> "lazy"], {}, {Loose})
        [] type.is = "tuple"   ->
             IF raw.is # "list" \/ Len(raw.items) # Len(type.each) THEN Invalid
             ELSE ValidateItems("list", type.each, raw, {})
        [] type.is \in {"dict", "keyed"} ->
             IF raw.is # "mapping" THEN Invalid
             ELSE BuiltMapping(type.is, [key \in DOMAIN raw.at |-> Validate(type.of, raw.at[key])])
        [] type.is = "reshaped" -> ValidateReshaped(type.how, type.of, raw)
        [] type.is = "root"     -> BuiltRoot(type, Validate(type.root, raw))
        [] type.is \in {"model", "dataclass", "typed_dict"} ->
             IF raw.is # "mapping" THEN Invalid ELSE ValidateClass(type, raw)
=============================================================================
