---------------------------- MODULE ContractDrift ----------------------------
(***************************************************************************)
(* assert_conforms(..., exact=True): the payload is validated, and walked  *)
(* beside what validation built from it for the keys it dropped.  What a   *)
(* part became is read off the instance; where its items no longer pair,   *)
(* they are validated again by the class they became or by the type their  *)
(* field declares; and where that cannot tell either, the check refuses    *)
(* rather than guess.                                                      *)
(*                                                                         *)
(* Left out: payloads that hold themselves, text that nests too deep, keys *)
(* of a mapping that are built into models, and the wording of a find.     *)
(***************************************************************************)
EXTENDS PayloadTypes
LOCAL INSTANCE SequencesExt
LOCAL INSTANCE Functions

CONSTANT Contracts   \* the questions a test asks: [class, payload, each]

VARIABLES
  contract,    \* the question asked
  stage,       \* "unasked", "validating", "refused" by validation, or "told"
  conforming,  \* what validation made of the payload, or of each of its items so far
  drift        \* what the walk told

driftVars == <<contract, stage, conforming, drift>>

Undeclared(path)  == [path |-> path, why |-> "dropped"]
Uncheckable(path) == [path |-> path, why |-> "uncheckable"]

-----------------------------------------------------------------------------
(* What can hide a key, and what can hold a model *)

\* An iterable that was read may have held anything.
RECURSIVE HoldsMapping(_)
HoldsMapping(raw) ==
  \/ raw.is \in {"mapping", "once"}
  \/ raw.is = "list" /\ \E n \in DOMAIN raw.items : HoldsMapping(raw.items[n])
  \/ raw.is = "text" /\ HoldsMapping(raw.of)

RECURSIVE BuildsModel(_)
BuildsModel(built) ==
  \/ built.is \in {"instance", "lazy"}
  \/ built.is \in {"list", "set"} /\ \E n \in DOMAIN built.items : BuildsModel(built.items[n])
  \/ built.is = "mapping" /\ \E key \in DOMAIN built.at : BuildsModel(built.at[key])

\* A union opened, and what only wraps a type.
RECURSIVE Alternatives(_)
Alternatives(type) ==
  IF type.is \in {"reshaped", "json"} THEN Alternatives(type.of)
  ELSE IF type.is = "union" THEN FlattenSeq([n \in DOMAIN type.among |-> Alternatives(type.among[n])])
  ELSE <<type>>

Besides(type)   == SelectSeq(Alternatives(type), LAMBDA member : member.is # "none")
Among(type, kinds) == SelectSeq(Alternatives(type), LAMBDA member : member.is \in kinds)
Either(types)   == IF Len(types) = 1 THEN Head(types) ELSE UnionOf(types)

Inside(type) ==
  IF type.is \in {"list", "lazy", "set", "dict", "keyed"} THEN <<type.of>> ELSE IF type.is = "tuple" THEN type.each ELSE <<>>

RECURSIVE Chooses(_)
Chooses(type) ==
  \/ Len(Besides(type)) > 1
  \/ \E member \in Range(Besides(type)) : \E inner \in Range(Inside(member)) : Chooses(inner)

RECURSIVE MayHoldModel(_, _)
MayHoldModel(type, outer) ==
  \E member \in Range(Alternatives(type)) :
    \/ IsClass(member)
    \/ member.is = "any" /\ outer
    \/ \E inner \in Range(Inside(member)) : MayHoldModel(inner, FALSE)

RECURSIVE TypedDictsUnder(_)
TypedDictsUnder(type) ==
  \E member \in Range(Alternatives(type)) :
    member.is = "typed_dict" \/ \E inner \in Range(Inside(member)) : TypedDictsUnder(inner)

\* A validator of the project's own somewhere in a class.
RECURSIVE RunsOwnCode(_)
RunsOwnCode(type) ==
  \/ type.is = "reshaped"
  \/ type.is = "json" /\ RunsOwnCode(type.of)
  \/ type.is = "union" /\ \E member \in Range(type.among) : RunsOwnCode(member)
  \/ \E inner \in Range(Inside(type)) : RunsOwnCode(inner)
  \/ type.is = "root" /\ RunsOwnCode(type.root)
  \/ IsClass(type) /\ type.is # "root"
     /\ (type.forgets \/ RunsOwnCode(type.extras) \/ \E name \in DOMAIN type.fields : RunsOwnCode(type.fields[name].type))

-----------------------------------------------------------------------------
(* What a part is declared as: a type, told by an annotation or only by    *)
(* the schema, and the class whose field declared it; or nothing.          *)

Unsaid == [is |-> "unsaid"]
Told(type, owner)   == [is |-> "told", type |-> type, owner |-> owner]
Untold(type, owner) == [is |-> "untold", type |-> type, owner |-> owner]

ChoiceLeft(declared) == declared.is # "told" \/ Chooses(declared.type)

ItemKinds == {"list", "lazy", "set", "tuple"}

ItemDeclared(declared, n) ==
  IF declared.is = "unsaid" THEN Unsaid
  ELSE LET type     == declared.type
           leaves   == Alternatives(type)
           sole     == Besides(type)
           holding  == Among(type, ItemKinds)
           every    == FlattenSeq([m \in DOMAIN holding |-> Inside(holding[m])]) \o Among(type, {"any"})
       IN  IF declared.is = "told" /\ Len(sole) = 1 /\ holding = sole
           THEN IF sole[1].is # "tuple" THEN Told(sole[1].of, declared.owner)
                ELSE IF n \in DOMAIN sole[1].each THEN Told(sole[1].each[n], declared.owner) ELSE Unsaid
           ELSE IF holding = <<>> THEN Unsaid
           ELSE IF Len(leaves) = 1 /\ leaves[1].is = "tuple"
           THEN IF n \in DOMAIN every THEN Untold(every[n], declared.owner) ELSE Unsaid
           ELSE Untold(Either(every), declared.owner)

TypedDicts(declared) == IF declared.is = "unsaid" THEN <<>> ELSE Among(declared.type, {"typed_dict"})
DictsBeside(declared) == IF declared.is = "unsaid" THEN <<>> ELSE Among(declared.type, {"dict", "keyed", "any"})

\* What those beside a TypedDict say of the values of a dict they build.
ValuesBeside(beside) == [n \in DOMAIN beside |-> IF beside[n].is = "any" THEN AnyType ELSE beside[n].of]

ValueDeclared(declared) ==
  LET beside == DictsBeside(declared)
  IN  IF SelectSeq(beside, LAMBDA member : member.is # "any") = <<>> THEN Unsaid
      ELSE IF declared.is = "told" /\ Besides(declared.type) = beside THEN Told(beside[1].of, declared.owner)
      ELSE Untold(Either(ValuesBeside(beside)), declared.owner)

-----------------------------------------------------------------------------
(* Which keys of a payload a class reads *)

\* Read wherever they are sent, and those of the fields that may be read from another place.
SureKeys(class) ==
  {FieldSources(class, name)[1][1] : name \in {n \in DOMAIN class.fields : Len(FieldSources(class, n)[1]) = 1}}
ChosenFields(class) ==
  {n \in DOMAIN class.fields : Len(FieldSources(class, n)) # 1 \/ Len(FieldSources(class, n)[1]) # 1}

FieldRead(class, name, raw) == ReadFrom(raw, FieldSources(class, name))

\* A slip: every key that may spell a field counts as read, where validation drops the later of two that are sent.
UnreadKeysUnspelled(class, raw) ==
  DOMAIN raw.at \ {source[1] : source \in UNION {Range(FieldSources(class, name)) : name \in DOMAIN class.fields}}

UnreadKeys(class, raw) ==
  LET unsure == DOMAIN raw.at \ SureKeys(class)
      read == {FieldRead(class, name, raw)[1][1] : name \in {n \in ChosenFields(class) : FieldRead(class, n, raw) # <<>>}}
  IN  unsure \ read

\* The fields worth walking that the payload sent.
FieldsSent(class, raw) ==
  {n \in DOMAIN class.fields : FieldRead(class, n, raw) # <<>> /\ MayHoldModel(class.fields[n].type, TRUE)}

-----------------------------------------------------------------------------
(* The walk: the finds under a part of the payload and what it became.     *)
(* Under a replay, what a type that offers a choice was built into is not  *)
(* read.                                                                   *)

Refused(raw, path) == IF HoldsMapping(raw) THEN {Uncheckable(path)} ELSE {}

RefusedIfKeyHides(raw, built, path, declared) ==
  IF BuildsModel(built) \/ (declared.is # "unsaid" /\ TypedDictsUnder(declared.type)) THEN Refused(raw, path) ELSE {}

\* JSON text that holds a container is entered.
Entered(raw)        == raw.is = "text" /\ raw.of.is \in {"mapping", "list"}
DecodedAt(raw)      == IF Entered(raw) THEN raw.of ELSE raw
PlaceIn(raw, path)  == IF Entered(raw) THEN Append(path, Decoding) ELSE path

\* A part to walk beside what it became.
Further(sent, built, where, declared, replayed) ==
  [why |-> "walk", sent |-> sent, built |-> built, where |-> where, declared |-> declared, replayed |-> replayed]

DeclaredDrift(raw, built, path, declared, replayed) ==
  IF replayed /\ built.is # "kept" /\ ChoiceLeft(declared) THEN Refused(raw, path)
  ELSE {Further(raw, built, path, declared, replayed)}

\* The sole class of the items of a container, or of several.
SoleModelClass(items) ==
  {items[n].class : n \in {m \in DOMAIN items : items[m].is = "instance"}}
HasSoleClass(items) ==
  Cardinality(SoleModelClass(items)) = 1 /\ \A n \in DOMAIN items : items[n].is = "instance"

\* A part as its class builds it again.
WalkedAgain(sent, part, place, answer, replayed, refusal) ==
  IF ~HoldsMapping(part) THEN {}
  ELSE IF ~answer.valid THEN refusal
  ELSE {Further(part, answer.built, PlaceIn(sent, place), Unsaid, replayed)}

Revalidated(parts, places, class, replayed, refusal) ==
  UNION {WalkedAgain(parts[n], DecodedAt(parts[n]), places[n], Validate(class, DecodedAt(parts[n])), replayed, refusal) :
           n \in DOMAIN parts}

\* A set is built as a list of its items, so that each keeps its place.
ReplayTarget(type) ==
  LET member == IF Len(Besides(type)) = 1 THEN Besides(type)[1] ELSE type
  IN  IF member.is = "set" THEN Named("list", member.of) ELSE member

\* The parts that may hide a key, where validation takes those alone and not the whole.
Hiding(parts) == SetToSortSeq({n \in DOMAIN parts : HoldsMapping(parts[n])}, <)

PairedAgain(parts, places, target, refusal, whole, partial) ==
  LET used    == IF whole.valid THEN [n \in DOMAIN parts |-> n] ELSE Hiding(parts)
      rebuilt == IF whole.valid THEN whole ELSE partial
  IN  IF ~rebuilt.valid THEN refusal
      ELSE IF rebuilt.built.is # "list" THEN refusal
      ELSE {Further(parts[used[n]], rebuilt.built.items[n], places[used[n]], ItemDeclared(target, n), TRUE) : n \in DOMAIN used}

Replayed(parts, places, declared, refusal) ==
  IF ChoiceLeft(declared) THEN refusal
  ELSE LET type == ReplayTarget(declared.type)
       IN  PairedAgain(parts, places, Told(type, declared.owner), refusal,
                       Validate(type, Listed(parts)),
                       Validate(type, Listed([n \in DOMAIN Hiding(parts) |-> parts[Hiding(parts)[n]]])))

Unpaired(raw, parts, places, built, path, merged, declared, replayed) ==
  LET refusal == {Uncheckable(path)}
      class   == CHOOSE c \in SoleModelClass(built.items) : TRUE
  IN  IF ~HoldsMapping(raw) THEN {}
      ELSE IF ~BuildsModel(built) THEN Replayed(parts, places, declared, refusal)
      ELSE IF ~HasSoleClass(built.items) THEN refusal
      ELSE IF merged /\ class.ownEq THEN refusal
      ELSE Revalidated(parts, places, class, replayed, refusal)

Numbered(items, path) == [n \in DOMAIN items |-> Append(path, n)]

\* A mapping a validator took for a list of one; and a set, whose items are no longer those sent.
TakenForAList(raw, built) == raw.is = "mapping" /\ Len(built.items) <= 1
Merges(raw, built) == raw.is = "list" /\ built.is = "set"

\* A list of the length sent pairs by place.
ItemsDrift(raw, built, path, declared, replayed) ==
  LET listed == raw.is = "list"
      parts  == IF listed THEN raw.items ELSE <<raw>>
      places == IF listed THEN Numbered(raw.items, path) ELSE <<path>>
  IN  IF listed /\ ~Merges(raw, built) /\ Len(raw.items) = Len(built.items)
      THEN {Further(raw.items[n], built.items[n], places[n], ItemDeclared(declared, n), replayed) : n \in DOMAIN raw.items}
      ELSE IF listed \/ TakenForAList(raw, built)
      THEN Unpaired(raw, parts, places, built, path, Merges(raw, built), declared, replayed)
      ELSE RefusedIfKeyHides(raw, built, path, declared)

-----------------------------------------------------------------------------
(* Mappings, and what is built from them field by field *)

\* A dataclass or a TypedDict: what it built at each name, and what it keeps beside.
RecordDrift(raw, at, extras, path, class, replayed) ==
  LET Drops(key)  == IF key \in DOMAIN class.fields THEN class.extra # "allow" ELSE key \notin extras
      Under(name) ==
        LET source == FieldRead(class, name, raw)[1]
        IN  DeclaredDrift(Head(Followed(raw, source)), at[name], path \o source,
                          Told(class.fields[name].type, class), replayed)
  IN  {Undeclared(Append(path, key)) : key \in {k \in UnreadKeys(class, raw) : Drops(k)}}
        \cup UNION {Under(name) : name \in FieldsSent(class, raw) \cap DOMAIN at}

\* A key of the payload kept as an extra lands on the field of its name.
PutOver(raw, class) ==
  IF class.extra = "allow" THEN UnreadKeys(class, raw) \cap DOMAIN class.fields ELSE {}

\* The values of a field that takes nothing but those a Literal lists, and None where it takes it too.
LiteralFields(class) ==
  {name \in DOMAIN class.fields :
     LET members == Besides(class.fields[name].type) IN Len(members) = 1 /\ members[1].is = "literal"}
Allowed(type) == Besides(type)[1].values \cup IF Among(type, {"none"}) = <<>> THEN {} ELSE {"none"}

MayHaveBuilt(raw, at, class) ==
  \A name \in (LiteralFields(class) \cap DOMAIN at) \ PutOver(raw, class) :
    at[name].is = "scalar" /\ at[name].value \in Allowed(class.fields[name].type)

\* One of several TypedDicts may have built the dict: what it lost any could have dropped, and what it holds is followed.
UnsureDrift(raw, at, declared, path, replayed) ==
  LET owner   == declared.owner
      own     == RunsOwnCode(owner)
      beside  == DictsBeside(declared)
      classes == SelectSeq(TypedDicts(declared), LAMBDA class : own \/ MayHaveBuilt(raw, at, class))
      names   == UNION {DOMAIN class.fields : class \in Range(classes)}
      Readers(name)  == SelectSeq(classes, LAMBDA class : name \in DOMAIN class.fields)
      Declared(name) ==
        Untold(Either([n \in DOMAIN Readers(name) |-> Readers(name)[n].fields[name].type] \o ValuesBeside(beside)), owner)
      ReadAs(key)    ==
        {name \in names : \E class \in Range(Readers(name)) :
           \E source \in Range(FieldSources(class, name)) : source[1] = key}
      Readings(name) ==
        UNION {Range(FieldRead(class, name, raw)) : class \in Range(Readers(name))}
          \cup (IF beside = <<>> THEN {} ELSE Range(ReadFrom(raw, <<<<name>>>>)))
      Part(source)   == Head(Followed(raw, source))
      Apart(name)    == \E one, other \in Readings(name) : one # other /\ (Part(one) # Part(other) \/ Part(one).is # "scalar")
      Lost(key)      == key \notin DOMAIN at /\ ReadAs(key) \cap DOMAIN at = {}
  IN  IF Len(classes) = 1 /\ beside = <<>> /\ ~own
      THEN RecordDrift(raw, at, DOMAIN at, path, classes[1], replayed)
      ELSE IF \/ \E key \in DOMAIN raw.at : Lost(key)
              \/ \E name \in names \cap DOMAIN at : Apart(name)
      THEN {Uncheckable(path)}
      ELSE UNION {DeclaredDrift(Part(source), at[name], path \o source, Declared(name), replayed) :
                    <<name, source>> \in {pair \in (names \cap DOMAIN at) \X UNION {Readings(n) : n \in names} :
                                           pair[2] \in Readings(pair[1])}}
           \cup UNION {DeclaredDrift(raw.at[key], at[key], Append(path, key),
                                      Untold(Either(ValuesBeside(beside)), owner), replayed) :
                          key \in IF beside = <<>> THEN {} ELSE (DOMAIN raw.at \cap DOMAIN at) \ names}

\* Paired by key where validation kept the keys, else by order, which it keeps while it coerces them.
MappingDrift(raw, built, path, declared, replayed) ==
  LET classes == TypedDicts(declared)
      Made(key) == IF DOMAIN raw.at = DOMAIN built.at THEN key ELSE Coerced[key]
  IN  IF raw.is # "mapping" THEN RefusedIfKeyHides(raw, built, path, declared)
      ELSE IF Len(classes) = 1 /\ DictsBeside(declared) = <<>>
      THEN RecordDrift(raw, built.at, DOMAIN built.at, path, classes[1], replayed)
      ELSE IF classes # <<>> THEN UnsureDrift(raw, built.at, declared, path, replayed)
      ELSE IF Cardinality(DOMAIN raw.at) # Cardinality(DOMAIN built.at)
      THEN RefusedIfKeyHides(raw, built, path, declared)
      ELSE {Further(raw.at[key], built.at[Made(key)], Append(path, key), ValueDeclared(declared), replayed) :
                    key \in DOMAIN raw.at}

\* Extras the model no longer holds were built and removed by a validator: they are built again.
ExtrasDrift(raw, built, path, replayed) ==
  LET class    == built.class
      typed    == class.extras.is # "any"
      declared == IF typed THEN Told(class.extras, class) ELSE Unsaid
      gone     == SetToSeq({key \in UnreadKeys(class, raw) : key \notin DOMAIN built.extra})
      parts    == [n \in DOMAIN gone |-> raw.at[gone[n]]]
  IN  UNION {DeclaredDrift(raw.at[key], built.extra[key], Append(path, key), declared, replayed) :
               key \in DOMAIN built.extra}
        \cup IF typed /\ \E n \in DOMAIN parts : HoldsMapping(parts[n])
             THEN Replayed(parts, [n \in DOMAIN gone |-> Append(path, gone[n])],
                           Told(Named("list", class.extras), class), {Uncheckable(path)})
             ELSE {}

ModelDrift(raw, built, path, replayed) ==
  LET class == built.class
      Under(name) ==
        LET source == FieldRead(class, name, raw)[1]
            part   == Head(Followed(raw, source))
            type   == class.fields[name].type
        IN  IF replayed /\ Chooses(type) THEN Refused(part, path \o source)
            ELSE {Further(part, built.at[name], path \o source, Told(type, class), replayed)}
  IN  IF class.is = "root"
      THEN IF MayHoldModel(class.root, TRUE) THEN DeclaredDrift(raw, built.at, path, Told(class.root, class), replayed) ELSE {}
      ELSE IF raw.is # "mapping" THEN Refused(raw, path)
      ELSE (IF class.extra = "allow" THEN ExtrasDrift(raw, built, path, replayed)
            ELSE {Undeclared(Append(path, key)) : key \in UnreadKeys(class, raw)})
           \cup UNION {Under(name) : name \in FieldsSent(class, raw)}

ValueDrift(part) ==
  LET raw   == DecodedAt(part.sent)
      path  == PlaceIn(part.sent, part.where)
      built == part.built
      declared == part.declared
      replayed == part.replayed
  IN  CASE built.is \in {"kept", "scalar"} -> {}
        [] built.is = "instance" /\ built.class.is # "dataclass" -> ModelDrift(raw, built, path, replayed)
        [] built.is = "instance" /\ built.class.is = "dataclass" ->
             IF raw.is # "mapping" THEN Refused(raw, path)
             ELSE RecordDrift(raw, built.at, DOMAIN built.extra, path, built.class, replayed)
        [] built.is \in {"list", "set"} -> ItemsDrift(raw, built, path, declared, replayed)
        [] built.is = "mapping" -> MappingDrift(raw, built, path, declared, replayed)
        [] built.is = "lazy"    -> Refused(raw, path)

\* The finds among them, and those of every part there is to walk.
RECURSIVE DriftUnder(_)
DriftUnder(found) ==
  LET parts == {entry \in found : entry.why = "walk"}
  IN  (found \ parts) \cup UNION {DriftUnder(ValueDrift(part)) : part \in parts}

-----------------------------------------------------------------------------
(* assert_conforms() *)

DriftInit == contract = <<>> /\ stage = "unasked" /\ conforming = <<>> /\ drift = {}

Sent     == IF contract.each THEN contract.payload.items ELSE <<contract.payload>>
Start(n) == IF contract.each THEN <<n>> ELSE <<>>

AskContract ==
  /\ stage = "unasked"
  /\ contract' \in Contracts
  /\ stage' = "validating"
  /\ UNCHANGED <<conforming, drift>>

\* The first item that does not validate is what the assertion tells.
ValidateNext ==
  /\ stage = "validating" /\ Len(conforming) < Len(Sent)
  /\ LET answer == Validate(contract.class, Sent[Len(conforming) + 1])
     IN  IF answer.valid
         THEN conforming' = Append(conforming, answer) /\ UNCHANGED stage
         ELSE stage' = "refused" /\ UNCHANGED conforming
  /\ UNCHANGED <<contract, drift>>

\* The first part that cannot be checked is all it tells.
CheckExactness ==
  /\ stage = "validating" /\ Len(conforming) = Len(Sent)
  /\ LET found      == [n \in DOMAIN Sent |-> DriftUnder(ModelDrift(Sent[n], conforming[n].built, Start(n), FALSE))]
         Unread(n)  == {entry \in found[n] : entry.why = "uncheckable"}
         unchecked  == {n \in DOMAIN Sent : Unread(n) # {}}
     IN  IF unchecked = {} THEN drift' = UNION {found[n] : n \in DOMAIN Sent}
         ELSE \E n \in unchecked :
                /\ \A m \in unchecked : n <= m
                /\ \E entry \in Unread(n) : drift' = {entry}
  /\ stage' = "told"
  /\ UNCHANGED <<contract, conforming>>

DriftStep == AskContract \/ ValidateNext \/ CheckExactness
DriftDone == stage \in {"refused", "told"}

-----------------------------------------------------------------------------

(* What an exact check tells is what validation dropped: every key that a   *)
(* class, a dataclass or a TypedDict dropped anywhere in the payload is     *)
(* named, at its place, unless the check refuses; a key is named that was   *)
(* not dropped, or a part refused, only where validation left items that    *)
(* do not pair with what was sent: in a set, a resized list, keys made one, *)
(* what can be read once, or a dict several types may have built.           *)
(*                                                                          *)
(* The code makes one exception to the first, inside an odd item.  That     *)
(* items of mixed classes in a set or a resized list fail (assertpy.py:992) *)
(* is decided by the items that are left.  Where those are all of one       *)
(* class, "each raw item became one too" (_contract.py:1602), the item too  *)
(* that a validator took away: one of another class is read as theirs, and  *)
(* a key that its own class dropped may be passed over in silence.          *)
DriftIsExact ==
  stage = "told" =>
    LET dropped == UNION {From(Start(n), conforming[n].dropped) : n \in DOMAIN conforming}
        loose   == UNION {FromLoose(Start(n), conforming[n].loose) : n \in DOMAIN conforming}
        named   == {entry.path : entry \in drift}
        Within(path, parts) == \E part \in parts : IsPrefix(part.place, path)
    IN  IF \E entry \in drift : entry.why = "uncheckable"
        THEN \A path \in named : Within(path, loose)
        ELSE /\ \A path \in named \ dropped : Within(path, loose)
             /\ \A path \in dropped \ named : Within(path, {part \in loose : part.apart})
=============================================================================
