----------------------------- MODULE MCContracts -----------------------------
(***************************************************************************)
(* The contracts of ContractDrift for TLC: classes that differ in how      *)
(* their fields are named, and a model with one field of each type, asked  *)
(* of payloads that hold every kind of part.                               *)
(***************************************************************************)
EXTENDS ContractDrift, TLC

CONSTANTS keyF, keyG, keyAlias, keyOther, keyData, keyStray

MCCoerced == [key \in {keyF, keyG, keyAlias, keyOther, keyData, keyStray} |-> IF key \in {keyF, keyG} THEN keyF ELSE key]

Field(aliases, type) == [aliases |-> aliases, type |-> type]
Class(kind, fields)  ==
  [is |-> kind, fields |-> fields, extra |-> "ignore", extras |-> AnyType, byAlias |-> TRUE, byName |-> FALSE,
   ownEq |-> FALSE, forgets |-> FALSE]
OneField(kind, aliases, type) == Class(kind, keyF :> Field(aliases, type))

-----------------------------------------------------------------------------
(* How a field is named *)

Namings == {<<>>, <<<<keyAlias>>>>, <<<<keyAlias>>, <<keyOther>>>>, <<<<keyData, keyG>>>>, <<<<keyData, 1>>>>, <<<<keyData, keyG>>, <<keyOther>>>>}

NamedClasses ==
  {[OneField(kind, aliases, AnyScalar) EXCEPT !.byName = by[1], !.byAlias = by[2], !.extra = extra] :
     kind \in {"model", "dataclass", "typed_dict"}, aliases \in Namings,
     by \in {<<FALSE, TRUE>>, <<TRUE, TRUE>>, <<TRUE, FALSE>>}, extra \in {"ignore", "allow"}}

Lit == Scalar("one")

FlatPayloads ==
  {Mapping([key \in keys |-> Lit] @@ under) :
     keys \in SUBSET {keyF, keyAlias, keyOther},
     under \in {<<>>} \cup {keyData :> part : part \in {Mapping(keyG :> Lit), Mapping(keyStray :> Lit), Listed(<<Lit>>), Listed(<<>>)}}}

NamedContracts == [class : {class \in NamedClasses : class.is = "model"}, payload : FlatPayloads, each : {FALSE}]
                    \cup [class : {OneField("model", <<>>, class) : class \in {c \in NamedClasses : c.is # "model"}},
                          payload : {Mapping(keyF :> payload) : payload \in FlatPayloads}, each : {FALSE}]

-----------------------------------------------------------------------------
(* What a field is declared as *)

A  == OneField("model", <<>>, AnyScalar)
B  == Class("model", keyG :> Field(<<>>, AnyScalar))
AB == Class("model", keyF :> Field(<<>>, AnyScalar) @@ keyG :> Field(<<>>, AnyScalar))
Eq == [A EXCEPT !.ownEq = TRUE]
DA == OneField("dataclass", <<>>, AnyScalar)
T  == OneField("typed_dict", <<>>, LiteralOf({"one"}))
U  == Class("typed_dict", keyF :> Field(<<>>, LiteralOf({"two"})) @@ keyG :> Field(<<>>, A))
V  == Class("typed_dict", keyG :> Field(<<<<keyAlias>>>>, A))
Wide == Class("model", keyG :> Field(<<>>, AnyScalar) @@ keyOther :> Field(<<>>, AnyScalar))
W  == Class("typed_dict", keyF :> Field(<<>>, LiteralOf({"one"})) @@ keyOther :> Field(<<>>, A))
Put == [Class("typed_dict", keyF :> Field(<<<<keyAlias>>>>, LiteralOf({"one"})) @@ keyOther :> Field(<<>>, A)) EXCEPT !.extra = "allow"]
Either2 == OneField("model", <<>>, UnionOf(<<A, B>>))
Keeping == [V EXCEPT !.extra = "allow"]
Over == [Keeping EXCEPT !.is = "dataclass"]
Deep == OneField("model", <<>>, Named("list", A))
Free == [OneField("model", <<>>, AnyScalar) EXCEPT !.extra = "allow", !.extras = A]
Lost == [Free EXCEPT !.forgets = TRUE]
Root == [is |-> "root", root |-> Named("list", A)]

ItemTypes == {A, DA, T, Eq, Free, UnionOf(<<A, B>>), UnionOf(<<A, NoneType>>), UnionOf(<<T, U>>)}
Hashed    == {A, DA, Eq, UnionOf(<<A, B>>), UnionOf(<<Eq, Wide>>), UnionOf(<<A, Wide>>), AnyScalar}

Containers ==
  {Named(kind, type) : kind \in {"list", "dict", "keyed"}, type \in ItemTypes}
    \cup {Named("set", type) : type \in Hashed} \cup {Named("lazy", A), FixedTuple(<<A, B>>), FixedTuple(<<B, A>>)}

Types ==
  Containers \cup ItemTypes
    \cup {Reshaped(how, type) : how \in {"empties", "filters", "wraps", "steers"},
            type \in {Named(kind, item) : kind \in {"list", "set"}, item \in Hashed} \cup {Named("list", Deep), Named("list", T), Named("list", Either2)}}
    \cup {Reshaped("trims", type) : type \in {Named("list", A), FixedTuple(<<A, B>>)}}
    \cup {Reshaped("unwraps", type) : type \in {A, DA, T}}
    \cup {Named("json", type) : type \in {A, Named("list", A), Named("set", A)}}
    \cup {UnionOf(types) : types \in {<<A, Named("list", A)>>, <<Named("list", A), Named("list", B)>>,
            <<Named("dict", A), T>>, <<T, U, V>>, <<U, V>>, <<U, Keeping>>, <<Put, U>>, <<Named("list", T), Named("list", U)>>}}
    \cup {Reshaped("rewrites", UnionOf(<<W, U>>)), Keeping, Over, Root, Lost, Deep, Named("list", Lost), AnyType, Named("list", AnyType), Named("list", Named("list", A))}

Small == {Mapping(<<>>), Mapping(keyF :> Lit), Mapping(keyG :> Lit), Mapping(keyF :> Lit @@ keyG :> Lit), Mapping(keyF :> Lit @@ keyStray :> Lit)}
Nested == {Mapping(keyF :> Scalar("two") @@ keyG :> Mapping(keyF :> Lit @@ keyStray :> Lit)),
           Mapping(keyAlias :> Mapping(keyF :> Lit @@ keyStray :> Lit)), Mapping(keyF :> Lit @@ keyStray :> Mapping(keyG :> Lit)),
           Mapping(keyF :> Listed(<<Mapping(keyF :> Lit @@ keyStray :> Lit)>>)),
           Mapping(keyAlias :> Mapping(keyF :> Lit @@ keyStray :> Lit) @@ keyG :> Lit),
           Mapping(keyAlias :> Mapping(keyF :> Lit @@ keyStray :> Lit) @@ keyG :> Mapping(keyF :> Lit)),
           Mapping(keyF :> Lit @@ keyG :> Lit @@ keyOther :> Lit), Mapping(keyF :> Mapping(keyF :> Lit @@ keyG :> Lit)),
           Mapping(keyF :> Lit @@ keyOther :> Mapping(keyF :> Lit @@ keyStray :> Lit)),
           Mapping(keyAlias :> Lit @@ keyF :> Scalar("two") @@ keyOther :> Mapping(keyF :> Lit @@ keyStray :> Lit)),
           Mapping(keyF :> Mapping(keyF :> Lit) @@ keyG :> Mapping(keyF :> Lit @@ keyStray :> Lit))}

Item  == Small \cup Nested \cup {Lit, Scalar("none")}
ListParts == {Listed(<<>>)} \cup {Listed(<<item>>) : item \in Item} \cup {Listed(<<first, second>>) : first, second \in Item}
PartsSent == Item \cup ListParts \cup {Once(list.items) : list \in {Listed(<<item>>) : item \in Item}}
           \cup {Text(part) : part \in Small \cup {Listed(<<item>>) : item \in Small}}
           \cup {Listed(<<Text(item), second>>) : item, second \in Small}
           \cup {Listed(<<Listed(<<item>>)>>) : item \in Small}

TypedContracts ==
  {[class |-> OneField(kind, <<>>, type), payload |-> Mapping(keyF :> part), each |-> FALSE] :
     kind \in {"model"}, type \in Types, part \in PartsSent}

EachContracts == [class : {A, Free, Deep}, payload : ListParts, each : {TRUE}]

MCContracts == NamedContracts \cup TypedContracts \cup EachContracts
=============================================================================
