----------------------------- MODULE TypeObjects -----------------------------
(***************************************************************************)
(* The XTypes type objects that cddsctl finds in a topic descriptor, and   *)
(* the searches in them (src/include/cddsctl/dds/CdrReader.hpp).           *)
(*                                                                         *)
(* A type identifier is a record with the discriminant d, the bounds of    *)
(* strings and sequences left out.  A type mapping is a sequence of        *)
(* complete type objects with their hashes.                                *)
(*                                                                         *)
(* What the code computes by recursion over types is computed here by      *)
(* functions of a depth, the number of references that are followed.       *)
(***************************************************************************)
EXTENDS Integers, FiniteSets, SequencesExt

CONSTANTS
    Types,      \* the type identifiers that occur
    MaxDepth    \* bound: how many references are followed

\* The primitive types, with their sizes.
Width ==
    [BOOLEAN |-> 1, BYTE |-> 1, CHAR8 |-> 1, INT16 |-> 2, UINT16 |-> 2, INT32 |-> 4,
     UINT32 |-> 4, INT64 |-> 8, UINT64 |-> 8, FLOAT32 |-> 4, FLOAT64 |-> 8]

IsPrimitive(tid) == tid.d \in DOMAIN Width
IsList(tid)      == tid.d \in {"SEQUENCE", "ARRAY"}

Plain(d)             == [d |-> d]
Text                 == [d |-> "STRING8"]
ListOf(tid)          == [d |-> "SEQUENCE", element |-> tid]
ArrayOf(tid, bounds) == [d |-> "ARRAY", element |-> tid, bounds |-> bounds]
ByHash(hash)         == [d |-> "EK_COMPLETE", hash |-> hash]

Struct(name, members)      == [d |-> "STRUCTURE", name |-> name, members |-> members]
Enum(name, literals)       == [d |-> "ENUM", name |-> name, literals |-> literals]
Union(name, disc, members) == [d |-> "UNION", name |-> name, discriminator |-> disc,
                               members |-> members]
Alias(name, tid)           == [d |-> "ALIAS", name |-> name, of |-> tid]

Member(name, tid)          == [name |-> name, type |-> tid]
Branch(name, tid, labels)  == [name |-> name, type |-> tid, labels |-> labels]

\* What the searches return when there is nothing: a null pointer.
NoType == [d |-> "none", name |-> ""]

-----------------------------------------------------------------------------
(* The searches.                                                           *)

\* find_struct_by_hash(), find_enum_by_hash() and find_union_by_hash().
FindByHash(kind, hash, mapping) ==
    LET hits == {i \in DOMAIN mapping : mapping[i].hash = hash /\ mapping[i].object.d = kind}
    IN IF hits = {} THEN NoType ELSE mapping[Min(hits)].object

Structs(mapping) == {i \in DOMAIN mapping : mapping[i].object.d = "STRUCTURE"}

\* The last struct of the mapping: the heuristic.
FindMainStruct(mapping) ==
    IF Structs(mapping) = {} THEN NoType ELSE mapping[Max(Structs(mapping))].object

\* The first struct of that name.
FindStructByTypeName(name, mapping) ==
    LET hits == {i \in Structs(mapping) : mapping[i].object.name = name}
    IN IF hits = {} THEN NoType ELSE mapping[Min(hits)].object

\* The first object under a hash, whatever it is.
ObjectOf(hash, mapping) ==
    LET hits == {i \in DOMAIN mapping : mapping[i].hash = hash}
    IN IF hits = {} THEN NoType ELSE mapping[Min(hits)].object

\* The number of elements of an array.
Product(bounds) ==
    LET upTo[i \in 0..Len(bounds)] == IF i = 0 THEN 1 ELSE upTo[i - 1] * bounds[i]
    IN  upTo[Len(bounds)]

-----------------------------------------------------------------------------
(* What type identifiers and type objects are.                             *)

\* The numbers of enumerators and labels: those of an int32 that are not negative.
Int32 == {n \in Nat : n \div 256 < 256 * (256 * 128)}

IsTypeIdentifier(t) ==
    \/ (IsPrimitive(t) \/ t.d = "STRING8") /\ t = Plain(t.d)
    \/ t.d = "SEQUENCE" /\ t = ListOf(t.element) /\ t.element \in Types
    \/ /\ t.d = "ARRAY" /\ t = ArrayOf(t.element, t.bounds) /\ t.element \in Types
       /\ t.bounds \in Seq(Nat) \ {<<>>}
    \/ t.d = "EK_COMPLETE" /\ t = ByHash(t.hash)

IsStruct(o) ==
    /\ o.d = "STRUCTURE" /\ o = Struct(o.name, o.members)
    /\ o.members \in Seq([name : STRING, type : Types])

IsEnum(o) ==
    /\ o.d = "ENUM" /\ o = Enum(o.name, o.literals)
    /\ o.literals \in Seq([value : Int32, name : STRING])
    /\ \A i, j \in DOMAIN o.literals : o.literals[i].value = o.literals[j].value => i = j

\* No two branches have a label in common.
IsUnion(o) ==
    /\ o.d = "UNION" /\ o = Union(o.name, o.discriminator, o.members)
    /\ o.discriminator \in Types
    /\ o.members \in Seq([name : STRING, type : Types, labels : SUBSET Int32])
    /\ \A i, j \in DOMAIN o.members : o.members[i].labels \cap o.members[j].labels # {} => i = j

IsAlias(o) == o.d = "ALIAS" /\ o = Alias(o.name, o.of) /\ o.of \in Types

IsObject(o) == o.name \in STRING \ {""} /\ (IsStruct(o) \/ IsEnum(o) \/ IsUnion(o) \/ IsAlias(o))
=============================================================================
