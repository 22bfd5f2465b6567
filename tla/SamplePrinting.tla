---------------------------- MODULE SamplePrinting ----------------------------
(***************************************************************************)
(* How echo turns the bytes of a sample into a document: YamlPrinter.cpp,  *)
(* JsonPrinter.cpp and the readers of CdrReader.hpp, against the encoding  *)
(* of a value by the rules of CDR (XCDR1, final types, little endian).     *)
(*                                                                         *)
(* A document is a tree of nodes.  Indentation, quotes, the order of keys  *)
(* and the notation of numbers are left out: a number is printed as the    *)
(* bytes that were read.  Both printers walk the types in the same way and *)
(* differ in lists only.                                                   *)
(***************************************************************************)
EXTENDS TypeObjects

CONSTANTS
    MaxElements,  \* bound: how many elements are read of a list with a wrong length
    Numbers,      \* for each width, the numbers of that width that are sent
    Texts,        \* the texts that are sent
    Lengths,      \* the lengths of the sequences that are sent
    Defaults      \* the discriminators that are sent for a member without labels

Byte  == 0..255
Bytes == Seq(Byte)

Zeros(n) == [i \in 1..n |-> 0]

\* The value of bytes as an int32; those that occur are not negative.
Number(bytes) ==
    LET byte(i) == IF i \in DOMAIN bytes THEN bytes[i] ELSE 0
    IN byte(1) + 256 * (byte(2) + 256 * (byte(3) + 256 * byte(4)))

\* The bytes of a number, the least significant one first.
LittleEndian(width, n) ==
    LET second == n \div 256
        third  == second \div 256
        fourth == third \div 256
    IN [i \in 1..width |-> CASE i = 1 -> n % 256
                              [] i = 2 -> second % 256
                              [] i = 3 -> third % 256
                              [] i = 4 -> fourth
                              [] i > 4 -> 0]

Node(kind, name, bytes, items) ==
    [kind |-> kind, name |-> name, bytes |-> bytes, items |-> items]
Leaf(bytes)        == Node("leaf", "", bytes, <<>>)
List(items)        == Node("list", "", <<>>, items)
Object(items)      == Node("object", "", <<>>, items)
Literal(name)      == Node("literal", name, <<>>, <<>>)
Unknown            == Node("unknown", "", <<>>, <<>>)
\* A member of an object, or an element of a list, which has no name.
Field(name, node)  == Node("field", name, <<>>, <<node>>)

-----------------------------------------------------------------------------
(* The readers.                                                            *)

Aligned(at, width) == at + ((width - (at % width)) % width)

ReadPrimitive_Unaligned(width, bytes, at) ==
    IF at + width <= Len(bytes)
    THEN [bytes |-> SubSeq(bytes, at + 1, at + width), at |-> at + width]
    ELSE [bytes |-> Zeros(width), at |-> at]

\* read_primitive(): past the end of the sample every value is zero, and only the
\* alignment moves the index.
ReadPrimitive(width, bytes, at) ==
    LET from == Aligned(at, width)
    IN IF from + width <= Len(bytes)
       THEN [bytes |-> SubSeq(bytes, from + 1, from + width), at |-> from + width]
       ELSE [bytes |-> Zeros(width), at |-> from]

\* read_string(): the length counts the NUL at the end.
ReadString(bytes, at) ==
    LET len == ReadPrimitive(4, bytes, at)
        n == Number(len.bytes)
    IN IF n = 0 \/ len.at + n > Len(bytes)
       THEN [bytes |-> <<>>, at |-> len.at]
       ELSE [bytes |-> SubSeq(bytes, len.at + 1, len.at + n - 1), at |-> len.at + n]

\* The discriminator of a union: all plain integers are read with 8 bytes, the types that
\* come after UINT64, and enumerations, with 4.
DiscriminatorWidth(tid) ==
    IF tid.d \in {"BOOLEAN", "BYTE", "INT16", "INT32", "INT64", "UINT16", "UINT32", "UINT64"}
    THEN 8 ELSE 4

-----------------------------------------------------------------------------
(* The printers.  What is read of a type is a node and the next index.     *)
(* nested[tid][at] is what is read of the types it refers to.              *)

Read(node, at) == [node |-> node, at |-> at]

\* format_primitive()
FormatPrimitive(tid, bytes, at) ==
    LET r == ReadPrimitive(Width[tid.d], bytes, at) IN Read(Leaf(r.bytes), r.at)

\* The first i members, one after the other: their fields, and the next index.
InTurnUpTo(members, nested, start) ==
    LET upTo[i \in 0..Len(members)] ==
            IF i = 0 THEN [items |-> <<>>, at |-> start]
            ELSE LET before == upTo[i - 1]
                     r == nested[members[i].type][before.at]
                 IN [items |-> Append(before.items, Field(members[i].name, r.node)),
                     at |-> r.at]
    IN upTo

InTurn(members, nested, start) == InTurnUpTo(members, nested, start)[Len(members)]

\* format_struct_members(), build_struct()
Members(members, nested, start) ==
    LET all == InTurn(members, nested, start) IN Read(Object(all.items), all.at)

\* build_array() and build_sequence() read every element; format_array() and
\* format_sequence() pass over an element, without moving the index, if it is named by its
\* hash and is not a struct.
Element(format, mapping, nested) ==
    IF format = "json" THEN nested
    ELSE [tid \in Types |-> [at \in Nat |->
             IF tid.d = "EK_COMPLETE" /\ FindByHash("STRUCTURE", tid.hash, mapping) = NoType
             THEN Read(Unknown, at) ELSE nested[tid][at]]]

Repeated(n, tid) == [i \in 1..n |-> Member("", tid)]

Elements(format, n, tid, mapping, nested, start) ==
    LET count == IF n < MaxElements THEN n ELSE MaxElements
        all == InTurn(Repeated(count, tid), Element(format, mapping, nested), start)
    IN Read(List(all.items), all.at)

\* An enumerator is printed by its name, an unknown one as a number.
EnumValue(enum, bytes, at) ==
    LET r == ReadPrimitive(4, bytes, at)
        known == {i \in DOMAIN enum.literals : enum.literals[i].value = Number(r.bytes)}
    IN Read(IF known = {} THEN Leaf(r.bytes) ELSE Literal(enum.literals[Min(known)].name), r.at)

\* format_union(), build_union(): the member with a label that is the discriminator; the
\* default member has none.
UnionValue(union, bytes, nested, at) ==
    LET disc == ReadPrimitive(DiscriminatorWidth(union.discriminator), bytes, at)
        chosen == {i \in DOMAIN union.members : Number(disc.bytes) \in union.members[i].labels}
        d == Field("_d", Leaf(LittleEndian(4, Number(disc.bytes))))
        b == union.members[Min(chosen)]
        r == nested[b.type][disc.at]
    IN IF chosen = {} THEN Read(Object(<<d>>), disc.at)
       ELSE Read(Object(<<d, Field(b.name, r.node)>>), r.at)

\* A type that is named by its hash: a struct, an enumeration or a union, by what the
\* mapping has under this hash.
Referred(hash, mapping, bytes, nested, at) ==
    LET s == FindByHash("STRUCTURE", hash, mapping)
        e == FindByHash("ENUM", hash, mapping)
        u == FindByHash("UNION", hash, mapping)
    IN CASE s # NoType -> Members(s.members, nested, at)
         [] s = NoType /\ e # NoType -> EnumValue(e, bytes, at)
         [] s = NoType /\ e = NoType /\ u # NoType -> UnionValue(u, bytes, nested, at)
         [] s = NoType /\ e = NoType /\ u = NoType -> Read(Unknown, at)

\* format_value(), build_value()
Value(format, tid, mapping, bytes, nested, at) ==
    CASE IsPrimitive(tid) -> FormatPrimitive(tid, bytes, at)
      [] tid.d = "STRING8" -> LET r == ReadString(bytes, at) IN Read(Leaf(r.bytes), r.at)
      [] tid.d = "SEQUENCE" ->
            LET len == ReadPrimitive(4, bytes, at)
            IN Elements(format, Number(len.bytes), tid.element, mapping, nested, len.at)
      [] tid.d = "ARRAY" ->
            Elements(format, Product(tid.bounds), tid.element, mapping, nested, at)
      [] tid.d = "EK_COMPLETE" -> Referred(tid.hash, mapping, bytes, nested, at)

\* The recursion: what is read if d references are followed.
ReadUpTo(format, mapping, bytes) ==
    LET read[d \in 0..MaxDepth] ==
            [tid \in Types |-> [at \in Nat |->
                IF d = 0 THEN Read(Unknown, at)
                ELSE Value(format, tid, mapping, bytes, read[d - 1], at)]]
    IN read

\* The struct that describes the sample.
PrintedStruct(name, mapping) ==
    LET named == FindStructByTypeName(name, mapping)
    IN IF named # NoType THEN named ELSE FindMainStruct(mapping)

\* YamlPrinter::format() and JsonPrinter::format(): nothing without a struct.
PrintAs(format, name, mapping, bytes) ==
    LET s == PrintedStruct(name, mapping)
    IN IF s = NoType THEN Read(Unknown, 0)
       ELSE Members(s.members, ReadUpTo(format, mapping, bytes)[MaxDepth - 1], 0)

PrintYaml(name, mapping, bytes) == PrintAs("yaml", name, mapping, bytes)
PrintJson(name, mapping, bytes) == PrintAs("json", name, mapping, bytes)

-----------------------------------------------------------------------------
(* What is meant: the values of a type, each as the document it should be  *)
(* printed as and the bytes that end with its encoding.  nested[tid][bytes]*)
(* are the samples of another type, if bytes precede them.                 *)

Sample(node, bytes) == [node |-> node, bytes |-> bytes]

\* The number or the text v behind the bytes, at the next multiple of its width.
Put(bytes, width, v) == bytes \o Zeros(Aligned(Len(bytes), width) - Len(bytes)) \o v

PutNumber(bytes, width, n) == Put(bytes, width, LittleEndian(width, n))

\* A text is its length and its characters, with a NUL at the end.
PutText(bytes, v) == PutNumber(bytes, 4, Len(v) + 1) \o Append(v, 0)

DiscriminatorSize(union) ==
    IF IsPrimitive(union.discriminator) THEN Width[union.discriminator.d] ELSE 4

\* The discriminators that select a branch: its labels, or any other for the default one.
Selecting(union, branch) ==
    IF branch.labels # {} THEN branch.labels
    ELSE Defaults \ UNION {union.members[i].labels : i \in DOMAIN union.members}

\* The samples of the first i members, one after the other.
TogetherUpTo(members, nested, bytes) ==
    LET upTo[i \in 0..Len(members)] ==
            IF i = 0 THEN {[items |-> <<>>, bytes |-> bytes]}
            ELSE UNION {{[items |-> Append(s.items, Field(members[i].name, v.node)),
                          bytes |-> v.bytes] : v \in nested[members[i].type][s.bytes]} :
                        s \in upTo[i - 1]}
    IN upTo

Together(members, nested, bytes) == TogetherUpTo(members, nested, bytes)[Len(members)]

ListSamples(n, tid, nested, bytes) ==
    {Sample(List(s.items), s.bytes) :
        s \in Together(Repeated(n, tid), nested, bytes)}

StructSamples(struct, nested, bytes) ==
    {Sample(Object(s.items), s.bytes) : s \in Together(struct.members, nested, bytes)}

EnumSamples(enum, bytes) ==
    {Sample(Literal(enum.literals[i].name), PutNumber(bytes, 4, enum.literals[i].value)) :
        i \in DOMAIN enum.literals}

BranchSamples(branch, n, nested, bytes) ==
    {Sample(Object(<<Field("_d", Leaf(LittleEndian(4, n))), Field(branch.name, v.node)>>),
            v.bytes) : v \in nested[branch.type][bytes]}

UnionSamples(union, nested, bytes) ==
    UNION {UNION {BranchSamples(union.members[i], n, nested,
                                PutNumber(bytes, DiscriminatorSize(union), n)) :
                  n \in Selecting(union, union.members[i])} : i \in DOMAIN union.members}

SamplesOf(tid, mapping, nested, bytes) ==
    LET t == ObjectOf(tid.hash, mapping)
    IN CASE IsPrimitive(tid) ->
               {Sample(Leaf(v), Put(bytes, Width[tid.d], v)) : v \in Numbers[Width[tid.d]]}
         [] tid.d = "STRING8" ->
               {Sample(Leaf(v), PutText(bytes, v)) : v \in Texts}
         [] tid.d = "SEQUENCE" ->
               UNION {ListSamples(n, tid.element, nested, PutNumber(bytes, 4, n)) : n \in Lengths}
         [] tid.d = "ARRAY" -> ListSamples(Product(tid.bounds), tid.element, nested, bytes)
         [] tid.d = "EK_COMPLETE" ->
               CASE t.d = "STRUCTURE" -> StructSamples(t, nested, bytes)
                 [] t.d = "ENUM"      -> EnumSamples(t, bytes)
                 [] t.d = "UNION"     -> UnionSamples(t, nested, bytes)
                 [] t.d = "ALIAS"     -> nested[t.of][bytes]
                 [] t = NoType        -> {}

\* The samples of the types that end after d references.
SamplesUpTo(mapping) ==
    LET samples[d \in 0..MaxDepth] ==
            [tid \in Types |-> [bytes \in Bytes |->
                IF d = 0 THEN {} ELSE SamplesOf(tid, mapping, samples[d - 1], bytes)]]
    IN samples
=============================================================================
