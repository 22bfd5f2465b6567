------------------------------ MODULE SchemaText ------------------------------
(***************************************************************************)
(* The IDL text that TypeSupport::generate_idl_for_type()                  *)
(* (src/src/dds/TypeSupport.cpp) makes of a type mapping: the recorder     *)
(* stores it in its files as the schema of the messages.                   *)
(*                                                                         *)
(* The text of a type is a sequence of tokens, the text of a schema a      *)
(* sequence of declarations.  Modules, annotations, comments and the       *)
(* values of enumerators, which the code leaves out, are left out.         *)
(***************************************************************************)
EXTENDS TypeObjects

Basic(tid)  == [kind |-> "basic", type |-> tid]
Named(name) == [kind |-> "name", name |-> name]
Bound(n)    == [kind |-> "bound", bound |-> n]
Opening     == [kind |-> "sequence<"]
Closing     == [kind |-> ">"]

Octet == Plain("BYTE")

InSequence(idl)    == <<Opening>> \o idl \o <<Closing>>
Dimensions(bounds) == [i \in DOMAIN bounds |-> Bound(bounds[i])]

\* A reference is the name of a struct; other types that have a name become an octet.
StructName(hash, mapping) ==
    LET s == FindByHash("STRUCTURE", hash, mapping)
    IN IF s = NoType THEN Basic(Octet) ELSE Named(s.name)

TypeidToIdl(tid, mapping, nested) ==
    CASE IsPrimitive(tid) \/ tid.d = "STRING8" -> <<Basic(tid)>>
      [] tid.d = "SEQUENCE" -> InSequence(nested[tid.element])
      [] tid.d = "ARRAY" -> nested[tid.element] \o Dimensions(tid.bounds)
      [] tid.d = "EK_COMPLETE" -> <<StructName(tid.hash, mapping)>>

\* The recursion: the text if d elements of elements are followed.
IdlUpTo(mapping) ==
    LET idl[d \in 0..MaxDepth] ==
            [tid \in Types |-> IF d = 0 THEN <<Basic(Octet)>>
                               ELSE TypeidToIdl(tid, mapping, idl[d - 1])]
    IN idl

\* split_array_type(): all that begins with the first bracket goes behind the name of the
\* member, also when this bracket is in the middle of the text.
SplitArrayType(name, idl) ==
    LET brackets == {i \in DOMAIN idl : idl[i].kind = "bound"}
        first == Min(brackets)
    IN IF brackets = {} THEN [name |-> name, base |-> idl, dims |-> <<>>]
       ELSE [name |-> name, base |-> SubSeq(idl, 1, first - 1),
             dims |-> SubSeq(idl, first, Len(idl))]

StructIdl(s, mapping) ==
    [kind |-> "struct", name |-> s.name,
     members |-> [i \in DOMAIN s.members |->
                     SplitArrayType(s.members[i].name, IdlUpTo(mapping)[MaxDepth][s.members[i].type])]]

EnumIdl(e) == [kind |-> "enum", name |-> e.name,
               members |-> [i \in DOMAIN e.literals |-> e.literals[i].name]]

Declares(idl, name) == \E i \in DOMAIN idl : idl[i].name = name

\* The first pass over the mapping, up to its place i: the enumerations.
EnumsUpTo(mapping) ==
    LET upTo[i \in 0..Len(mapping)] ==
            IF i = 0 THEN <<>>
            ELSE LET o == mapping[i].object
                 IN IF o.d = "ENUM" /\ ~Declares(upTo[i - 1], o.name)
                    THEN Append(upTo[i - 1], EnumIdl(o)) ELSE upTo[i - 1]
    IN upTo

\* The second pass: the structs but for the main one.
StructsUpTo(main, mapping) ==
    LET upTo[i \in 0..Len(mapping)] ==
            IF i = 0 THEN EnumsUpTo(mapping)[Len(mapping)]
            ELSE LET o == mapping[i].object
                 IN IF o.d = "STRUCTURE" /\ o.name # main /\ ~Declares(upTo[i - 1], o.name)
                    THEN Append(upTo[i - 1], StructIdl(o, mapping)) ELSE upTo[i - 1]
    IN upTo

EnumsAndStructs(main, mapping) == StructsUpTo(main, mapping)[Len(mapping)]

AllStructsIdl_MainToo(main, mapping) ==
    LET found == FindStructByTypeName(main, mapping)
    IN IF found = NoType THEN <<>>
       ELSE Append(EnumsAndStructs("", mapping), StructIdl(found, mapping))

\* generate_all_structs_idl(): the two passes, then the main struct; nothing without one.
AllStructsIdl(main, mapping) ==
    LET found == FindStructByTypeName(main, mapping)
    IN IF found = NoType THEN <<>>
       ELSE Append(EnumsAndStructs(main, mapping), StructIdl(found, mapping))

\* generate_idl_for_type(): a struct of bytes when the mapping does not have the type.
GenerateIdl(main, mapping) ==
    LET idl == AllStructsIdl(main, mapping)
        bytes == InSequence(<<Basic(Octet)>>)
    IN IF idl # <<>> THEN idl
       ELSE <<[kind |-> "struct", name |-> main, members |-> <<SplitArrayType("data", bytes)>>]>>
=============================================================================
