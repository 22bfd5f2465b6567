------------------------------- MODULE TypeUse -------------------------------
(***************************************************************************)
(* The uses that cddsctl makes of type objects: echo prints a sample as    *)
(* YAML or JSON, and the recorder writes the schema of a topic.  One       *)
(* behaviour is one such use, of a type and a value taken from the         *)
(* constants.                                                              *)
(***************************************************************************)
EXTENDS SamplePrinting, SchemaText

CONSTANTS
    Library,      \* the types that others refer to: a sequence of [hash, object]
    Mains         \* the structs that samples are of

MainName == "Main"
MainHash == "main"

\* The main struct comes before or after the types it refers to.
Mappings(main) ==
    LET pair == [hash |-> MainHash, object |-> main]
    IN {<<pair>> \o Library, Library \o <<pair>>}

\* What is sent has the form that CDR gives it; within a type mapping, hashes and names
\* are unique.
TypeUseAssumption ==
    /\ MaxDepth \in Nat \ {0} /\ MaxElements \in Nat
    /\ \A t \in Types : /\ IsTypeIdentifier(t)
                        /\ t.d = "ARRAY" => Product(t.bounds) \in 0..MaxElements
    /\ ByHash(MainHash) \in Types
    /\ \A width \in {1, 2, 4, 8} : \A v \in Numbers[width] : v \in Bytes /\ Len(v) = width
    /\ \A v \in Texts : v \in Bytes /\ Len(v) + 1 \in Int32
    /\ Lengths \subseteq 0..MaxElements /\ Lengths \subseteq Int32 /\ Defaults \subseteq Int32
    /\ \A main \in Mains : IsObject(main) /\ IsStruct(main) /\ main.name = MainName
    /\ Library \in Seq({Library[i] : i \in DOMAIN Library})
    /\ \A i \in DOMAIN Library :
          /\ Library[i].hash # MainHash /\ Library[i].object.name # MainName
          /\ IsObject(Library[i].object)
          /\ \A j \in DOMAIN Library : (\/ Library[i].hash = Library[j].hash
                                        \/ Library[i].object.name = Library[j].object.name) => i = j

ASSUME TypeUseAssumption

-----------------------------------------------------------------------------
(* Which types are printed, and which a schema can say.                    *)

\* The types that a type is built of directly, as pairs of the type and whether it is the
\* element of a list.
Inside(part, mapping) ==
    LET tid == part[1]
        t == ObjectOf(tid.hash, mapping)
    IN CASE IsList(tid) -> {<<tid.element, TRUE>>}
         [] IsPrimitive(tid) \/ tid.d = "STRING8" -> {}
         [] tid.d = "EK_COMPLETE" ->
               CASE t.d \in {"STRUCTURE", "UNION"} ->
                       {<<t.members[i].type, FALSE>> : i \in DOMAIN t.members}
                 [] t.d = "ALIAS" -> {<<t.of, FALSE>>}
                 [] t.d \notin {"STRUCTURE", "UNION", "ALIAS"} -> {}

\* All types that occur in a type, itself included, within d references.
PartsUpTo(mapping) ==
    LET parts[d \in 0..MaxDepth] ==
            [part \in Types \X BOOLEAN |->
                IF d = 0 THEN {}
                ELSE {part} \cup UNION {parts[d - 1][p] : p \in Inside(part, mapping)}]
    IN parts

Parts(mapping) == PartsUpTo(mapping)[MaxDepth][<<ByHash(MainHash), FALSE>>]

KindOf(tid, mapping) ==
    IF tid.d = "EK_COMPLETE" THEN ObjectOf(tid.hash, mapping).d ELSE tid.d

\* Unions whose discriminator has the width it is read with and that have no default
\* member; no aliases, and nothing that is not in the mapping; and, for YAML, no lists of
\* enumerations or unions.
Printable(format, part, mapping) ==
    LET kind == KindOf(part[1], mapping)
        t == ObjectOf(part[1].hash, mapping)
    IN /\ kind \notin {"ALIAS", NoType.d}
       /\ kind = "UNION" =>
             /\ DiscriminatorSize(t) = DiscriminatorWidth(t.discriminator)
             /\ \A i \in DOMAIN t.members : t.members[i].labels # {}
       /\ format = "yaml" /\ part[2] => kind \notin {"ENUM", "UNION"}

\* The types that the text of a type can express: no names but those of structs, and no
\* lists of arrays.
ExpressibleUpTo(mapping) ==
    LET expressible[d \in 0..MaxDepth] ==
            [tid \in Types |->
                /\ d # 0
                /\ IsList(tid) => tid.element.d # "ARRAY" /\ expressible[d - 1][tid.element]
                /\ tid.d = "EK_COMPLETE" => KindOf(tid, mapping) = "STRUCTURE"]
    IN expressible

Expressible(struct, mapping) ==
    \A i \in DOMAIN struct.members : ExpressibleUpTo(mapping)[MaxDepth][struct.members[i].type]

\* What the text of a type means to a reader of the schema.
IdlToken ==
    [kind : {"basic"}, type : Types \cup {Octet}] \cup [kind : {"name"}, name : STRING]
        \cup [kind : {"bound"}, bound : Nat] \cup {Opening, Closing}

TypeNamed(name, mapping) ==
    ByHash(mapping[CHOOSE i \in DOMAIN mapping : mapping[i].object.name = name].hash)

MeaningUpTo(mapping) ==
    LET meaning[d \in 0..MaxDepth] ==
            [idl \in Seq(IdlToken) |->
                IF d = 0 \/ idl = <<>> THEN NoType
                ELSE IF idl[1].kind = "sequence<"
                     THEN ListOf(meaning[d - 1][SubSeq(idl, 2, Len(idl) - 1)])
                ELSE IF idl[1].kind = "name" THEN TypeNamed(idl[1].name, mapping)
                ELSE idl[1].type]
    IN meaning

MemberMeant(member, mapping) ==
    LET base == MeaningUpTo(mapping)[MaxDepth][member.base]
    IN Member(member.name,
              IF member.dims = <<>> THEN base
              ELSE ArrayOf(base, [i \in DOMAIN member.dims |-> member.dims[i].bound]))

-----------------------------------------------------------------------------
VARIABLES
    types,      \* the type mapping of the topic
    sample,     \* a value of the main struct: the bytes, and the document it should be
    use,        \* "yaml", "json" or "idl"
    document,   \* what has been printed, and where the reading of the sample ended
    schema      \* the schema that has been written

vars == <<types, sample, use, document, schema>>

Nothing == [node |-> Literal("nothing"), at |-> 0]

Init ==
    /\ \E main \in Mains : types \in Mappings(main)
    /\ sample \in SamplesUpTo(types)[MaxDepth][ByHash(MainHash)][<<>>]
    /\ use \in {"yaml", "json", "idl"}
    /\ document = Nothing
    /\ schema = <<>>

PrintSample ==
    /\ document = Nothing
    /\ \/ use = "yaml" /\ document' = PrintYaml(MainName, types, sample.bytes)
       \/ use = "json" /\ document' = PrintJson(MainName, types, sample.bytes)
    /\ UNCHANGED <<types, sample, use, schema>>

WriteSchema ==
    /\ use = "idl" /\ schema = <<>>
    /\ schema' = GenerateIdl(MainName, types)
    /\ UNCHANGED <<types, sample, use, document>>

Done == (document # Nothing \/ schema # <<>>) /\ UNCHANGED vars

Next == PrintSample \/ WriteSchema \/ Done

Spec == Init /\ [][Next]_vars

-----------------------------------------------------------------------------
(* Properties.                                                             *)

IsMeant == document # Nothing => document = Read(sample.node, Len(sample.bytes))

\* A sample is printed as the value it encodes, and read to its end, whatever the alignment
\* and the nesting of its members, if all their types are printable.
PrintsWhatWasSent == (\A p \in Parts(types) : Printable(use, p, types)) => IsMeant

\* "Nested structures and unions are fully supported", says the README.
UnionsArePrinted == (\A p \in Parts(types) : KindOf(p[1], types) # "ALIAS") => IsMeant

\* The schema declares every struct of the mapping exactly once, with its members in their
\* order and, if it can express them, with their types, and the main struct last: whoever
\* has only the file can decode the messages.
SchemaSaysTheType ==
    schema # <<>> =>
        /\ schema[Len(schema)].name = MainName
        /\ \A k \in Structs(types) :
              LET struct == types[k].object
              IN \E i \in DOMAIN schema :
                    /\ \A j \in DOMAIN schema : schema[j].name = struct.name => j = i
                    /\ schema[i].kind = "struct" /\ schema[i].name = struct.name
                    /\ Len(schema[i].members) = Len(struct.members)
                    /\ \A m \in DOMAIN struct.members :
                          /\ schema[i].members[m].name = struct.members[m].name
                          /\ Expressible(struct, types) =>
                                MemberMeant(schema[i].members[m], types) = struct.members[m]

\* generate_all_structs_idl() promises "dependency order": what a struct names has been
\* declared before it.
DeclaredBeforeUse ==
    \A i \in DOMAIN schema : schema[i].kind = "struct" =>
        \A m \in DOMAIN schema[i].members : \A k \in DOMAIN schema[i].members[m].base :
            LET token == schema[i].members[m].base[k]
            IN token.kind = "name" => \E j \in 1..(i - 1) : schema[j].name = token.name
=============================================================================
