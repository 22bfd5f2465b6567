------------------------------- MODULE MCTypes -------------------------------
(* Instances of TypeUse for TLC.                                           *)
EXTENDS TypeUse

Inner  == Struct("Inner", <<Member("x", Plain("BYTE")), Member("y", Plain("FLOAT64"))>>)
Deep   == Struct("Deep", <<Member("n", Plain("INT16")), Member("p", ByHash("inner"))>>)
Color  == Enum("Color", <<[value |-> 0, name |-> "RED"], [value |-> 1, name |-> "BLUE"]>>)
Choice == Union("Choice", ByHash("color"),
                <<Branch("c", Plain("INT16"), {0}), Branch("s", Text, {1})>>)
Wide   == Union("Wide", Plain("INT64"),
                <<Branch("c", ByHash("inner"), {0}), Branch("i", Plain("INT32"), {1})>>)
Short  == Union("Short", Plain("INT32"),
                <<Branch("c", Plain("BYTE"), {0}), Branch("i", Plain("INT32"), {1})>>)
Open   == Union("Open", ByHash("color"),
                <<Branch("c", Plain("BYTE"), {0}), Branch("rest", Plain("INT32"), {})>>)

\* A struct before the one it refers to, an enumeration, unions that are printed right
\* or not, and an alias.
SmallLibrary ==
    <<[hash |-> "deep", object |-> Deep], [hash |-> "inner", object |-> Inner],
      [hash |-> "color", object |-> Color], [hash |-> "choice", object |-> Choice],
      [hash |-> "wide", object |-> Wide], [hash |-> "short", object |-> Short],
      [hash |-> "open", object |-> Open],
      [hash |-> "alias", object |-> Alias("Other", Plain("INT32"))]>>

\* Primitives of each width, texts, lists of several kinds, and all types of the library.
AllMembers ==
    {Plain("BYTE"), Plain("INT16"), Plain("INT32"), Plain("FLOAT64"), Text,
     ListOf(Plain("INT16")), ListOf(Text), ArrayOf(Plain("BYTE"), <<3>>),
     ArrayOf(ByHash("inner"), <<2, 1>>), ByHash("inner"), ByHash("deep"), ByHash("color"),
     ListOf(ByHash("inner")), ListOf(ByHash("color")), ListOf(ArrayOf(Plain("INT16"), <<2>>)),
     ByHash("choice"), ByHash("wide"), ArrayOf(ByHash("choice"), <<2>>),
     ByHash("short"), ByHash("open"), ByHash("alias")}

\* Unions as the repository's examples have them, and with an integer discriminator.
UnionMembers == {Plain("BYTE"), ByHash("choice"), ByHash("short")}

\* A list of unions; AdvancedFeatures.idl has a sequence of them.
UnionListMembers == {Plain("BYTE"), ArrayOf(ByHash("choice"), <<2>>)}

\* Main structs of two members.
MainsOf(members) == {Struct("Main", <<Member("a", t), Member("b", u)>>) : t, u \in members}
AllMains   == MainsOf(AllMembers)
UnionMains == MainsOf(UnionMembers)
UnionListMains == MainsOf(UnionListMembers)

\* The types of all members and elements.
AllTypes ==
    LET lists == {t \in AllMembers : IsList(t)}
    IN AllMembers \cup {ByHash("main"), ArrayOf(Plain("INT16"), <<2>>), Plain("INT64")}
         \cup {t.element : t \in lists}

\* One number of each width but the smallest; its bytes tell how it was read.
SmallNumbers ==
    [width \in {1, 2, 4, 8} |-> IF width = 1 THEN {<<1>>, <<2>>} ELSE {LittleEndian(width, 3)}]
SmallTexts == {<<>>, <<65>>}
=============================================================================
