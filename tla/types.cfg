\* All pairs of 21 member types: primitives of each width, texts, lists, arrays, structs,
\* an enumeration, unions and an alias.
SPECIFICATION Spec
CONSTANTS
    Library <- SmallLibrary
    Mains <- AllMains
    Types <- AllTypes
    Numbers <- SmallNumbers
    Texts <- SmallTexts
    Lengths = {0, 2}
    Defaults = {2}
    MaxDepth = 5
    MaxElements = 4
INVARIANTS
    PrintsWhatWasSent
    SchemaSaysTheType
