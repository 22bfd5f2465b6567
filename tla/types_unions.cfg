\* Unions with an enumeration and with an integer as their discriminator.
SPECIFICATION Spec
CONSTANTS
    Library <- SmallLibrary
    Mains <- UnionMains
    Types <- AllTypes
    Numbers <- SmallNumbers
    Texts <- SmallTexts
    Lengths = {0, 2}
    Defaults = {2}
    MaxDepth = 5
    MaxElements = 4
INVARIANT
    UnionsArePrinted
