CONSTANTS
    DescSize = 2
    OffSize = 1
    HeadSize = 12
    PointerSize = 1
    BitsPerByte = 1
    MaxRecords = 9
    Sizes = {15, 19}
    KeyLens = {1, 2}
    ValueLens = {1, 3, 7}
    Maps <- SmallMaps
SPECIFICATION TreeSpec
INVARIANTS NodesFit SiblingsLinked KeysFound NodesMapped
CHECK_DEADLOCK FALSE
