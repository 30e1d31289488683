CONSTANTS
    f1 = f1
    f2 = f2
    f3 = f3
    d1 = d1
    d2 = d2
    i1 = i1
    i2 = i2
    i3 = i3
    z = z
    zram = zram
    root = root
    sub = sub
    Files = {f1, f2, f3}
    Media = {d1, d2, i1, i2, i3, z, zram}
    Disks = {d1, d2, zram}
    Zero = z
    Id <- Ids
    ExtentTrees <- Fragmented
    FileTrees <- Whole
    SizeRange = {4, 8}
    Wants = {2, 8}
    Gap = 4
    HeaderLen = 6
    Sector = 2
    Maps <- NoTrees
    DescSize = 2
    OffSize = 1
    HeadSize = 13
    PointerSize = 1
    BitsPerByte = 2
    PathTable <- Path
    Parent <- Parents
    Name <- Ranks
    NameLen <- RankLens
    Inodes <- Numbers
    CnidMod = 64
    Inline = 1
    Lens <- Sizes
    Capacity <- NodeSizes
    NodeLen <- NodeBytes
    TmpBlock = 4
    Tmp = zram
    TailLen = 4
    ChunkSize = 64
SPECIFICATION HfsSpec
INVARIANTS CatalogConsistent AllBlocksCounted AllocationWritten
PROPERTY Represents
CHECK_DEADLOCK FALSE
