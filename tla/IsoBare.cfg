CONSTANTS
    f1 = f1
    f2 = f2
    f3 = f3
    d1 = d1
    d2 = d2
    i1 = i1
    i2 = i2
    i3 = i3
    z = z
    zram = zram
    root = root
    a = a
    b = b
    c = c
    Files = {f1, f2, f3}
    Media = {d1, d2, i1, i2, i3, z, zram}
    Disks = {d1, d2, zram}
    Zero = z
    Id <- Ids
    ExtentTrees <- Bare
    FileTrees <- NoTrees
    SizeRange = {4}
    Wants = {2}
    Gap = 4
    HeaderLen = 0
    Sector = 2
    Stop <- Dot
    Semi <- Semicolon
    Radix = 10
    SizeMod = 256
    BitsPerByte = 8
    PathTable <- Path
    Entries <- Listing
    TextSets <- Texting
    Rules <- VolumeRules
    Cap = 16
    SlaveLens = {0, 8, 24}
    PathCap = 8
    EntryHead = 1
    PathHead = 1
    TextUnit = 3
    LenMod = 256
    TmpBlock = 8
    Tmp = zram
SPECIFICATION IsoSpec
INVARIANTS ReadRight
CHECK_DEADLOCK FALSE
