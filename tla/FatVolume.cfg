CONSTANTS
    f1 = f1
    f2 = f2
    d1 = d1
    d2 = d2
    i1 = i1
    i2 = i2
    z = z
    r = r
    s = s
    Files = {f1, f2}
    Media = {d1, d2, i1, i2, z, r, s}
    Disks = {d1, d2, r, s}
    Zero = z
    Id <- VolumeIds
    ExtentTrees <- DiskTrees
    FileTrees <- InodeTrees
    SizeRange = {4, 8}
    Wants = {2, 8}
    Gap = 4
    HeaderLen = 6
    Sector = 2
    PathTable <- Path
    Entries <- Names
    Slots <- NameSlots
    MinClusters = 4
    XtraRoom = 5
    LinkSize = 1
SPECIFICATION FatSpec
INVARIANTS FilesReadBack BlockAligned ReadThrough NoCrossLinks DirectoriesLinked FreeSpace
CHECK_DEADLOCK FALSE
