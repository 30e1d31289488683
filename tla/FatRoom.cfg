CONSTANTS
    f1 = f1
    f2 = f2
    d1 = d1
    d2 = d2
    i1 = i1
    i2 = i2
    z = z
    r = r
    s = s
    Files = {c1, c2, c3, c4, c5, c6, c7, c8}
    Media = {c1, c2, c3, c4, c5, c6, c7, c8, z, r}
    Disks = {r}
    Zero = z
    Id <- CrumbIds
    ExtentTrees <- NoTrees
    FileTrees <- CrumbTrees
    SizeRange = {4, 8}
    Wants = {2, 8}
    Gap = 4
    HeaderLen = 6
    Sector = 2
    PathTable <- CrumbPath
    Entries <- CrumbNames
    Slots <- CrumbSlots
    MinClusters = 4
    XtraRoom = 5
    LinkSize = 1
SPECIFICATION FatSpec
INVARIANTS RoomEnough
CHECK_DEADLOCK FALSE
