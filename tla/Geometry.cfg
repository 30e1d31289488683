CONSTANTS
    f1 = f1
    f2 = f2
    d1 = d1
    d2 = d2
    i1 = i1
    i2 = i2
    z = z
    Files = {f1, f2}
    Media = {d1, d2, i1, i2, z}
    Disks = {d1, d2}
    Zero = z
    Id <- Ids
    ExtentTrees <- DiskTrees
    FileTrees <- InodeTrees
    SizeRange = {4, 8}
    Wants = {2, 8}
    Gap = 4
    HeaderLen = 6
    Sector = 2
SPECIFICATION Spec
INVARIANTS TypeOK FilesReadBack BlockAligned TableContiguous GapsOnly
CHECK_DEADLOCK FALSE
