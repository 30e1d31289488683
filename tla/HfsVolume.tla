------------------------------ MODULE HfsVolume ------------------------------
(***************************************************************************)
(* The HFS+ volume behind the file area of Geometry (impl/hfplus.cpp): the *)
(* catalog and the extent overflow map are collected, compacted into       *)
(* trees by TreeBuilder, written to the temporary storage and from there   *)
(* to the volume, then the allocation file, which has to count the blocks  *)
(* it takes itself, and at last the copy of the volume header.             *)
(*                                                                         *)
(* Geometry's HeaderLen is what precedes the file area.  The temporary     *)
(* storage is one medium.  A catalog key is the number of the parent and   *)
(* the rank of the name, 0 for the empty name of a thread.  The bytes of   *)
(* Geometry and those of the records are units of their own.               *)
(***************************************************************************)
EXTENDS VolumeReader, TreeBuilder, AllocationFile

CONSTANTS
    PathTable,   \* the directories, parents first
    Parent,      \* Entry::parent of all but the root
    Name,        \* Entry::decoded, the rank of the name after decompo
    NameLen,     \* the length of each name
    Inodes,      \* what stat may say of the inodes
    CnidMod,     \* the numbers a CNID has room for, 2^32
    Inline,      \* the descriptors in HFSPlusExtentRecord
    Lens,        \* the sizes of keys and records
    Capacity,    \* BTHeaderRec::nodeSize of both trees, in units of records
    NodeLen,     \* the same in bytes
    TmpBlock,    \* the block of the temporary storage, when mapped
    Tmp,         \* the temporary storage
    TailLen,     \* 0x400
    ChunkSize    \* of the allocation bitmap

Dirs == ToSet(PathTable)

Root == Head(PathTable)

Trees == {"catalog", "overflow"}

ASSUME HfsAssumption ==
    /\ Tmp \in Disks /\ Inline \in Nat \ {0} /\ TailLen \in Nat
    /\ TmpBlock \in Nat \ {0} /\ TmpBlock % Sector = 0 /\ ChunkSize \in Nat \ {0}
    /\ PathTable \in Seq(Dirs) \ {<<>>} /\ IsInjective(PathTable) /\ Files \cap Dirs = {}
    /\ \A i \in DOMAIN PathTable \ {1} : \E j \in 1 .. i - 1 : PathTable[j] = Parent[PathTable[i]]
    /\ \A e \in Files \cup Dirs : Name[e] # 0
    /\ Parent \in [(Files \cup Dirs) \ {Root} -> Dirs]
    /\ CnidMod \in Nat \ {0}
    /\ \A b \in SizeRange : TailLen <= b /\ b * BitsPerByte > 1
    /\ NodeLen \in [Trees -> Nat] /\ \A t \in Trees : NodeLen[t] % Sector = 0

VARIABLES
    ino,        \* stat.st_ino
    phase,      \* "files", "trees", "write", "bitmap", "runoff" or "commit"
    noted,      \* the entries in the catalog
    subFolders, \* the folders counted so far, by their parent
    catalog,    \* HFSPlusVolumeBuilder::catalog
    overflow,   \* HFSPlusVolumeBuilder::overflow
    finished,   \* the trees that are compacted
    tmpOff,     \* Planner::offset of the temporary storage
    place,      \* the extents in the volume header, and where the trees lie
    allocLen,   \* the length of the extent of the allocation bitmap
    blks,       \* its bits; in the end, totalBlocks
    chunk,      \* of the allocation bitmap
    bitmap,     \* the allocation bitmap as it is written
    image       \* what a reader of the finished volume has found

maps == <<noted, subFolders, catalog, overflow>>
bits == <<allocLen, blks, chunk, bitmap>>
given == <<ino, image>>
hfsVars == <<given, phase, maps, finished, tmpOff, place, bits>>
allVars == <<vars, treeVars, hfsVars>>

\* What a step after the file area leaves alone.
laid == <<config, layout, dMap, plan, mask, blkSz, area, cols, table>>

BlockCount(n) == RoundedUp(n, blkSz) \div blkSz

TmpSize == IF mapped THEN TmpBlock ELSE 1

Allocation == INSTANCE BitsMedium
    WITH Bitmaps <- {}, out <- bitmap,
         map <- [bits |-> blks, skip |-> TRUE, offset |-> 0, length |-> allocLen]

HfsInit ==
    /\ Init
    /\ ino \in Inodes
    /\ phase = "files"
    /\ noted = {} /\ subFolders = [d \in Dirs |-> 0] /\ catalog = <<>> /\ overflow = <<>>
    /\ data = <<>> /\ nodeSize = 0 /\ building = "built" /\ nodes = <<>> /\ next = <<>>
    /\ rest = <<>> /\ indices = <<>> /\ header = NoHeader /\ mapDone = 0
    /\ finished = <<>> /\ place = <<>>
    /\ tmpOff = RoundedUp(HeaderLen, TmpSize)
    /\ allocLen = 0 /\ blks = 0
    /\ chunk = [i \in 1 .. ChunkSize |-> "junk"] /\ bitmap = <<>>
    /\ image = <<>>
-----------------------------------------------------------------------------
RootParent == 1     \* kHFSRootParentID
RootFolder == 2     \* kHFSRootFolderID

\* HFSPlusVolumeBuilder::renum, of what is left of the inode number in a CNID.
Renum(e) ==
    LET cnid(x) == ino[x] % CnidMod
    IN  IF cnid(e) = cnid(Root) THEN RootFolder ELSE cnid(e)

ParentId(e) == IF e = Root THEN RootParent ELSE Renum(Parent[e])

\* std::map::insert leaves what is there.
Inserted(map, key, value) == IF key \in DOMAIN map THEN map ELSE Put(map, key, value)

\* Mutant of the definition below: the thread notes the node, not its parent.
OnEntrySelf(cat, e, rec) ==
    Inserted(Inserted(cat, <<ParentId(e), Name[e]>>, rec),
             <<rec.id, 0>>, [kind |-> "thread", id |-> rec.id, name |-> Name[e]])

\* HFSPlusVolumeBuilder::onEntry: the record, and the thread that leads back.
OnEntry(cat, e, rec) ==
    Inserted(Inserted(cat, <<ParentId(e), Name[e]>>, rec),
             <<rec.id, 0>>, [kind |-> "thread", id |-> ParentId(e), name |-> Name[e]])

Children(d) == {e \in DOMAIN Parent : Parent[e] = d}

\* An iteration over the path table, leaves first, of masterComplete.
OnFolder ==
    /\ stage = "planned" /\ phase = "files" /\ Dirs \ noted # {}
    /\ LET d == PathTable[Len(PathTable) - Cardinality(noted)]
       IN  /\ catalog' = OnEntry(catalog, d,
                             [kind |-> "folder", id |-> Renum(d),
                              valence |-> Cardinality(Children(d)), folders |-> subFolders[d]])
           /\ subFolders' = IF d = Root THEN subFolders ELSE [subFolders EXCEPT ![Parent[d]] = @ + 1]
           /\ noted' = noted \cup {d}
    /\ UNCHANGED <<vars, treeVars, given, phase, overflow, finished, tmpOff, place, bits>>

InlineKey == -1

\* Mutant of the definition below: contiguous extents are counted from the
\* start of the one before.
ForkExtentAgain(fork, xt) ==
    LET spill == fork.no = Inline
        key == IF spill THEN fork.blk ELSE fork.key
        no == IF spill THEN 0 ELSE fork.no
        recs == IF spill THEN Put(fork.recs, key, <<>>) ELSE fork.recs
        lba == WithinDisk(xt) \div blkSz
        count == BlockCount(xt.len)
        k == fork.last[1]
        i == fork.last[2]
    IN  IF fork.last # <<>> /\ recs[k][i].start + recs[k][i].count = lba
        THEN [fork EXCEPT !.key = key, !.no = no, !.blk = @ + count,
                          !.recs = [recs EXCEPT ![k][i].count = count]]
        ELSE [key |-> key, no |-> no + 1, blk |-> fork.blk + count, last |-> <<key, no + 1>>,
              recs |-> [recs EXCEPT ![key] = Append(@, [start |-> lba, count |-> count])]]

\* An iteration over the extents of a file.  recs are the records by the block
\* they start at, last is where pExt points.  The ninth extent opens a record
\* before it is known whether it continues the eighth.
ForkExtent(fork, xt) ==
    LET spill == fork.no = Inline
        key == IF spill THEN fork.blk ELSE fork.key
        no == IF spill THEN 0 ELSE fork.no
        recs == IF spill THEN Put(fork.recs, key, <<>>) ELSE fork.recs
        lba == WithinDisk(xt) \div blkSz
        count == BlockCount(xt.len)
        k == fork.last[1]
        i == fork.last[2]
    IN  IF fork.last # <<>> /\ recs[k][i].start + recs[k][i].count = lba
        THEN [fork EXCEPT !.key = key, !.no = no, !.blk = @ + count,
                          !.recs = [recs EXCEPT ![k][i].count = @ + count]]
        ELSE [key |-> key, no |-> no + 1, blk |-> fork.blk + count, last |-> <<key, no + 1>>,
              recs |-> [recs EXCEPT ![key] = Append(@, [start |-> lba, count |-> count])]]

NewFork == [key |-> InlineKey, no |-> 0, blk |-> 0, last |-> <<>>, recs |-> Put(<<>>, InlineKey, <<>>)]

Fork(f) == FoldLeft(ForkExtent, NewFork, layout[f])

\* onOverflow answers the record that is there: what is set replaces the
\* descriptors from the first on.
Overlaid(old, new) == new \o SubSeq(old, Len(new) + 1, Len(old))

Spilled(map, id, recs) ==
    LET key(b) == <<id, b>>
    IN  FoldSet(LAMBDA b, m :
                    Put(m, key(b), IF key(b) \in DOMAIN m THEN Overlaid(m[key(b)], recs[b]) ELSE recs[b]),
                map, DOMAIN recs \ {InlineKey})

\* An iteration over the file table.
OnFile(f) ==
    /\ stage = "planned" /\ phase = "files" /\ Dirs \subseteq noted /\ f \notin noted
    /\ LET fork == Fork(f)
           size == Len(Content(f))
       IN  /\ overflow' = Spilled(overflow, Renum(f), fork.recs)
           /\ catalog' = OnEntry(catalog, f,
                             [kind |-> "file", id |-> Renum(f), size |-> size,
                              blocks |-> fork.blk, extents |-> fork.recs[InlineKey]])
    /\ noted' = noted \cup {f}
    /\ UNCHANGED <<vars, treeVars, given, phase, subFolders, finished, tmpOff, place, bits>>
-----------------------------------------------------------------------------
NameSize(n) == IF n = 0 THEN 0 ELSE NameLen[n]

CatalogRecord(key) ==
    LET value == catalog[key]
    IN  [key |-> key, klen |-> Lens.key + NameSize(key[2]), value |-> value,
         vlen |-> CASE value.kind = "folder" -> Lens.folder
                    [] value.kind = "file"   -> Lens.file
                    [] value.kind = "thread" -> Lens.thread + NameSize(value.name)]

OverflowRecord(key) ==
    [key |-> key, klen |-> Lens.overKey, vlen |-> Lens.over, value |-> overflow[key]]

\* The records of a std::map in the order of their keys.
Sorted(map, Rec(_)) ==
    LET rank(key) == Cardinality({k \in DOMAIN map : KeyLess(k, key)})
    IN  [i \in 1 .. Cardinality(DOMAIN map) |-> Rec(CHOOSE k \in DOMAIN map : rank(k) = i - 1)]

\* HFSPlusVolumeBuilder::compactTrees
CompactCatalog ==
    /\ phase = "files" /\ noted = Files \cup Dirs
    /\ phase' = "trees"
    /\ BeginTree(Sorted(catalog, CatalogRecord), Capacity["catalog"])
    /\ UNCHANGED <<vars, given, maps, finished, tmpOff, place, bits>>

TreeStep ==
    /\ phase = "trees" /\ TreeNext
    /\ UNCHANGED <<vars, hfsVars>>

Built == [nodes |-> nodes, header |-> header]

CompactOverflow ==
    /\ phase = "trees" /\ building = "built" /\ finished = <<>>
    /\ finished' = Put(finished, "catalog", Built)
    /\ BeginTree(Sorted(overflow, OverflowRecord), Capacity["overflow"])
    /\ UNCHANGED <<vars, given, phase, maps, tmpOff, place, bits>>

TreesBuilt ==
    /\ phase = "trees" /\ building = "built" /\ finished # <<>>
    /\ finished' = Put(finished, "overflow", Built)
    /\ phase' = "write"
    /\ UNCHANGED <<vars, treeVars, given, maps, tmpOff, place, bits>>

\* An extent is appended to the temporary storage, wrapped, appended to the
\* volume and wrapped again (Planner::wrapToGo), and noted in a fork.
WrapToGo(t, len) ==
    LET wrapped == RoundedUp(tmpOff + len, TmpSize) - tmpOff
    IN  /\ tmpOff' = tmpOff + wrapped
        /\ out' = PadTo(Appended(out, Extent(Tmp, tmpOff, wrapped)), blkSz)
        /\ place' = Put(place, t, [start |-> Offset(out) \div blkSz,
                                   count |-> BlockCount(Offset(out') - Offset(out)),
                                   tmp |-> tmpOff, len |-> len])

\* TreeBuilder::wrapToGo, for the catalog and then for the overflow; a node
\* aborts when the temporary storage is not at a sector.
WriteTree(t) ==
    /\ phase = "write"
    /\ t = IF place = <<>> THEN "catalog" ELSE "overflow"
    /\ IF tmpOff % Sector # 0
       THEN stage' = "aborted" /\ UNCHANGED <<out, tmpOff, place, phase>>
       ELSE /\ WrapToGo(t, Len(finished[t].nodes) * NodeLen[t])
            /\ phase' = IF t = "catalog" THEN "write" ELSE "bitmap"
            /\ UNCHANGED stage
    /\ UNCHANGED <<laid, treeVars, given, maps, finished, bits>>

\* The allocation file is written before its bits are known for good.
WriteBitmap ==
    /\ phase = "bitmap"
    /\ phase' = "runoff"
    /\ blks' = Estimate(Offset(out), blkSz)
    /\ allocLen' = BitmapLen(blks', blkSz)
    /\ WrapToGo("allocation", allocLen')
    /\ UNCHANGED <<stage, laid, treeVars, given, maps, finished, chunk, bitmap>>

\* The rest of masterComplete: the volume ends with a copy of the header in its
\* last TailLen bytes, and the bitmap gets its final bits.  A bitmap larger than
\* estimated leaves less than nothing to append, which aborts.
RunOff ==
    /\ phase = "runoff"
    /\ LET coblock == Max({blkSz, TmpSize})
           curOff == RoundedUp(Offset(out), coblock)
           curb == curOff \div blkSz
           total == TotalBlocks(curb, blks, Max({1, coblock \div blkSz}))
           runOff == total * blkSz - curOff
       IN  IF runOff < TailLen
           THEN stage' = "aborted" /\ UNCHANGED <<out, blks, tmpOff, phase>>
           ELSE /\ out' = Appended(PadTo(out, coblock),
                                   Extent(Tmp, RoundedUp(tmpOff, coblock), RoundedUp(runOff, TmpSize)))
                /\ tmpOff' = RoundedUp(tmpOff, coblock) + RoundedUp(runOff, TmpSize)
                /\ blks' = total
                /\ phase' = "commit"
                /\ UNCHANGED stage
    /\ UNCHANGED <<laid, treeVars, given, maps, finished, place, allocLen, chunk, bitmap>>

\* tmpPlanner.commit(): the bitmap is written in chunks (RuleMedium).
WriteAllocation ==
    /\ phase = "commit" /\ stage = "planned"
    /\ UNCHANGED <<vars, treeVars, given, phase, maps, finished, tmpOff, place, allocLen, blks>>
    /\ Allocation!WriteChunk

\* The steps of Geometry: outPlanner.commit() comes last.
Layout ==
    \/ \E f \in Files : OnFileFd(f)
    \/ Adjust \/ Optimize \/ WriteRange \/ Planned
    \/ phase = "commit" /\ Len(bitmap) = allocLen /\ (CommitMapped \/ CommitCopied)

-----------------------------------------------------------------------------
(* A reader of HFS+ *)

InCatalog(key) == Find(finished["catalog"].nodes, finished["catalog"].header, key)

\* The folders on the way are looked up one by one.
FolderId(d) ==
    LET id[i \in DOMAIN PathTable] ==
            LET e == PathTable[i]
                p == IF e = Root THEN RootParent
                     ELSE id[CHOOSE j \in DOMAIN PathTable : PathTable[j] = Parent[e]]
                rec == InCatalog(<<p, Name[e]>>)
            IN  IF rec # <<>> /\ rec[1].kind = "folder" THEN rec[1].id ELSE 0
    IN  id[CHOOSE j \in DOMAIN PathTable : PathTable[j] = d]

\* The block at a position of a list of descriptors, or nothing.
BlockOf(extents, n) ==
    LET upTo(i) == FoldLeft(LAMBDA sum, x : sum + x.count, 0, SubSeq(extents, 1, i))
        holding == {i \in DOMAIN extents : upTo(i - 1) <= n /\ n < upTo(i)}
    IN  IF holding = {} THEN <<>>
        ELSE LET i == Min(holding) IN <<extents[i].start + n - upTo(i - 1)>>

\* A block the file record does not list is looked for in the overflow tree.
ForkBlock(file, n) ==
    LET first == BlockOf(file.extents, n)
        over == Search(finished["overflow"].nodes, finished["overflow"].header, <<file.id, n>>)
    IN  IF first # <<>> THEN first
        ELSE IF over = <<>> THEN <<>>
        ELSE IF over[1].key[1] # file.id \/ over[1].key[2] > n THEN <<>>
        ELSE BlockOf(over[1].value, n - over[1].key[2])

ReadFork(spans, file) ==
    [b \in 1 .. file.size |->
        LET block == ForkBlock(file, (b - 1) \div blkSz)
        IN  IF block = <<>> THEN <<Zero, -1>>
            ELSE ByteAt(spans, block[1] * blkSz + ((b - 1) % blkSz))]

ReadFile(spans, f) ==
    LET rec == InCatalog(<<FolderId(Parent[f]), Name[f]>>)
    IN  IF rec = <<>> THEN <<>>
        ELSE IF rec[1].kind # "file" THEN <<>>
        ELSE ReadFork(spans, rec[1])

\* The trees are in the volume where its header says.
TreesPlaced(spans) ==
    \A t \in Trees :
        HoldsAt(spans, place[t].start * blkSz, Tmp, place[t].tmp, place[t].len)

\* Every file is read.
ReadVolume ==
    /\ stage = "burnt" /\ image = <<>>
    /\ LET spans == Spans
       IN  image' = [f \in Files |-> IF TreesPlaced(spans) THEN ReadFile(spans, f) ELSE <<>>]
    /\ UNCHANGED <<vars, treeVars, ino, phase, maps, finished, tmpOff, place, bits>>
-----------------------------------------------------------------------------
HfsNext ==
    \/ Layout /\ UNCHANGED <<treeVars, hfsVars>>
    \/ OnFolder \/ (\E f \in Files : OnFile(f))
    \/ CompactCatalog \/ TreeStep \/ CompactOverflow \/ TreesBuilt
    \/ (\E t \in Trees : WriteTree(t)) \/ WriteBitmap \/ RunOff \/ WriteAllocation
    \/ ReadVolume

HfsSpec == HfsInit /\ [][HfsNext]_allVars
-----------------------------------------------------------------------------
Promise == INSTANCE Imaging WITH source <- Source

\* The volume is what Imaging promises: every file is read back through the
\* catalog and its extents, wherever the charting and the compacting put them.
Represents == Promise!Spec

\* The same of the state alone.
ReadRight == image \in {<<>>, Source}

(***************************************************************************)
(* The catalog agrees with itself: the thread of each node leads back to   *)
(* its one record, and each folder counts the records and the folders that *)
(* have its number for their parent.                                       *)
(***************************************************************************)
LeadsBack(key) ==
    LET thread == <<catalog[key].id, 0>>
    IN  /\ thread \in DOMAIN catalog
        /\ <<catalog[thread].id, catalog[thread].name>> = key

CountsRight(key) ==
    LET inside == {k \in DOMAIN catalog : k[1] = catalog[key].id /\ k[2] # 0}
    IN  /\ catalog[key].valence = Cardinality(inside)
        /\ catalog[key].folders = Cardinality({k \in inside : catalog[k].kind = "folder"})

CatalogConsistent ==
    noted = Files \cup Dirs => \A key \in DOMAIN catalog :
        /\ catalog[key].kind # "thread" => LeadsBack(key)
        /\ catalog[key].kind = "folder" => CountsRight(key)

(***************************************************************************)
(* The allocation file covers the volume it is a part of: it has a bit for *)
(* every block up to the end of the volume, its own and those of the copy  *)
(* of the header included, no bit of its extent is cut off, and what was   *)
(* estimated leaves room for the copy of the header.                       *)
(***************************************************************************)
AllBlocksCounted ==
    /\ ~(phase = "runoff" /\ stage = "aborted")
    /\ phase = "commit" =>
          /\ Offset(out) = blks * blkSz
          /\ blks <= allocLen * BitsPerByte
          /\ place["allocation"].count * blkSz >= allocLen

(***************************************************************************)
(* What is written for it has exactly these bits, as long as they end      *)
(* before its extent and the chunk do: a chunk that would be all ones is   *)
(* not filled (BitsAllocation.cfg).                                        *)
(***************************************************************************)
AllocationWritten ==
    blks \div BitsPerByte < Min({allocLen, ChunkSize}) => Allocation!Ones
==============================================================================
