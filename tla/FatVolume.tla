------------------------------ MODULE FatVolume ------------------------------
(***************************************************************************)
(* The FAT32 volume over the file area of Geometry (impl/vfat32.cpp): the  *)
(* size of the allocation table is estimated before the files are laid     *)
(* out, then each file's clusters are chained in it, then the directories  *)
(* are written, leaves first, and at last the clusters that remain are     *)
(* accounted for.                                                          *)
(*                                                                         *)
(* The table is a RuleMedium: links are its amendments, and a cluster      *)
(* without one has what fill computes, the next cluster or, in a scratch   *)
(* volume (fsview_temp, which copies), free.  What precedes the area, the  *)
(* table included, has Geometry's HeaderLen.  The directories are shown as *)
(* media of their own; they lie one after another in the zram device and   *)
(* so behind the files.                                                    *)
(***************************************************************************)
EXTENDS Geometry

CONSTANTS
    PathTable,     \* the directories, parents first; the root is the first
    Entries,       \* what each directory has in it
    Slots,         \* the slots of an entry in its directory, long name included
    MinClusters,   \* fewer clusters would not be a FAT32
    XtraRoom,      \* Volume::xtraRoom of a scratch volume
    LinkSize       \* CLUSTER_LINK_SIZE; the unit is the size of a slot

Dirs == ToSet(PathTable)

Root == Head(PathTable)

\* The tree of the directories: each is in one that comes before it in the
\* table, every file is in one, and a cluster holds several links.
ASSUME FatAssumption ==
    /\ Dirs \subseteq Disks /\ Entries \in [Dirs -> SUBSET (Files \cup Dirs)]
    /\ PathTable \in Seq(Dirs) /\ IsInjective(PathTable) /\ PathTable # <<>>
    /\ IsFiniteSet(Files) /\ Files \cap Dirs = {}
    /\ \A i \in DOMAIN PathTable : \A e \in Entries[PathTable[i]] \cap Dirs :
          \E j \in DOMAIN PathTable : i < j /\ e = PathTable[j]
    /\ \A e \in (Files \cup Dirs) \ {Root} : \E d \in Dirs : e \in Entries[d]
    /\ \A d, e \in Dirs : Entries[d] \cap Entries[e] \cap Dirs # {} => d = e
    /\ Slots \in [(Files \cup Dirs) \ {Root} -> Nat \ {0}]
    /\ {MinClusters, XtraRoom} \subseteq Nat /\ LinkSize \in Nat \ {0}
    /\ \A b \in SizeRange : LinkSize <= b

VARIABLES
    sparse,     \* VFatMedium::_favor_freespace: fsview_temp, not fsview_mkfs
    blkCount,   \* the clusters the table has room for
    links,      \* VFatMedium::amendments
    chained,    \* the files whose clusters are linked
    dirLayout,  \* the first cluster of each directory written so far
    start,      \* the first cluster noted in an entry, and of the root
    up,         \* the first cluster noted in ".."
    free        \* SummarySec: the next and the number of free clusters

fatVars == <<sparse, blkCount, links, chained, dirLayout, start, up, free>>
allVars == <<vars, fatVars>>

EndMark == -1
Unused == 0
Seeds == 2      \* SEEDCLS

RoundUp(n, size) == ((n + size - 1) \div size) * size
-----------------------------------------------------------------------------
\* VFatMedium: what a reader of the table finds for a cluster.
Link(c) ==
    IF c \in DOMAIN links THEN links[c]
    ELSE IF sparse THEN Unused ELSE c + 1

\* Mutant of the definition below: nothing terminates what leads here.
ShadowNot(t, first) == t

Shadow(t, first) ==
    IF first <= Seeds \/ first - 1 \in DOMAIN t THEN t ELSE Put(t, first - 1, EndMark)

SetLine(t, first, last) ==
    IF sparse
    THEN [c \in DOMAIN t \cup (first .. last - 1) |->
             IF c \in first .. last - 1 THEN c + 1 ELSE t[c]]
    ELSE Shadow(t, first)

SetNext(t, last, next) == Put(t, last, next)

\* The clusters of an extent of the area, after two steps back.
Clusters(off, len) ==
    [first |-> (off + Seeds * blkSz) \div blkSz,
     last  |-> (off + Seeds * blkSz + len - 1) \div blkSz]

\* The last of several lines to be chained ends at the mark.
Line(t, line, next) == SetNext(SetLine(t, line.first, line.last), line.last, next)

\* Mutant of the definition below: a line is linked to the end of the next one.
ChainToLast(t, lines) ==
    LET from[i \in 1 .. Len(lines) + 1] ==
            IF i > Len(lines) THEN t
            ELSE Line(from[i+1], lines[i],
                      IF i = Len(lines) THEN EndMark ELSE lines[i+1].last)
    IN  from[1]

\* The lines of one file, the last one first.
Chain(t, lines) ==
    LET from[i \in 1 .. Len(lines) + 1] ==
            IF i > Len(lines) THEN t
            ELSE Line(from[i+1], lines[i],
                      IF i = Len(lines) THEN EndMark ELSE lines[i+1].first)
    IN  from[1]

\* VFatMedium::setNext aborts outside the reserved area.
Reserved(lines) == \A i \in DOMAIN lines : lines[i].last < blkCount
-----------------------------------------------------------------------------
FatInit ==
    /\ Init
    /\ sparse \in IF mapped THEN {FALSE} ELSE BOOLEAN
    /\ blkCount = 0 /\ links = <<>> /\ chained = {}
    /\ dirLayout = <<>> /\ start = <<>> /\ up = <<>> /\ free = <<>>

\* Geometry::totalLength, "already rounded up".
TotalLength ==
    LET length == [r \in UNION {{id} \X DOMAIN plan[id] : id \in DOMAIN plan} |->
                      plan[r[1]][r[2]] - r[2]]
    IN  MapThenSumSet(LAMBDA r : length[r], DOMAIN length)

\* VFat32Out::clusterCount
ClusterCount ==
    LET entryCount == Cardinality(Files) + 4 * Cardinality(Dirs)
        extra == IF sparse THEN RoundUp(XtraRoom, blkSz) ELSE 0
        footprint == TotalLength + entryCount + blkSz * Cardinality(Dirs) + extra
    IN  Max({RoundUp(footprint, blkSz) \div blkSz + Seeds, MinClusters})

\* The head of VFat32Out::plan: the table is sized, its last cluster ends the
\* chain of what no file has.
ReserveFat ==
    /\ stage = "optimized" /\ blkCount = 0
    /\ blkCount' = RoundUp(ClusterCount, blkSz \div LinkSize)
    /\ links' = IF sparse THEN links ELSE SetNext(links, blkCount' - 1, EndMark)
    /\ UNCHANGED <<vars, sparse, chained, dirLayout, start, up, free>>

\* An iteration of the loop over Original::layout, whose keys are addresses.
ChainFile(f) ==
    /\ stage = "planned" /\ f \in Files \ chained
    /\ LET xl == layout[f]
           lines == [i \in DOMAIN xl |-> Clusters(WithinArea(xl[i]), xl[i].len)]
       IN  IF Reserved(lines)
           THEN links' = Chain(links, lines) /\ chained' = chained \cup {f} /\ UNCHANGED stage
           ELSE stage' = "aborted" /\ UNCHANGED <<links, chained>>
    /\ UNCHANGED <<config, layout, dMap, plan, mask, blkSz, out, area, cols, table>>
    /\ UNCHANGED <<sparse, blkCount, dirLayout, start, up, free>>

\* The slots of a directory: the label or the two dots, the entries, an end.
DirSlots(d) ==
    (IF d = Root THEN 1 ELSE 2) + MapThenSumSet(LAMBDA e : Slots[e], Entries[d]) + 1

\* What the entry of a file or of a directory in another one notes.
FirstCluster(e) ==
    IF e \in Dirs THEN dirLayout[e]
    ELSE IF layout[e] = <<>> THEN 0
    ELSE Clusters(WithinArea(layout[e][1]), 0).first

\* Mutant of the definition below: no parent catches up with its children.
DotsAlone(d, cluster) ==
    IF d = Root THEN up ELSE Put(up, d, cluster)

\* ".." is a copy of "." until the parent is written.
Dots(d, cluster) ==
    [e \in (DOMAIN up \cup {d}) \ {Root} |->
        IF e = d \/ e \in Entries[d] THEN cluster ELSE up[e]]

\* An iteration of the loop over the path table, leaves first.
WriteDir ==
    /\ stage = "planned" /\ chained = Files /\ DOMAIN dirLayout # Dirs
    /\ LET d == PathTable[Len(PathTable) - Cardinality(DOMAIN dirLayout)]
           len == RoundUp(DirSlots(d), blkSz)
           line == Clusters(Offset(out) - area, len)
       IN  IF Reserved(<<line>>)
           THEN /\ links' = Chain(links, <<line>>)
                /\ out' = Append(out, Extent(d, 0, len))
                /\ dirLayout' = Put(dirLayout, d, line.first)
                /\ start' = [e \in DOMAIN start \cup Entries[d] \cup ({d} \cap {Root}) |->
                                CASE e \in Entries[d] -> FirstCluster(e)
                                  [] e = d            -> line.first
                                  [] OTHER            -> start[e]]
                /\ up' = Dots(d, line.first)
                /\ UNCHANGED stage
           ELSE /\ stage' = "aborted"
                /\ UNCHANGED <<links, out, dirLayout, start, up>>
    /\ UNCHANGED <<config, layout, dMap, plan, mask, blkSz, area, cols, table>>
    /\ UNCHANGED <<sparse, blkCount, chained, free>>

\* Mutant of the action below: the two clusters stepped back are forgotten.
ClaimSeedless ==
    /\ stage = "planned" /\ DOMAIN dirLayout = Dirs /\ free = <<>>
    /\ LET endOffset == Offset(out) - area
           extraRoom == blkCount * blkSz - endOffset
       IN  /\ out' = Appended(out, Extent(Zero, 0, extraRoom))
           /\ free' = IF sparse THEN <<endOffset \div blkSz, extraRoom \div blkSz>>
                      ELSE <<blkCount - 1, 0>>
    /\ UNCHANGED <<stage, config, layout, dMap, plan, mask, blkSz, area, cols, table>>
    /\ UNCHANGED <<sparse, blkCount, links, chained, dirLayout, start, up>>

\* The rest of VFat32Out::plan: what the table has room for is claimed.  That it
\* is less than what is used (FAT underflow) is excluded by Reserved.
Claim ==
    /\ stage = "planned" /\ DOMAIN dirLayout = Dirs /\ free = <<>>
    /\ LET endOffset == Offset(out) - area
           extraRoom == blkCount * blkSz - endOffset
       IN  IF extraRoom >= 0
           THEN /\ out' = Appended(out, Extent(Zero, 0, extraRoom))
                /\ free' = IF sparse THEN <<endOffset \div blkSz + Seeds, extraRoom \div blkSz>>
                           ELSE <<blkCount - 1, 0>>
                /\ UNCHANGED stage
           ELSE stage' = "aborted" /\ UNCHANGED <<out, free>>
    /\ UNCHANGED <<config, layout, dMap, plan, mask, blkSz, area, cols, table>>
    /\ UNCHANGED <<sparse, blkCount, links, chained, dirLayout, start, up>>

\* The steps of Geometry: plan begins with the table, and what is committed is
\* all that plan has appended.
Layout ==
    \/ \E f \in Files : OnFileFd(f)
    \/ Adjust \/ Optimize
    \/ blkCount # 0 /\ (WriteRange \/ Planned)
    \/ free # <<>> /\ (CommitMapped \/ CommitCopied)

FatNext ==
    \/ Layout /\ UNCHANGED fatVars
    \/ ReserveFat \/ (\E f \in Files : ChainFile(f)) \/ WriteDir \/ Claim

FatSpec == FatInit /\ [][FatNext]_allVars
-----------------------------------------------------------------------------
\* A reader of the volume follows n links.
Walk(cluster, n) ==
    LET w[k \in 0 .. n] ==
            IF k = 0 THEN cluster ELSE IF w[k-1] = EndMark THEN EndMark ELSE Link(w[k-1])
    IN  w

\* Where the bytes of a cluster are.
Place(cluster) == area + (cluster - Seeds) * blkSz

\* The bytes a file has, and those that come before its extent.
FileSize(f) == Offset(layout[f])
BytesUpTo(f, i) == Offset(SubSeq(layout[f], 1, i - 1))

\* The clusters a file of that many bytes, or a directory, fills.
Filled(e) ==
    RoundUp(IF e \in Dirs THEN DirSlots(e) ELSE FileSize(e), blkSz) \div blkSz

\* The links between the clusters of each file and directory, and to its first.
Followed ==
    UNION {LET w == Walk(start[e], Filled(e)) IN {<<w[k], w[k+1]>> : k \in 0 .. Filled(e) - 1} :
              e \in Files \cup Dirs}

InUse == {p[1] : p \in Followed}

Volume == Seeds .. blkCount - 1
-----------------------------------------------------------------------------
\* The variables stay in their ranges: no link, amended by whatever means, is
\* outside the table.
FatTypeOK ==
    /\ TypeOK
    /\ sparse \in BOOLEAN /\ (sparse => ~mapped)
    /\ DOMAIN links \subseteq 0 .. blkCount - 1
    /\ \A c \in DOMAIN links : links[c] \in Volume \cup {EndMark}
    /\ chained \subseteq Files /\ DOMAIN dirLayout \subseteq Dirs
    /\ DOMAIN start \subseteq Files \cup Dirs /\ DOMAIN up \subseteq Dirs \ {Root}

(***************************************************************************)
(* A file is read back through the volume: from the cluster its entry      *)
(* notes, link after link, the device has the file's bytes in their order, *)
(* and the chain ends where the file does.                                 *)
(***************************************************************************)
ReadThrough ==
    stage = "burnt" => \A f \in Files :
        LET w == Walk(start[f], Filled(f)) IN
        FileSize(f) > 0 =>
            /\ w[Filled(f)] = EndMark
            /\ \A i \in DOMAIN layout[f] : \A b \in 0 .. layout[f][i].len - 1 :
                  LET xt == layout[f][i]
                      at == BytesUpTo(f, i) + b
                      c == w[at \div blkSz]
                  IN  c \in Volume /\ Reads(Place(c) + (at % blkSz), SourceByte(xt.med, xt.off + b))

(***************************************************************************)
(* No cluster of a file or directory is reached from anywhere else: the    *)
(* chains of gaps and of unused clusters end before them.                  *)
(***************************************************************************)
NoCrossLinks ==
    stage = "burnt" => \A c \in Volume :
        Link(c) \in InUse => <<c, Link(c)>> \in Followed

(***************************************************************************)
(* A directory is found from its parent, its chain is where its entries    *)
(* are, and its ".." leads back, though children are written first.        *)
(***************************************************************************)
DirectoriesLinked ==
    stage = "burnt" => \A d \in Dirs :
        /\ LET w == Walk(start[d], Filled(d))
               i == CHOOSE i \in DOMAIN out : out[i].med = d
           IN  /\ w[Filled(d)] = EndMark
               /\ \A k \in 0 .. Filled(d) - 1 :
                     Place(w[k]) = Offset(SubSeq(out, 1, i - 1)) + k * blkSz
        /\ \A e \in Entries[d] \cap Dirs : up[e] = start[d]

(***************************************************************************)
(* In a scratch volume the host finds free exactly the clusters from the   *)
(* noted one on, and no file or directory among them.                      *)
(***************************************************************************)
FreeSpace ==
    (stage = "burnt" /\ sparse) => \A c \in Volume :
        /\ (c < free[1]) <=> (c \in InUse)
        /\ (c < free[1]) <=> (Link(c) # Unused)

\* "Empty files with size 0 should have first cluster 0" (vfat32.cpp 305).
EmptyFirst == \A f \in Files \cap DOMAIN start : FileSize(f) = 0 => start[f] = 0

\* What clusterCount adds up is "already rounded up" (vfat32.cpp 248): a table
\* sized by it has room for every file and directory, and the volume is not
\* given up once it is reserved.
RoomEnough == stage = "aborted" => blkCount = 0
==============================================================================
