------------------------------ MODULE Geometry -------------------------------
(***************************************************************************)
(* How the file area of a volume is laid out (impl/device.cpp,             *)
(* impl/volume.cpp, impl/burner.cpp): the crawl charts the extents of      *)
(* every file on the media that hold them, the block size is adjusted to   *)
(* what the extents allow, the charts are merged, the merged ranges are    *)
(* appended to the planner, and the planner is committed to the burner as  *)
(* a device-mapper table or as a copy.                                     *)
(*                                                                         *)
(* An extent is [med, off, len].  A medium is the storage object itself;   *)
(* the maps of the code are keyed by Id[med].  Block sizes are powers of   *)
(* two, and the mask of the code is the set of the numbers or'ed into it:  *)
(* a bit not above the mask's lowest one divides all of them.              *)
(***************************************************************************)
EXTENDS Territory, SequencesExt, FiniteSetsExt

CONSTANTS
    Files,       \* the regular files of the source tree
    Media,       \* the storage objects their extents lie on
    Disks,       \* the media that are block devices (Medium::isAligned)
    Zero,        \* ZeroMedium, and the null medium of a ZeroExtent
    Id,          \* Medium::id()
    ExtentTrees, \* what ExtentIoc may answer: a sequence of extents per file
    FileTrees,   \* what NoLocator answers: each file is its own extent
    SizeRange,   \* the block sizes the filesystem allows (Volume::sizeRange)
    Wants,       \* the block sizes that may be asked for
    Gap,         \* Geometry::gap
    HeaderLen,   \* the bytes of metadata before the file area
    Sector       \* Blocks::MAPPER_BS

\* What a locator can answer; the extents of a mapped file are whole sectors of
\* a disk, or blanks of any length for what cannot be mapped.
Extents == [med : Media, off : Nat, len : Nat]

ASSUME GeometryAssumption ==
    /\ Disks \subseteq Media /\ Zero \in Media \ Disks /\ Id \in [Media -> Nat]
    /\ Gap \in Nat /\ HeaderLen \in Nat /\ Sector \in Nat \ {0}
    /\ SizeRange \subseteq Nat \ {0} /\ Wants \subseteq Nat
    /\ \A b \in SizeRange \cup Wants : b % Sector = 0
    /\ \A t \in ExtentTrees \cup FileTrees : t \in [Files -> Seq(Extents)]
    /\ \A t \in ExtentTrees : \A f \in Files : \A i \in DOMAIN t[f] :
          /\ t[f][i].med \in Disks \cup {Zero}
          /\ t[f][i].med \in Disks => t[f][i].off % Sector = 0 /\ t[f][i].len % Sector = 0
          /\ t[f][i].med = Zero => t[f][i].off = 0

VARIABLES
    stage,    \* "crawl", "adjusted", "optimized", "planned", "burnt" or "aborted"
    mapped,   \* MkfsConf::isTargetMapped
    tree,     \* what the locator answers in this behaviour
    layout,   \* Original::layout, for the files crawled so far
    dMap,     \* Geometry::dMap
    plan,     \* Geometry::plan
    mask,     \* Geometry::mask
    blkSz,    \* Volume::blockSize
    out,      \* Planner::_extlist of the output
    area,     \* Colonies::areaOffset
    cols,     \* Colonies::plan
    table     \* the device-mapper targets DiskBurner loads

config == <<mapped, tree>>

vars == <<stage, config, layout, dMap, plan, mask, blkSz, out, area, cols, table>>

Extent(med, off, len) == [med |-> med, off |-> off, len |-> len]

\* Planner::offset
Offset(list) ==
    LET upTo[i \in 0 .. Len(list)] == IF i = 0 THEN 0 ELSE upTo[i-1] + list[i].len
    IN  upTo[Len(list)]

\* Planner::append: an empty extent is not listed.
Appended(list, xt) == IF xt.len = 0 THEN list ELSE Append(list, xt)

\* IAppend::padTo
PadTo(list, blk) ==
    Appended(list, Extent(Zero, 0, (blk - (Offset(list) % blk)) % blk))
------------------------------------------------------------------------------
\* f with the value of k set to v, whether or not k is in its domain.
Put(f, k, v) == [x \in DOMAIN f \cup {k} |-> IF x = k THEN v ELSE f[x]]

\* Geometry::chart( const Extent & ): the first medium of an id stays.
Charted(geo, xt) ==
    LET id == Id[xt.med]
        terr == IF id \in DOMAIN geo.plan THEN geo.plan[id] ELSE <<>>
    IN  [dMap |-> IF id \in DOMAIN geo.dMap THEN geo.dMap
                  ELSE Put(geo.dMap, id, xt.med),
         plan |-> Put(geo.plan, id, Put(terr, xt.off, xt.off + xt.len))]

\* Geometry::chart( const ExtentList & ), one after the other.
ChartedUpTo(geo, list) ==
    LET upTo[i \in 0 .. Len(list)] == IF i = 0 THEN geo ELSE Charted(upTo[i-1], list[i])
    IN  upTo

\* Mutant of the definition below: the lengths are not or'ed in.
OffsetsOnly(list) == {list[i].off : i \in DOMAIN list}

\* What Geometry::chart( const ExtentList & ) adds to the mask: every offset,
\* and every length but the last one's.
MaskBits(list) ==
    {list[i].off : i \in DOMAIN list} \cup
    {list[i].len : i \in DOMAIN list \ {Len(list)}}

Init ==
    /\ stage = "crawl"
    /\ mapped \in BOOLEAN
    /\ tree \in IF mapped THEN ExtentTrees ELSE FileTrees
    /\ layout = <<>> /\ dMap = <<>> /\ plan = <<>> /\ mask = {}
    /\ blkSz = 0 /\ out = <<>> /\ area = 0 /\ cols = <<>> /\ table = <<>>

\* Original::onFileFd
OnFileFd(f) ==
    /\ stage = "crawl"
    /\ f \notin DOMAIN layout
    /\ layout' = Put(layout, f, tree[f])
    /\ LET geo == ChartedUpTo([dMap |-> dMap, plan |-> plan], tree[f])[Len(tree[f])]
       IN  dMap' = geo.dMap /\ plan' = geo.plan
    /\ mask' = mask \cup MaskBits(tree[f])
    /\ UNCHANGED <<stage, config, blkSz, out, area, cols, table>>
------------------------------------------------------------------------------
\* The bits of granularity() & sizeRange().
Allowed == {b \in SizeRange : \A m \in mask : m % b = 0}

\* Mutant of the definition below: the size that was asked for is used as it is.
WantOnly(want) == want

\* The choice of Volume::adjust among the allowed sizes.
Chosen(want) ==
    IF want \in Allowed THEN want
    ELSE IF \A b \in Allowed : b < want THEN Max(Allowed)
    ELSE Min(Allowed)

\* Volume::adjust
Adjust ==
    /\ stage = "crawl"
    /\ DOMAIN layout = Files
    /\ IF Allowed = {}
       THEN stage' = "aborted" /\ UNCHANGED blkSz
       ELSE stage' = "adjusted" /\ \E want \in Wants : blkSz' = Chosen(want)
    /\ UNCHANGED <<config, layout, dMap, plan, mask, out, area, cols, table>>

\* Mutant of the action below: media that are not disks are merged too, and
\* the gap is taken in blocks.
OptimizeBlocks ==
    /\ stage = "adjusted"
    /\ stage' = "optimized"
    /\ plan' = [id \in DOMAIN plan |-> MergeResult(plan[id], Gap * blkSz)]
    /\ out' = PadTo(<<Extent(Zero, 0, HeaderLen)>>, blkSz)
    /\ area' = Offset(out')
    /\ UNCHANGED <<config, layout, dMap, mask, blkSz, cols, table>>

\* Geometry::optimize, and the metadata that precedes the file area: the
\* planner is padded before writeFiles notes where the area starts.
OptimizeBehind(head) ==
    /\ stage = "adjusted"
    /\ stage' = "optimized"
    /\ plan' = [id \in DOMAIN plan |->
                   IF dMap[id] \in Disks THEN MergeResult(plan[id], Gap)
                   ELSE plan[id]]
    /\ out' = PadTo(head, blkSz)
    /\ area' = Offset(out')
    /\ UNCHANGED <<config, layout, dMap, mask, blkSz, cols, table>>

\* Where what precedes the file area is not told apart.
Optimize == OptimizeBehind(<<Extent(Zero, 0, HeaderLen)>>)

\* The ranges writeFiles has yet to append.
Written(id) == IF id \in DOMAIN cols THEN DOMAIN cols[id] ELSE {}
Pending == {p \in UNION {{id} \X DOMAIN plan[id] : id \in DOMAIN plan} :
               p[2] \notin Written(p[1])}

\* An iteration of the loops of Geometry::writeFiles, in the order of the maps.
WriteRange ==
    /\ stage = "optimized"
    /\ Pending # {}
    /\ LET id == Min({p[1] : p \in Pending})
           k == Min({p[2] : p \in {q \in Pending : q[1] = id}})
           terr == IF id \in DOMAIN cols THEN cols[id] ELSE <<>>
       IN  /\ cols' = Put(cols, id, Put(terr, k, Offset(out)))
           /\ out' = PadTo(Appended(out, Extent(dMap[id], k, plan[id][k] - k)), blkSz)
    /\ UNCHANGED <<stage, config, layout, dMap, plan, mask, blkSz, area, table>>

Planned ==
    /\ stage = "optimized"
    /\ Pending = {}
    /\ stage' = "planned"
    /\ UNCHANGED <<config, layout, dMap, plan, mask, blkSz, out, area, cols, table>>

\* Mutant of the definition below: the length is left in bytes.
TargetBytes(start, xt) ==
    [start |-> start \div Sector, len |-> xt.len,
     med |-> IF xt.med \in Disks THEN xt.med ELSE Zero, off |-> xt.off \div Sector]

\* DiskBurner::append: the target's place and size in whole sectors, linear
\* for a device that is mappable and zero for anything else.
Target(start, xt) ==
    [start |-> start \div Sector,
     len |-> xt.len \div Sector,
     med |-> IF xt.med \in Disks THEN xt.med ELSE Zero,
     off |-> IF xt.med \in Disks THEN xt.off \div Sector ELSE 0]

\* Planner::commit to a DiskBurner (isTargetMapped).
CommitMapped ==
    /\ mapped
    /\ stage = "planned"
    /\ stage' = "burnt"
    /\ table' = [i \in DOMAIN out |-> Target(Offset(SubSeq(out, 1, i - 1)), out[i])]
    /\ UNCHANGED <<config, layout, dMap, plan, mask, blkSz, out, area, cols>>

\* Planner::commit to a FileBurner (isTargetCopied): the extents are copied in
\* their order, and the image is what CopiedReads says of the list.
CommitCopied ==
    /\ ~mapped
    /\ stage = "planned"
    /\ stage' = "burnt"
    /\ UNCHANGED <<config, layout, dMap, plan, mask, blkSz, out, area, cols, table>>

Next ==
    \/ \E f \in Files : OnFileFd(f)
    \/ Adjust \/ Optimize \/ WriteRange \/ Planned
    \/ CommitMapped \/ CommitCopied

Spec == Init /\ [][Next]_vars
------------------------------------------------------------------------------
\* Mutant of the definition below: the first key above the extent is used.
NextKeyDisk(xt) ==
    LET src2trg == cols[Id[xt.med]]
        above == {k \in DOMAIN src2trg : k >= xt.off}
        bridge == IF above = {} THEN Max(DOMAIN src2trg) ELSE Min(above)
    IN  xt.off - bridge + src2trg[bridge]

\* Colonies::withinDisk
WithinDisk(xt) ==
    LET src2trg == cols[Id[xt.med]]
        bridge == CHOOSE k \in DOMAIN src2trg : IsLastKeyUpTo(src2trg, xt.off, k)
    IN  xt.off - bridge + src2trg[bridge]

\* Colonies::withinArea
WithinArea(xt) == WithinDisk(xt) - area

\* A byte of a medium, and a byte that reads as zero.
SourceByte(med, off) == IF med = Zero THEN <<Zero, 0>> ELSE <<med, off>>

\* A reader of the mapped device finds the byte at the offset.
MappedReads(x, byte) ==
    \E t \in ToSet(table) :
        /\ t.start * Sector =< x /\ x < (t.start + t.len) * Sector
        /\ byte = SourceByte(t.med, t.off * Sector + x - t.start * Sector)

\* So does a reader of the file the extents of the planner are copied to.
CopiedReads(x, byte) ==
    \E i \in DOMAIN out : LET start == Offset(SubSeq(out, 1, i - 1)) IN
        /\ start =< x /\ x < start + out[i].len
        /\ byte = SourceByte(out[i].med, out[i].off + x - start)

Reads(x, byte) == IF mapped THEN MappedReads(x, byte) ELSE CopiedReads(x, byte)

\* No part of a medium is in two extents, other than that both are one and the
\* same, and no two media have one id.
Undivided(extents) ==
    \A xt, yt \in extents : Id[xt.med] = Id[yt.med] =>
        \/ xt = yt
        \/ /\ xt.med = yt.med /\ xt.off # yt.off
           /\ xt.off + xt.len <= yt.off \/ yt.off + yt.len <= xt.off

\* The extents of the crawled files.
FileExtents == UNION {ToSet(layout[f]) : f \in DOMAIN layout}
------------------------------------------------------------------------------
\* The variables stay in their ranges: a medium is kept under its own id, a
\* chosen block size is one the filesystem allows, the output lists no empty
\* extent.
TypeOK ==
    /\ stage \in {"crawl", "adjusted", "optimized", "planned", "burnt", "aborted"}
    /\ tree \in IF mapped THEN ExtentTrees ELSE FileTrees
    /\ DOMAIN layout \subseteq Files
    /\ DOMAIN dMap = DOMAIN plan
    /\ \A id \in DOMAIN dMap : dMap[id] \in Media /\ Id[dMap[id]] = id
    /\ blkSz \in SizeRange \cup {0}
    /\ DOMAIN cols \subseteq DOMAIN plan
    /\ \A i \in DOMAIN out : out[i].med \in Media /\ out[i].len > 0

(***************************************************************************)
(* A byte of a file is where the filesystem's metadata will say it is: the *)
(* mapped device, or the copied image, reads from withinDisk of each       *)
(* extent on the bytes of that extent, through charting, merging,          *)
(* appending and burning.                                                  *)
(***************************************************************************)
FilesReadBack ==
    stage = "burnt" => \A xt \in FileExtents : \A i \in 0 .. xt.len - 1 :
        Reads(WithinDisk(xt) + i, SourceByte(xt.med, xt.off + i))

(***************************************************************************)
(* Every extent of a file starts on a block of the file area and, unless   *)
(* it is the last one of the file, fills whole blocks: what lets the       *)
(* metadata count extents in blocks or clusters.                           *)
(***************************************************************************)
BlockAligned ==
    stage \in {"planned", "burnt"} => \A f \in Files : \A i \in DOMAIN layout[f] :
        /\ WithinArea(layout[f][i]) % blkSz = 0
        /\ i < Len(layout[f]) => layout[f][i].len % blkSz = 0

(***************************************************************************)
(* The table is one the kernel accepts: every target has a sector, and     *)
(* starts where the one before it ends.                                    *)
(***************************************************************************)
TableContiguous ==
    \A i \in DOMAIN table :
        /\ table[i].len > 0
        /\ table[i].start = IF i = 1 THEN 0 ELSE table[i-1].start + table[i-1].len

(***************************************************************************)
(* A byte of a disk that no file has is exposed only in a gap: some        *)
(* charted extent before it ends at most Gap bytes before one after it.    *)
(***************************************************************************)
GapsOnly ==
    stage = "burnt" => \A t \in ToSet(table) : t.med \in {dMap[id] : id \in DOMAIN dMap} \ {Zero} =>
        \A b \in t.off * Sector .. (t.off + t.len) * Sector - 1 :
            \/ \E xt \in FileExtents :
                  xt.med = t.med /\ xt.off =< b /\ b < xt.off + xt.len
            \/ \E xt, yt \in FileExtents :
                  /\ xt.med = t.med /\ yt.med = t.med
                  /\ xt.off + xt.len =< b /\ b < yt.off
                  /\ yt.off =< xt.off + xt.len + Gap
==============================================================================
