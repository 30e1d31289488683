------------------------------ MODULE IsoVolume ------------------------------
(***************************************************************************)
(* The CD9660 volume around the file area of Geometry (impl/cd9660.cpp):   *)
(* the area reserved for a slave, the volume descriptors, and after the    *)
(* files the directories and the path tables of each of the volumes, the   *)
(* primary one and Joliet.  Directories are written leaves first and know  *)
(* neither their own length nor their parent, both of which are filled in  *)
(* when they have a place; the descriptors are filled in last.             *)
(*                                                                         *)
(* The temporary storage is one medium, whose contents are the variables   *)
(* burners, tables and burnt, by their offsets.                            *)
(***************************************************************************)
EXTENDS VolumeReader, NamePool, BitCounts

CONSTANTS
    PathTable,  \* the directories, parents first
    Entries,    \* PathEntry::entries, in the order of the crawl
    TextSets,   \* the names the entries may have
    Rules,      \* CD9660Out::_volumes, each by its INameRule
    Cap,        \* 0x8000, reserved for the slave
    SlaveLens,  \* what the slave may write there
    PathCap,    \* PATHTB_SZ
    EntryHead,  \* a directory entry but for its name
    PathHead,   \* a path table entry but for its name
    TextUnit,   \* the characters in a unit of either
    LenMod,     \* DirectoryEntry::length counts modulo this
    TmpBlock,   \* the block of the temporary storage, when mapped
    Tmp         \* the temporary storage

Dirs == ToSet(PathTable)

Root == Head(PathTable)

Volumes == DOMAIN Rules

ASSUME IsoAssumption ==
    /\ Tmp \in Disks /\ TmpBlock \in Nat \ {0} /\ TmpBlock % Sector = 0
    /\ EntryHead \in Nat \ {0} /\ PathHead \in Nat /\ TextUnit \in Nat \ {0}
    /\ LenMod \in Nat \ {0}
    /\ PathTable \in Seq(Dirs) \ {<<>>} /\ IsInjective(PathTable)
    /\ Entries \in [Dirs -> Seq((Files \cup Dirs) \ {Root})] /\ Files \cap Dirs = {}
    /\ \A i \in 2 .. Len(PathTable) : \E j \in 1 .. i - 1 :
          PathTable[i] \in ToSet(Entries[PathTable[j]])
    /\ \A d, e \in Dirs : d # e => ToSet(Entries[d]) \cap ToSet(Entries[e]) \cap Dirs = {}
    /\ Rules \in Seq(ToSet(Rules)) \ {<<>>}
    /\ Cap \in Nat /\ PathCap \in Nat
    /\ \A v \in Volumes : IsRule(Rules[v]) /\ Rules[v].version # <<>>
    /\ \A texts \in TextSets : \A v \in Volumes : \A e \in DOMAIN texts : IsText(texts[e], Rules[v])
    /\ \A texts \in TextSets : DOMAIN texts = Files \cup Dirs
    /\ \A n \in SlaveLens : n \in Nat /\ n % TmpBlock = 0
    /\ \A b \in SizeRange : Cap % b = 0
    /\ \A texts \in TextSets : \A d \in Dirs : \A i, j \in DOMAIN Entries[d] :
          texts[Entries[d][i]] = texts[Entries[d][j]] => i = j

VARIABLES
    decoded,  \* Entry::decoded
    hdrOff,   \* where the descriptors are in the temporary storage
    inner,    \* innerOff of plan
    tmpOff,   \* Planner::offset of the temporary storage
    vol,      \* the volume that is planned; one more than the last when done
    dirNo,    \* how many of its directories are written
    folders,  \* fsFolders: extents and names
    pTab,     \* the directories by level, parent and name
    itd,      \* the key in pTab of the last directory visited
    rows,     \* ptLsb and ptMsb
    burners,  \* the directories written, by volume
    names,    \* the names their entries were fitted to
    tables,   \* the path tables written, by volume
    heads,    \* the descriptors in memory, by volume
    burnt,    \* the same in the temporary storage
    image     \* what a reader of the finished volume has found

tmpVars == <<hdrOff, inner, tmpOff>>
dirVars == <<dirNo, folders, burners, names>>
tabVars == <<pTab, itd, rows, tables>>
isoVars == <<decoded, tmpVars, vol, dirVars, tabVars, heads, burnt, image>>
allVars == <<vars, poolVars, isoVars>>

\* What a step after the file area leaves alone.
laid == <<stage, config, layout, dMap, plan, mask, blkSz, area, cols, table>>

TmpSize == IF mapped THEN TmpBlock ELSE 1

NoHead == [root |-> 0, rootLen |-> 0, tabLen |-> 0, lsb |-> 0, msb |-> 0, blocks |-> 0]

IsoInit ==
    /\ Init /\ PoolInit
    /\ decoded \in TextSets
    /\ hdrOff = 0 /\ inner = 0 /\ tmpOff = 0
    /\ vol = 1 /\ dirNo = 0 /\ folders = <<>> /\ burners = <<>> /\ names = <<>>
    /\ pTab = <<>> /\ itd = <<>> /\ rows = <<>> /\ tables = <<>>
    /\ heads = [v \in Volumes |-> NoHead] /\ burnt = <<>> /\ image = <<>>
-----------------------------------------------------------------------------
\* Volume::planReserved and planHeaders, after what Geometry does: the slave
\* must not need more than it may, and the descriptors follow at Cap.
PlanHead(slave) ==
    LET start == RoundedUp(slave, TmpSize)
        end == RoundedUp(start + (Len(Rules) + 1) * blkSz, TmpSize)
        reserved == Appended(Appended(<<>>, Extent(Tmp, 0, slave)), Extent(Zero, 0, Cap - slave))
    IN  /\ slave <= Cap
        /\ OptimizeBehind(Appended(reserved, Extent(Tmp, start, end - start)))
        /\ hdrOff' = start /\ inner' = end /\ tmpOff' = end
        /\ UNCHANGED <<poolVars, decoded, vol, dirVars, tabVars, heads, burnt, image>>

BreachOfTrust(slave) ==
    /\ stage = "adjusted" /\ slave > Cap
    /\ stage' = "aborted"
    /\ UNCHANGED <<config, layout, dMap, plan, mask, blkSz, out, area, cols, table, poolVars, isoVars>>
-----------------------------------------------------------------------------
Planning == stage = "planned" /\ vol \in Volumes

\* The directory that is written, leaves first.
Current == PathTable[Len(PathTable) - dirNo]

NameOf(e) == [text |-> decoded[e], file |-> e \in Files]

\* The loop over the entries: each is fitted a name in the pool.
FitEntry ==
    /\ Planning /\ dirNo < Len(PathTable)
    /\ \E i \in DOMAIN Entries[Current] :
          /\ Cardinality(DOMAIN fit) = i - 1
          /\ FitName(NameOf(Entries[Current][i]), Rules[vol])
    /\ UNCHANGED <<vars, isoVars>>

SeqLess(a, b) ==
    \/ IsStrictPrefix(a, b)
    \/ \E i \in DOMAIN a \cap DOMAIN b :
          a[i] < b[i] /\ \A j \in 1 .. i - 1 : a[j] = b[j]

\* A segment without the separator in front of it, which the first one lacks.
Segment(name, i) ==
    IF i \notin DOMAIN name THEN <<>> ELSE IF i = 1 THEN name[1] ELSE Tail(name[i])

\* Unicomp::cmp
NameLess(a, b) ==
    \E i \in DOMAIN a \cup DOMAIN b :
        /\ SeqLess(Segment(a, i), Segment(b, i))
        /\ \A j \in 1 .. i - 1 : Segment(a, j) = Segment(b, j)

\* The elements of a set in the order of Less.
InOrder(S, Less(_, _)) ==
    LET rank(x) == Cardinality({y \in S : Less(y, x)})
    IN  [i \in 1 .. Cardinality(S) |-> CHOOSE x \in S : rank(x) = i - 1]

\* entries of plan: of names that are alike the last one stays.
EntryOf(name) ==
    LET list == Entries[Current]
        alike == {i \in DOMAIN list : fit[NameOf(list[i])] = name}
    IN  list[Max(alike)]

EntrySize(name) == EntryHead + (Len(Conv(name)) \div TextUnit)

Place(off, len) == [lba |-> off \div blkSz, len |-> len]

\* Mutant of the definition below: an entry goes on in the next block.
WriteEntryOver(dir, rec) ==
    [size |-> dir.size + EntrySize(rec.name), recs |-> Append(dir.recs, Put(rec, "at", dir.size))]

\* writeEntry of plan: no entry crosses the end of a block.
WriteEntry(dir, rec) ==
    LET pad == RoundedUp(dir.size, blkSz) - dir.size
        at == IF EntrySize(rec.name) > pad THEN dir.size + pad ELSE dir.size
    IN  [size |-> at + EntrySize(rec.name), recs |-> Append(dir.recs, Put(rec, "at", at))]

\* The entries of a directory, behind "." and "..".
WriteEntries(recs) ==
    LET upTo[i \in 0 .. Len(recs)] ==
            IF i = 0 THEN [size |-> 2 * EntryHead, recs |-> <<>>] ELSE WriteEntry(upTo[i-1], recs[i])
    IN  upTo[Len(recs)]

\* An entry for each extent of a file, all but the last one to be continued.  The
\* length is narrowed to the 32 bits that it has in an entry.
FileRecords(f, name) ==
    LET list == layout[f]
        left(i) == Len(Content(f)) - Offset(SubSeq(list, 1, i - 1))
    IN  [i \in DOMAIN list |->
            [name |-> name, kind |-> "file", lba |-> WithinDisk(list[i]) \div blkSz,
             len |-> Min({left(i), list[i].len}) % LenMod, more |-> left(i) > list[i].len]]

Records(e, name) ==
    IF e \in Files THEN FileRecords(e, name)
    ELSE <<[name |-> name, kind |-> "folder", lba |-> folders[e].off \div blkSz,
            len |-> folders[e].len, more |-> FALSE]>>

ParentOf(d) ==
    IF d = Root THEN Root ELSE CHOOSE p \in Dirs : d \in ToSet(Entries[p])

\* Mutant of the definition below: the root is not among its own children.
SettleBelow(list, v, d, own) ==
    [k \in DOMAIN list |->
        IF k[1] = v /\ k[2] # d /\ ParentOf(k[2]) = d THEN [list[k] EXCEPT !.up = own] ELSE list[k]]

\* parents of plan: ".." of the directories below, the root's included, is
\* filled in where they are in memory.
Settle(list, v, d, own) ==
    [k \in DOMAIN list |->
        IF k[1] = v /\ ParentOf(k[2]) = d THEN [list[k] EXCEPT !.up = own] ELSE list[k]]

\* An iteration over the path table: a directory is written and placed.
WriteDir ==
    /\ Planning /\ dirNo < Len(PathTable)
    /\ Cardinality(DOMAIN fit) = Len(Entries[Current])
    /\ LET d == Current
           off == tmpOff + Offset(out) - inner
           used == {fit[n] : n \in DOMAIN fit}
           recs == FlattenSeq([i \in DOMAIN InOrder(used, NameLess) |->
                       LET name == InOrder(used, NameLess)[i] IN Records(EntryOf(name), name)])
           dir == WriteEntries(recs)
           len == RoundedUp(dir.size, blkSz)
           named == {EntryOf(name) : name \in used} \cap Dirs
       IN  /\ burners' = Settle(Put(burners, <<vol, d>>,
                             [tmp |-> tmpOff, dot |-> Place(off, len), up |-> Place(off, 0),
                              recs |-> dir.recs]),
                             vol, d, Place(off, len))
           /\ folders' = [e \in DOMAIN folders \cup {d} |->
                             IF e = d THEN [off |-> off, len |-> len, name |-> <<>>]
                             ELSE IF e \in named THEN [folders[e] EXCEPT !.name = fit[NameOf(e)]]
                             ELSE folders[e]]
           /\ names' = [k \in DOMAIN names \cup ({vol} \X ToSet(Entries[d])) |->
                           IF k \in DOMAIN names THEN names[k] ELSE fit[NameOf(k[2])]]
           /\ tmpOff' = tmpOff + len
    /\ dirNo' = dirNo + 1
    /\ NewPool
    /\ UNCHANGED <<vars, decoded, hdrOff, inner, vol, tabVars, heads, burnt, image>>
-----------------------------------------------------------------------------
\* The name the root has in the path table.
RootName == <<<<0>>>>

\* The keys of pTab: the level, the number of the parent, the name.
PathLess(a, b) ==
    \/ a[1] < b[1]
    \/ a[1] = b[1] /\ a[2] < b[2]
    \/ a[1] = b[1] /\ a[2] = b[2] /\ SeqLess(a[3], b[3])

Unvisited == {k \in DOMAIN pTab : itd = <<>> \/ PathLess(itd, k)}

\* The root of the path table.
OpenTable ==
    /\ Planning /\ dirNo = Len(PathTable) /\ pTab = <<>>
    /\ pTab' = Put(pTab, <<1, 1, <<>>>>, Root)
    /\ folders' = [folders EXCEPT ![Root].name = RootName]
    /\ UNCHANGED <<vars, poolVars, decoded, tmpVars, vol, dirNo, burners, names, itd, rows, tables,
                   heads, burnt, image>>

\* The key of a directory at a level, below the directory of a number.
KeyOf(level, daddy, e) == <<level, daddy, Segment(folders[e].name, 1)>>

\* The directories below d are filed; of those with one key the last one stays.
Filed(d, level, daddy) ==
    LET list == Entries[d]
        below(k) == {i \in DOMAIN list : list[i] \in Dirs /\ KeyOf(level, daddy, list[i]) = k}
        keys == {KeyOf(level, daddy, e) : e \in ToSet(list) \cap Dirs}
    IN  [k \in DOMAIN pTab \cup keys |-> IF k \in keys THEN list[Max(below(k))] ELSE pTab[k]]

\* The directory that is listed next, and its row.
NextKey == CHOOSE k \in Unvisited : \A l \in Unvisited : ~PathLess(l, k)

RowOf(k) ==
    LET place == folders[pTab[k]]
    IN  [name |-> place.name, lba |-> place.off \div blkSz, parent |-> k[2]]

\* Mutant of the action below: the directories below are filed under the number
\* of the parent.
VisitDirUnder ==
    /\ Planning /\ Unvisited # {} /\ Len(rows) + 1 < PathCap
    /\ rows' = Append(rows, RowOf(NextKey))
    /\ pTab' = Filed(pTab[NextKey], NextKey[1] + 1, NextKey[2])
    /\ itd' = NextKey
    /\ UNCHANGED <<vars, poolVars, decoded, tmpVars, vol, dirVars, tables, heads, burnt, image>>

\* An iteration of the loop over pTab, which grows while it is traversed.
VisitDir ==
    /\ Planning /\ Unvisited # {} /\ Len(rows) + 1 < PathCap
    /\ rows' = Append(rows, RowOf(NextKey))
    /\ pTab' = Filed(pTab[NextKey], NextKey[1] + 1, Len(rows) + 1)
    /\ itd' = NextKey
    /\ UNCHANGED <<vars, poolVars, decoded, tmpVars, vol, dirVars, tables, heads, burnt, image>>

\* The bytes of a path table.
TableSize(list) ==
    LET upTo[i \in 0 .. Len(list)] ==
            IF i = 0 THEN 0 ELSE upTo[i-1] + PathHead + (Len(Conv(list[i].name)) \div TextUnit)
    IN  upTo[Len(list)]

\* Both path tables are appended, and the descriptor is filled in.
WriteTables ==
    /\ Planning /\ pTab # <<>>
    /\ Unvisited = {} \/ Len(rows) + 1 >= PathCap
    /\ LET size == TableSize(rows)
           msb == tmpOff + RoundedUp(size, blkSz)
           toOut == Offset(out) - inner
       IN  /\ tables' = Put(tables, vol, [lsb |-> tmpOff, msb |-> msb, rows |-> rows])
           /\ heads' = [heads EXCEPT ![vol] =
                           [root |-> folders[Root].off \div blkSz, rootLen |-> folders[Root].len,
                            tabLen |-> size, lsb |-> (tmpOff + toOut) \div blkSz,
                            msb |-> (msb + toOut) \div blkSz, blocks |-> 0]]
           /\ tmpOff' = msb + RoundedUp(size, blkSz)
    /\ vol' = vol + 1 /\ dirNo' = 0
    /\ folders' = <<>> /\ pTab' = <<>> /\ itd' = <<>> /\ rows' = <<>>
    /\ UNCHANGED <<vars, poolVars, decoded, hdrOff, inner, burners, names, burnt, image>>

Complete == heads[1].blocks # 0

\* The end of plan: the metadata is appended to the volume, and counted.
PlanMeta ==
    /\ stage = "planned" /\ vol \notin Volumes /\ ~Complete
    /\ LET end == RoundedUp(tmpOff, TmpSize)
       IN  /\ out' = PadTo(Appended(out, Extent(Tmp, inner, end - inner)), blkSz)
           /\ tmpOff' = end
    /\ heads' = [v \in Volumes |-> [heads[v] EXCEPT !.blocks = Offset(out') \div blkSz]]
    /\ UNCHANGED <<laid, poolVars, decoded, hdrOff, inner, vol, dirVars, tabVars, burnt, image>>

\* tmpPlanner.commit(): what the descriptors have by now is written.
CommitTmp ==
    /\ stage = "planned" /\ Complete /\ burnt = <<>>
    /\ burnt' = heads
    /\ UNCHANGED <<vars, poolVars, decoded, tmpVars, vol, dirVars, tabVars, heads, image>>

\* The steps of Geometry: outPlanner.commit() comes last.
Layout ==
    \/ \E f \in Files : OnFileFd(f)
    \/ Adjust \/ WriteRange \/ Planned
    \/ burnt # <<>> /\ (CommitMapped \/ CommitCopied)
-----------------------------------------------------------------------------
(* A reader of CD9660 *)

\* The extent is in the volume, and has in it what is at an offset of the
\* temporary storage.
Holds(spans, v, place, tmp) ==
    /\ place.lba * blkSz + place.len <= burnt[v].blocks * blkSz
    /\ HoldsAt(spans, place.lba * blkSz, Tmp, tmp, place.len)

\* The entries of the directory at a place, up to one that crosses the end of a
\* block or of the directory, which is not understood.
EntriesAt(spans, v, place) ==
    LET there == {k \in DOMAIN burners : k[1] = v /\ Holds(spans, v, place, burners[k].tmp)}
        recs == burners[CHOOSE k \in there : TRUE].recs
        cut == SelectInSeq(recs, LAMBDA rec : \/ (rec.at % blkSz) + EntrySize(rec.name) > blkSz
                                              \/ rec.at + EntrySize(rec.name) > place.len)
    IN  IF there = {} \/ place.len = 0 THEN <<>>
        ELSE IF cut = 0 THEN recs ELSE SubSeq(recs, 1, cut - 1)

\* Where the first entry with a name is, if there is one: on disk a name is one
\* text, wherever it was cut.
Named(entries, name, kind) ==
    SelectInSeq(entries, LAMBDA rec : Conv(rec.name) = Conv(name) /\ rec.kind = kind)

\* The place of a directory, from the root down.
PlaceOf(spans, v, d) ==
    LET number(e) == CHOOSE i \in DOMAIN PathTable : PathTable[i] = e
        place[i \in DOMAIN PathTable] ==
            IF i = 1 THEN [lba |-> burnt[v].root, len |-> burnt[v].rootLen]
            ELSE LET e == PathTable[i]
                     entries == EntriesAt(spans, v, place[number(ParentOf(e))])
                     found == Named(entries, names[<<v, e>>], "folder")
                 IN  IF found = 0 THEN [lba |-> 0, len |-> 0]
                     ELSE [lba |-> entries[found].lba, len |-> entries[found].len]
    IN  place[number(d)]

Nothing == <<<<Zero, -1>>>>

\* The extents of a file, from the first entry with its name to one that is not
\* continued.
ReadFile(spans, v, f) ==
    LET dir == CHOOSE d \in Dirs : f \in ToSet(Entries[d])
        entries == EntriesAt(spans, v, PlaceOf(spans, v, dir))
        first == Named(entries, names[<<v, f>>], "file")
        ends == {i \in first .. Len(entries) : ~entries[i].more}
        bytes(rec) == [b \in 1 .. rec.len |-> ByteAt(spans, rec.lba * blkSz + b - 1)]
    IN  IF first = 0 \/ ends = {} THEN Nothing
        ELSE FlattenSeq([i \in 1 .. Min(ends) + 1 - first |-> bytes(entries[first + i - 1])])

\* The descriptors are where a reader looks for them, the path tables where
\* these say.
HeadsPlaced(spans) ==
    /\ HoldsAt(spans, Cap, Tmp, hdrOff, (Len(Rules) + 1) * blkSz)
    /\ \A v \in Volumes :
          /\ Holds(spans, v, [lba |-> burnt[v].lsb, len |-> burnt[v].tabLen], tables[v].lsb)
          /\ Holds(spans, v, [lba |-> burnt[v].msb, len |-> burnt[v].tabLen], tables[v].msb)

\* Every file is read, in every volume.
ReadVolume ==
    /\ stage = "burnt" /\ image = <<>>
    /\ LET spans == Spans
       IN  image' = [v \in Volumes |-> [f \in Files |->
                        IF HeadsPlaced(spans) THEN ReadFile(spans, v, f) ELSE Nothing]]
    /\ UNCHANGED <<vars, poolVars, decoded, tmpVars, vol, dirVars, tabVars, heads, burnt>>
-----------------------------------------------------------------------------
IsoNext ==
    \/ Layout /\ UNCHANGED <<poolVars, isoVars>>
    \/ \E slave \in SlaveLens : PlanHead(slave) \/ BreachOfTrust(slave)
    \/ FitEntry \/ WriteDir
    \/ OpenTable \/ VisitDir \/ WriteTables
    \/ PlanMeta \/ CommitTmp \/ ReadVolume

IsoSpec == IsoInit /\ [][IsoNext]_allVars
-----------------------------------------------------------------------------
\* A file can be told by its name: nothing else in a directory of it is written
\* with that name.
Told(v, f) ==
    \A d \in Dirs : f \in ToSet(Entries[d]) =>
        \A e \in ToSet(Entries[d]) \ {f} : Conv(names[<<v, e>>]) # Conv(names[<<v, f>>])

\* What a reader has of the files that can be told.
Seen ==
    IF image = <<>> THEN <<>>
    ELSE [v \in Volumes |-> [f \in Files |-> IF Told(v, f) THEN image[v][f] ELSE Content(f)]]

Promise == INSTANCE Imaging WITH source <- [v \in Volumes |-> Source], image <- Seen

\* The volume is what Imaging promises: every file whose name is not that of
\* another one is read back in each of its trees, through descriptors and
\* directories that were placed before they were complete, wherever the charting
\* put its extents.
Represents == Promise!Spec

\* The same of the state alone.
ReadRight == Seen \in {<<>>, [v \in Volumes |-> Source]}

\* A short enough extension stays one: the correlated part of a name is what is
\* before its last dot, as the comment at the head of unique.h says.
ExtensionsKept ==
    \A n \in DOMAIN fit :
        /\ Correlated(n) # n.text
        /\ Len(n.text) - Len(Correlated(n)) <= Rules[vol].ext + 1
        => Len(fit[n]) = 3

(***************************************************************************)
(* Each directory has its own place in "." and that of the directory above *)
(* in "..", the root its own: both are filled in after the entry is        *)
(* written, and the parent is written last.                                *)
(***************************************************************************)
DotsRight ==
    \A k \in DOMAIN burners : LET up == <<k[1], ParentOf(k[2])>> IN
        up \in DOMAIN burners => burners[k].up = burners[up].dot

(***************************************************************************)
(* The path table lists every directory once, under the number its parent  *)
(* has in the table, parents first and in the order of the numbers and the *)
(* names, though the table is numbered while it is traversed.              *)
(***************************************************************************)
PathTableRight ==
    \A v \in DOMAIN tables : LET list == tables[v].rows IN
        /\ Len(list) = Cardinality(Dirs)
        /\ \A d \in Dirs \ {Root} : \E i, j \in DOMAIN list :
              /\ list[i].lba = burners[<<v, d>>].dot.lba /\ list[i].name = names[<<v, d>>]
              /\ list[j].lba = burners[<<v, ParentOf(d)>>].dot.lba /\ list[i].parent = j /\ j < i
        /\ \A i \in 2 .. Len(list) - 1 :
              \/ list[i].parent < list[i+1].parent
              \/ list[i].parent = list[i+1].parent /\ NameLess(list[i].name, list[i+1].name)
==============================================================================
