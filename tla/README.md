# FSView: a verification project

FSView shows a tree of files as a disk that nobody wrote: it computes the
metadata of a filesystem (HFS+, CDFS or FAT32), keeps it in compressed memory, and
makes a device-mapper device whose table alternates between that memory and the
blocks the files already occupy. On Android a small state machine driven by `init`
brings such a device up when a host is connected over USB, and tears it down.

These modules model the parts of FSView whose correctness depends on order, on
boundaries or on what runs beside them, check them with TLC and prove the main
facts with TLAPS. All paths below are relative to `src/`.

## The system

### Components

| component | code | state it keeps | operations |
|---|---|---|---|
| Source tree | `impl/source.*`, `impl/attrib.*`, `impl/rlimit.*` | entries with their descriptors, parents and children | `openRoot`, `insertStat`, `appendChildren`, `onFileFd` / `onPathFd` |
| Extent locator | `impl/device.cpp` 105-198 | the FIEMAP buffer; the map of substituted devices | `resolve`, `peek`, `reserve`, `subst`, `surface` |
| Geometry | `impl/device.cpp` 200-478, `impl/volume.*` | `dMap`, `plan` (a chart of ranges per medium), `mask`; `Colonies::plan`, `areaOffset` | `chart`, `optimize`, `writeFiles`, `withinDisk`, `withinArea`, `granularity`; `Volume::adjust`, `represent` |
| Planner and burners | `impl/burner.*`, `impl/extent.*` | the extent list of a planner, the offset of an output, the table of a device | `append`, `padTo`, `wrapToGo`, `commit`, `copad` |
| Rule media | `impl/extent.*` | the chunk that is filled and written; amendments | `writeToFd`, `fill` |
| FAT32 | `impl/vfat32.*` | the allocation table as rules and amendments, the directories | `setLine`, `setNext`, `setLast`, `shadow`, `plan` |
| HFS+ | `impl/hfplus.*` | catalog and overflow trees, their nodes, the volume header | `onEntry`, `onOverflow`, `compactTrees`, `masterReserved`, `masterComplete` |
| CD9660 and Joliet | `impl/cd9660.*`, `impl/master.*` | two directory trees and path tables over the same files | `plan`, `planHeaders`, `planVolumes` |
| Names | `impl/unique.*`, `impl/strenc.*`, `impl/strdec.*` | the names given out in a directory | `fitName`, `tryExisting`, `tryBrandNew`; UTF-8 to UTF-16 |
| Configuration | `conf/*` | the options | parsing |
| fsview_mkfs | `fsview_mkfs.cpp` | the open files, the target, `light.sync.status` | crawl, represent, set the status, wait for `SIGTERM` |
| Device-mapper tools | `fsview_fork.cpp`, `fsview_down.cpp`, `fsview_name.cpp`, `fsview_temp.cpp`, `impl/mapper.*` | the kernel's mapped devices | mirror, remove, name, make a scratch image |
| Runlevels | `init/*` | `light.sync.status`, `.enable`, `.handoff`; the LUNs of the gadget | one rule of `init.fsv.sync.rc` for each runlevel and direction |
| Gadget observer | `android/MSGModeObserver` | the posted `cutOff` | `onReceive`, `cutOff` |

### How they interact

`fsview_mkfs` crawls the source tree; each regular file is resolved by the locator
into extents of storage media and charted by `Geometry`. `Volume::represent` then
adjusts the block size to what the extents allow, lets the charts be merged, has a
volume plan its metadata (into a temporary planner, over ZRAM) and the file area
(into the output planner), commits the temporary planner and then the output:
either a device-mapper table or a copy. The metadata asks `Colonies::withinDisk` and
`withinArea` where an extent has ended up.

On Android four parties share properties and devices. The observer turns broadcasts
into `light.sync.enable`. `init` runs an action of `init.fsv.sync.rc` whenever a
property is set while the conditions of that action hold. The scripts it executes
make, publish and remove devices and set `light.sync.status`. The service
`instant_sync` (`fsview_mkfs`) runs beside them, sets the status itself, and holds
the files open while the device shows their blocks.

### What is hard

- The runlevels. Conditions are tested when a property is set, the commands run
  later, one action after the other; the observer changes `enable` at any time,
  the service sets the status at any time, tools fail without anyone looking.
- The observer. Broadcasts are sticky, replace one another and arrive late;
  callbacks are posted by objects that live for one broadcast.
- The layout. A byte of a file passes through charting, merging, padding,
  appending and cutting into sectors; a number computed on one side (where a
  range was noted) must be found again on the other (the greatest key up to an
  offset), with tolerances, empty extents, hard links and block sizes between.
- Chunks. A medium that computes its content is written through one buffer in
  parts, and each part must be right wherever it begins.
- Metadata whose content depends on where other metadata ends up: the bitmap that
  covers itself, the offsets fixed up before a commit, trees that grow nodes.
- The source. It is crawled, and its files are located, while others write to it:
  entries vanish and are replaced between two system calls, extents appear between
  the call that counts them and the one that lists them.

### What makes each part correct

- Source tree: what is there all the while is listed once, parents first, and the
  descriptors that are open are those of the files listed.
- Extent locator: a file has one extent in the list for each it has on the disk, in
  their order, and no place is shown under its name that never was its own.
- Geometry: the device reads each byte of each file where the metadata says it is;
  no block of a disk that belongs to no file is exposed except in a tolerated gap;
  every extent but the last of a file is made of whole blocks.
- Planner: an extent is where its offset said it would be; metadata is final when
  it is copied.
- Rule media: what is written does not depend on how it is cut into chunks.
- FAT32: the chain of each file visits its clusters in order and no others.
- HFS+: every record is found by its key; a reader finds each file's bytes through the
  catalog and the overflow tree; the allocation file counts every block of the volume.
- CD9660: parents precede children; a reader finds each file in both volumes.
- Names: distinct in a directory and within the length allowed.
- Runlevels: the devices the host sees are backed by open files; whatever the
  order of changes, the system rests where `enable` says; nothing a host wrote is
  lost; an image is handed off when the host can no longer write it.
- Observer: the property is off for a gadget that has stopped serving.

## The modules

| module | models | composed of |
|---|---|---|
| `SourceTree` | the crawl: `Hierarchy`, `PathEntry::traverse`, `placeChild`, `Original`, `RaiseFdLimit`, beside others who change the tree | |
| `ExtentLocator` | `ExtentIoc::resolve` and `peek`, beside others who write to the files | |
| `Territory` | a chart of ranges and the steps on it that merging and lookup share (`device.h` 75-79, `device.cpp` 224-238, 467-473); what the loop leaves of a chart, in one step | |
| `Coalescing` | the abstract promise of merging: one step from a chart to the coarsest one the tolerance allows | `Territory` |
| `MergeExtents` | the two nested loops of `Geometry::MergeExtents`, one action per iteration | `Territory`, refines `Coalescing` |
| `Geometry` | a run of `fsview_mkfs` over the file area: `onFileFd`, `adjust`, `optimize`, `writeFiles`, `commit` | `Territory` |
| `VolumeReader` | what any reader of a burnt volume does: the bytes at an offset, the contents of the source | `Geometry` |
| `Imaging` | the abstract promise of `Volume::represent`: the image comes to hold what the source has | |
| `FatVolume` | a FAT32 volume over the file area: the estimate of `clusterCount`, the table of `VFatMedium`, and `VFat32Out::plan` | `Geometry` |
| `TreeBuilder` | a B-tree compacted out of a sorted map (`hfplus.h` 752-790, 1013-1150), one action per iteration | `BitCounts` |
| `AllocationFile` | the three sizes of `masterComplete` that depend on each other | `BitCounts` |
| `HfsVolume` | an HFS+ volume: catalog, forks and overflow, both trees, temporary storage, allocation file, header copy, and a reader | `VolumeReader`, `TreeBuilder`, `AllocationFile`, `BitsMedium`; refines `Imaging` |
| `NamePool` | `NamePool`, `CDFSRule` and `StdRand` of `unique.h` | |
| `IsoVolume` | a CD with a Joliet volume: the slave's area, descriptors, directories, path tables, and a reader | `VolumeReader`, `NamePool`; refines `Imaging` |
| `BitCounts` | the sizes of bitmaps and of what is padded | |
| `BitsMedium` | `RuleMedium::writeToFd` with `BitsMedium::fill` | `BitCounts` |
| `SyncRunlevels` | `init.fsv.sync.rc`, its scripts, the service, the mapped devices, the LUNs and the scratch images | `EnableProperty` |
| `GadgetObserver` | `GadgetObserver.java` and the broadcasts it receives | `EnableProperty` |
| `EnableProperty` | the property the two share | |
| `UsbSync` | the observer and the runlevels | `SyncRunlevels`, `GadgetObserver` |
| `MC*` | small inputs for TLC | |
| `*_proof` | theorems | |

### SourceTree

The recursion of `traverse` is `stack`, the folders being read; `pending` is the entry
`placeChild` is about to open. Each system call is a step of its own: `Refill` is
`getdents`, which returns any of the entries not returned before; `Readdir` takes one;
`PlaceChild` opens it by name, whatever has that name by then, and `ChildRefused`
is every way this may fail. `Create` and `Unlink` are the others. `fds` counts what
is open; a folder's goes with `CloseFd`, a file's never, for the device shows its
blocks as long as the daemon lives. `kept` and `refused` are history: the links that
were there all the while, and those that could not be opened.

The limit of descriptors is raised, or not (`--crawl`, no privilege): what comes of the
call is not looked at in the code, and a file that cannot be opened is left out.

### ExtentLocator

One buffer and one list serve all files, one after the other. `Count` and `List` are
the two FIEMAP calls of `peek`; between them, and between the turns of the loop (`Read`),
files grow, are emptied and are written back by others. An extent whose place is
unknown makes `peek` call itself with a sync (`Retry`); what that gives a place is
`Allocate`. After it, and for encoded or unaligned extents, a blank is listed.
`had` is history: the places that ever were a file's. What was in the buffer beyond
what any call has written is any extent (`Raw`). An extent has unit length, for its
length is copied and never looked at. `fosterHouse` is set nowhere in the code, so the
adoption of inlined extents, which it would allow, is not there.

### MergeExtents

`chart` is the argument, `terr` the map that the loop edits in place, `itr` the
iterator. `Absorb` is an iteration of the inner loop (the next range begins at most
`Tolerance` bytes after this one ends: it is erased and its end taken over),
`Advance` and `Finish` are `++itr`. `Implements` shows that the loop is `Coalescing`
under a mapping in which the chart changes when the loop ends; `Folded` shows that
`MergeResult`, with which `Geometry` takes the loop in one step, is what it leaves.

The charts given to TLC have `EndsOrdered`: no range ends after one that begins
later. That is the precondition under which no byte is lost (`Folded` does not need it). Extents of one file,
and of files that do not share storage, satisfy it; a filesystem with reflinks does
not have to, see below.

### Geometry and VolumeReader

The stages are those of `fsview_mkfs` from the crawl to the commit, in one thread;
the order in which files are crawled, the target (mapped or copied) and the block
size asked for are free. A medium is an object, `Id` what `Medium::id()` answers:
the maps of the code are keyed by the latter. With a mapped target the locator is
`ExtentIoc` and files are extents on disks (`ExtentTrees`); with a copied one it is
`NoLocator` and each file is its own medium (`FileTrees`), as in `fsview_mkfs.cpp` 69.
What cannot be mapped is a blank on the zero medium, of any length (`impl/device.cpp`
146-173); extents on disks are whole sectors.
The mask of `granularity()` is the set of the numbers or'ed into it; since the
block sizes are powers of two, "no bit below" is divisibility. The metadata that
precedes the file area is one header of a size that is not a multiple of anything;
a volume that says more of it gives it to `OptimizeBehind`.

`VolumeReader` reads the finished device: `Spans` are the targets of the table, or the
copied extents, and `ByteAt` the byte of a medium at an offset of the volume. `Content`
is the file as the source device has it. `Imaging` is the promise on top: `image` is
empty, then the source, then nothing else. `Represents` of `HfsVolume` and of `IsoVolume`
is `Imaging` with the image that a reader of that filesystem finds; it is a property
of behaviours, checked by refinement, and for the CD proved too.

### FatVolume

`Geometry`'s steps with those of `VFat32Out::plan` between them: `ReserveFat` sizes the
table before the ranges are written, `ChainFile` is an iteration over
`Original::layout` (a map keyed by addresses, so in any order), `WriteDir` one over
the path table from the leaves to the root, `Claim` accounts for what is left.
`links` are the amendments of `VFatMedium`; `Link` is what a reader finds, amended or
computed by `fill`. Clusters come from `withinArea` through the two steps back of
`areaOffset`, as in the code; the numbers of clusters, slots and links keep the
code's rounding. `Filled` is what a reader takes a file's or a directory's size to fill. `start`, `up` and `free` are what entries, `..` and the summary sector
note. A reader (`Walk`) knows these and the table only. `sparse` is a scratch volume
of `fsview_temp`, which is copied. The boot sector, the second copy of the table,
names and dates are left out; that a long name takes more slots than one is not.

`MinClusters` is 65537 in the code. The small value makes the estimate, and not the
minimum, decide on the size, as it does for a large volume.

### TreeBuilder

`FillNode` and `FullNode` are the two outcomes of an iteration of `compactLevel`, `EndLevel`
its end with the step of `compactBTree` to the level above, `AddMap` an iteration of
the loop that puts the bitmap of the nodes into the header node and then into map
nodes. A record has the lengths of its key and value and takes them, and an offset,
of a node. Two of the tree's callers are `HfsVolume`'s catalog and overflow; on its own
it is given every small map. `Search` is a reader: down from the root, at each node
along the last key not above the one it looks for.

### HfsVolume and AllocationFile

`phase` is where `masterComplete` is. `OnFolder` and `OnFile` are iterations over the
path table and the file table: a record and a thread are inserted, which, as
`std::map::insert`, does not replace. `ForkExtent` folds the extents of a file into
descriptors: contiguous ones are joined, `Inline` go into the record (eight in the
code), the rest to the overflow map under the number of blocks before them. The
two trees are compacted (`TreeBuilder`'s steps), written to temporary storage and from
there to the volume (`WriteTree`); then the allocation file is given a place with an
estimate of its bits (`WriteBitmap`), what follows decides on how many there are
(`RunOff`), and it is written in chunks (`BitsMedium`, instantiated). The reader goes
by the header's extents, looks up each folder from the root, the file, its
descriptors, and for what these lack the overflow tree.

An inode number is narrowed to the 32 bits of a CNID (`Renum`, modulo `CnidMod`), and `Name`
is a name as `decompo` makes it, the form in which the catalog compares names.

`AllocationFile` is kept apart, since its arithmetic is what the theorem
`BitmapCoversItself` is about.

### NamePool and IsoVolume

A name is a sequence of characters, cut at its last dot if the extension is short
enough (with the unsigned subtraction of the code, modulo `SizeMod`), spelled as the
volume allows, and mixed with a number until it is new: `TryExisting` and
`TryBrandNew`. The random number is any of those `StdRand` may return. What comes out is cut
in front of its separators, as `Unicomp::seps` does, since that is how names are
ordered; `Conv` is the one text that is written, and what a reader and `NamesApart` compare.

Distinct names may be written alike, in two cases. Files with the same stem and extensions
that are spelled alike have one number (`x.a` and `x.A` in the primary volume). And what
is made unique is the part before the dot that is cut, without regard to what follows:
in Joliet, with X any 50 characters without a dot, `X.abc` is cut at its dot, and
`X.abcZZ.defghijk`, whose extension is too long to be cut, is shortened to `X.abc`; both
are written `X.abc;1`. `NamesApart` says that these are the only cases, and `Represents` speaks
of files that can be told by what is written for them (`Told`): of the others a
reader finds one only. Both contradict `impl/unique.h` 211-212, by which distinct
names become unique ones, and `impl/cd9660.cpp` 169, "names are unique at this point", see
`IsoNames.cfg`.

The length of an entry has 32 bits (`LenMod`); of an extent that is longer a
reader gets the remainder, and with `LenMod = 4` in `IsoVolume.cfg` `Represents` fails. Block numbers
and the lengths of directories have 32 bits as well, and are not narrowed in the model.

`PlanHead` is the area reserved for the slave (`BreachOfTrust` if it needs more than it
may have) with the descriptors behind it. For each volume, directories are written leaves
first: `FitEntry` for each name, `WriteDir` for the entries, their padding to blocks and
the `..` of the directories below. `VisitDir` is an iteration over the path table, which
is added to while it is traversed. The descriptors are filled in by `WriteTables` and
`PlanMeta` and copied by `CommitTmp`: a value set after that would be lost, which is
what `burnt`, as opposed to `heads`, is for. The reader knows the descriptors in `burnt`
and goes down by names.

### BitsMedium

A bitmap of ones and then zeroes, cut into chunks. What `malloc` returned is the
byte value `"junk"`, what an earlier part left in the chunk stays there.

### SyncRunlevels

`props` are the properties and init's queue; `todo` is what is left of the action
that runs; an action is named by its conditions, `<<status, enable>>`. Each script
is one step, since what it changes is looked at by init and by mkfs only; each
command of an action is a step of its own, so that the observer and the service may
come between. `MkfsOpen` and `MkfsDone` are the two moments at which the service
touches shared state; between them it crawls and plans. The states of a device are
those that its users can tell apart: with no table, with a good one, with a table
computed from an empty source, suspended.

What is external, and taken to be so:

- Android's `init` of the version the documents name: setting a property, also to
  the value it has, queues every action whose conditions hold then and that does
  not wait already; conditions are not tested again; `exec` holds back the queue
  but not the properties; `start` on a running service does nothing; a stopped
  service is gone before the next command has run.
- device-mapper: a device that is open, or mapped by another one, is suspended by
  `DM_DEV_SUSPEND` but not removed; the tools ignore it (`fsview_down`) or abort
  (`DiskBurner`).
- the gadget: a LUN the host has locked cannot be closed; once the gadget is
  disabled, as the retry in `init.fsv.sync_reclaim.sh` does, it can.

`Flaky` is the set of tools that may fail: `fsview_temp` without space, the handoff
service without its activity manager.

### GadgetObserver and UsbSync

`mail` is the sticky broadcast not yet delivered: a later one takes its place. The
receiver is declared in the manifest, so each delivery makes a new instance
(`instance`), and `removeCallbacks` of one instance does not see what another has
posted. Time is abstracted: a posted `cutOff` runs at some later moment. Each call
of `enable()` is, in `UsbSync`, a `SetEnable` step of the runlevels.

## The runs

| run | question | bounds and why they are enough |
|---|---|---|
| `SourceTree` | Is each entry that was there all the while in the tree once, behind its parent, and is every open descriptor that of a file listed or a folder being read? | Three folders, three files and a socket; one file may not be opened, one name is excluded, one path is given besides. Three changes by others: enough to move the folder being read about elsewhere, to put a folder in a file's place, and to add what may be seen or not. Limits of 1, 4 and 9 descriptors, raised or not. |
| `ExtentLocator` | Is any place shown for a file that was never its own? Is an undisturbed file located completely, with and without a retry? Is there an answer for every file? | Two files with two extents of all five kinds between them, on one device or on two of which one has no surface; two changes by others at any moment: the second file is counted and listed differently, with the buffer as the first one left it. |
| `MergeExtents` | Does the loop end, keep every charted byte findable in every state, and expose no more than the tolerance? Is it the abstract merge, and the fold? | Every chart of up to 4 non-empty ranges on a medium of 6 bytes with ordered ends, tolerance 1: adjacent, overlapping, at and beyond the tolerance, chains of merges followed by a gap. |
| `FatVolume` | Does every byte of every file read back from the place `withinDisk` names, and through the volume, cluster by cluster? Are extents whole blocks? Does anything else lead into a chain, are directories found both ways, is free space free? | Two files of up to two extents of one or two clusters on two disks, unaligned against one of the two block sizes, gaps below, at and above the tolerance, hard links; and copies of files of 0 to 5 units with shared inodes. Wanted sizes inside and outside the range. A subdirectory of more than one cluster. Tables in favour of files and of free space. |
| `FatRoom` | finding, see below | |
| `TreeBuilder` | Do nodes hold what is put into them, are siblings linked both ways, is every record found from the root, has every node a bit? | Every map of up to nine records with keys of two lengths in any order and values of three, in nodes of two sizes: one to three levels, nodes of one record and of several, and, with one bit to a byte, up to two map nodes. |
| `HfsVolume` | Does a reader find every file, whatever its extents and the order of the disk? Does the catalog agree with itself? Is every block counted by the bitmap, which counts itself? | Three files, one in a subfolder, with up to two extents: apart, contiguous, contiguous out of order, on two disks; and copies of 0 to 9 units. One descriptor to a record, so that two extents reach the overflow tree. Inode numbers in any order about the root's, some of which do not fit into a CNID. Two bits to a byte, so that the bitmap is large against the volume. |
| `IsoVolume` | Does a reader find every file in both volumes? Are `.` and `..` right, and the path table? Do names stay apart but in the two known cases? | Four directories, one two levels down, three files of up to three extents, two of them in one directory, mapped and copied; sets of names that differ by case, before the dot or behind it, that have a stem in common, or that are written alike, in either of the two ways. Entries that do and do not fit the rest of a block. A slave of no, of one and of too many blocks. |
| `RunlevelsPatient` | With `enable` changed only at rest: is every runlevel passed, is each image handed off when the host is off it and none forgotten, are the files held until the device is gone? | Four changes: two full rounds up and down, with a scratch tool that fails at any time. |
| `RunlevelsInterrupted` | With a second change at any moment of a climb or descent: is what the host sees always backed, and does the last change win? | Six changes in pairs with nothing at rest between; a handoff that fails. |
| `RunlevelsConverge` | finding, see below | |
| `UsbSync` | With the real observer as the source of changes and tools that fail: is the property never left on for a gadget that does not serve, does it go off, do the runlevels always come to rest, at the right place, and are the files released? | Three changes of the gadget, which set the property up to four times with no rest between: enough for several instances with callbacks posted to overlap with broadcasts that are replaced. |

Every property has a mutant of the code that breaks it: a definition next to the
one it stands for, marked as such, listed in `PROJECT.json` and used by no
specification.

### Fairness

- `MergeExtents`: weak fairness of the loop, which runs alone and blocks on nothing.
- `ExtentLocator`: weak fairness of the locator as a whole, which waits for nobody. None
  of those who write to the files; they need not stop either, since a file is asked
  for at most twice, whatever happens to it.
- `SyncRunlevels`: weak fairness of init's queue (a command that can run does;
  the scripts have bounded retries) and of `fsview_mkfs` (it waits for nobody
  until it has set the status). None for the observer: `enable` need never change.
- `GadgetObserver`: weak fairness of delivery (Android delivers a sticky broadcast to a
  receiver in the manifest) and of a posted `cutOff` (the handler runs it when its
  delay is over). The second assumes that the process outlives the linger, as the
  comment on `MAX_SHUTDOWN_LINGER_MS` reckons; none for changes of the gadget.

### Deadlock

All runs switch it off: a run of `fsview_mkfs` ends, and the runlevels rest when no
property changes. That they rest in the right place is what `RestsRight` states.

## Findings

Two are runs that TLC finds violated; the traces are short.

1. `RunlevelsConverge`. With three changes of `enable` at runlevel 1, stale actions pass
   one another in the queue; `enable` is 1 for good, the status is 4, and the gadget
   has a suspended device and no service behind it.
2. `FatRoom`. `clusterCount` takes the total length of the files for rounded up
   (`impl/vfat32.cpp` 248); it is not, and many files smaller than a cluster need
   more clusters than the table is given: chaining them aborts in `setNext`. With
   clusters of 4096 bytes, 70000 files of a few bytes each, copied, do: the table has
   the minimum, 66560 clusters.

The others have configurations of their own, kept beside the runs (use the `MC` module
of the same component; `GadgetObserver` and `SyncRunlevels` have none):

- `GeometryBlanks.cfg` (violates `FilesReadBack`). An extent the locator cannot map is
  charted on the zero medium at offset 0, whatever its length, so two of them have one
  key (`impl/device.cpp` 173, 221). If the shorter one comes last, the longer file ends
  in what follows. With `ExtentTrees <- TailTrees` there is one blank only, as an inlined
  tail is listed, but of a part of a sector: the target is cut to whole sectors
  (`impl/burner.cpp` 157), what follows is not where it was noted, and a target may be
  of length 0, which the kernel would refuse. With `ExtentTrees <- SharedTrees` the same is shown of storage shared
  in part: a range nested in the one before it shortens it in the merge
  (`impl/device.cpp` 233). With `Id <- SameIds`, `ExtentTrees <- NoTrees` and
  `FileTrees <- InodeTrees`, files of two filesystems with the same inode number are
  charted as one when copied (`impl/source.h` 173).
- `BitsAllocation.cfg` (`Ones`). A chunk that is all ones is not filled
  (`impl/extent.cpp` 122: `nFill < ssize`), and uninitialized memory is written as the
  allocation bitmap. A volume with more used blocks than eight chunks' bytes have is
  affected. With `MaxBits = 9` and `Bitmaps <- NodeMaps`, the chunk after the last one
  bit repeats the chunk before.
- `HfsOverflow.cfg` (`ReadRight`). The extent that finds the record of a file full opens
  one in the overflow map before it is known whether it continues the one before
  (`impl/hfplus.cpp` 345). If it does, the record stands under the block where that
  extent begins, but begins with the next one: the reader is one extent off.
- `HfsLinks.cfg` (`CatalogConsistent`). Two links to one file have one number, and so
  one thread; the second record has none that leads back to it. With
  `Inodes <- Narrowed` the same is shown of files whose inode numbers differ, but not in
  the 32 bits of a CNID (`impl/hfplus.cpp` 287). With `Name <- Spellings` and
  `Inodes <- Numbers` two entries of a folder are a composed and a decomposed spelling of one
  name, which the source may have and HFS+ may not: `insert` (`impl/hfplus.cpp` 180) drops
  the second record, while its thread stays and the folder counts it.
- `IsoNames.cfg` (`NamesDistinct`). Names of files that are written alike (`impl/unique.h`
  211), in either of the two ways described under *NamePool and IsoVolume*. If they are cut
  alike too, as `x.a` and `x.A` are, one of the two is left out of the directory.
- `IsoBare.cfg` (`ReadRight`). A file without any extent has no entry on the CD, since
  there is one for each extent (`impl/cd9660.cpp` 191).
- `ObserverFlurry.cfg` (`Stabilized`). A disconnection and a reconnection within the
  linger: the callback posted by the first instance cannot be removed by the second
  and turns the property off while the gadget serves.
- `RunlevelsHandoff.cfg` (`HandoffFree`): `enable` cleared while the publish script runs.
  The action of runlevel 3 and then that of runlevel 4 are queued, and the handoff
  service is given an image that the gadget still has open, where `ANDROID.md` 118 says
  it is free from host system interference. The same configuration violates
  `Released`: `enable` cleared while the mirror is made; the service is stopped, its
  device is held by the mirror and stays. With `MaxSets = 4` it violates `NothingLost`,
  with `Flurry = 4` as well `Backed`, which so holds for one more change only (and `GoesDown` under `FairSpec`): patient and paired
  changes are where these hold, and the properties that hold for any number of changes
  are those that are proved.

And these are seen by changing the properties of a run:

- `ExtentLocator.cfg` with `NothingForeignAtAll`: a file without extents when it is
  counted, and with some when it is listed. The second call is made with room for
  none, again only tells their number, and the loop reads as many from what the buffer
  has of the file before (`impl/device.cpp` 117): its blocks are shown under this one's name.
- `SourceTree.cfg` with `RegularFiles`: a file replaced by a folder between `readdir` and
  `openat` is listed as a file, since a file is not asked for as one.
- `IsoVolume.cfg` with `ExtensionsKept`: the unsigned subtraction of `impl/unique.h` 136
  wraps around for names no longer than the longest extension, and these lose theirs.
- `HfsVolume.cfg` with `TmpBlock = 8` (`AllBlocksCounted`): with blocks of the temporary storage
  larger than the volume's, what is appended after the allocation file is longer than was
  estimated, the space before the header copy negative, and `mkfs` aborts. `impl/hfplus.cpp`
  411 notes that the estimate "may underallocate", 402 to 404 that more padding is
  harmless. A ZRAM block is a page, as the smaller block of the volume, so this needs another device.
- `FatVolume.cfg` with `EmptyFirst`, `ExtentTrees <- NoTrees` and `MinClusters = 8`:
  `impl/vfat32.cpp` 305 wants first cluster 0 for empty files; when copied, an empty file
  has one empty extent and is given the first cluster of whatever follows it.

`Geometry.cfg` holds: the file area alone, with the properties `FatVolume` checks of it
and besides that the table of the device is contiguous (`TableContiguous`) and that
nothing but gaps is exposed (`GapsOnly`).

Smaller differences need no run. `conf/config.h` 131 says of `--crawl` that descriptors
are closed as soon as possible; it only leaves their limit alone, and nothing closes a
file. That the root cannot be opened is noticed by nobody: an empty volume is made. In
`ANDROID.md` 96 and 100 the HFS+ device is `lun0` and the CD `lun1`, the publish script
uses `lun`, `lun0` and `lun1`; `init.fsv.sync_reclaim.sh` 24 sets
`light.sync.needadbd`, `init.fsv.sync.rc` 52 waits for `light.sync.kickadbd`;
`ANDROID.md` 74 says that the receiver can only be registered in code, the manifest
declares it. In `impl/vfat32.cpp`, the number of free clusters (503) counts the two
reserved ones, and `allScc` (276) the clusters but not what precedes the first.

## The proofs

| module | theorem | statement |
|---|---|---|
| `MergeExtents_proof` | `TypeCorrect`, `LocatedAlways`, `LeakBoundedAlways`, `SeparatedAlways`, `MergeImplementsPromise` | the safety of the merge loop, and that it implements `Coalescing`, for every set of charts with ordered ends and every tolerance |
| | `FoldedAlways` | the loop leaves what `MergeResult` says, for any charts |
| `Geometry_proof` | `GeometryInvariant`, `GeometryAligned`, `GeometryReadsBack` | of the file area alone: extents are whole blocks, for any trees, gap and block sizes; `withinDisk` is where a byte of a file is read, for any trees whose files share no extent in part and have blanks of whole sectors |
| `FatVolume_proof` | `BlockAlignedAlways`, `FilesReadBackAlways` | the same in a FAT32 volume |
| | `DirectoriesLinkedAlways`, `NoCrossLinksAlways`, `ReadThroughAlways` | directories, the ends of chains and the files of a FAT32 volume, for any tree of directories, any files and cluster size, in favour of files or of free space |
| | `FreeSpaceAlways` | the free clusters of a scratch volume, of which the files are copied whole |
| `IsoVolume_proof` | `DotsRightAlways`, `NamesApartAlways` | the dots of every directory, and that names are written alike in the two known cases only, for any tree, any volumes, any names and any rules that make no semicolon and no new dot of a character |
| | `PathTableAlways` | the path tables, for any tree with fewer directories than a table has room for |
| | `IsoBlockAligned`, `IsoFilesReadBack` | of the file area, in a CD9660 volume |
| | `MetadataAlwaysPlaced` | descriptors, path tables and directories are in the volume where what leads to them says, for any number of volumes, any names and headers |
| | `IsoRepresents` | a CD implements `Imaging`: every file is read back in each of its volumes, for any trees in which a file has an extent and is in one directory, and any file that can be told by its name, as long as entries fit into a block |
| `HfsVolume_proof` | `TreeInvariant`, `Fits`, `Linking`, `Mapping`, `Finding` | of the trees: nodes, siblings, the bitmap of nodes and the search, for every map, every node size and any number of levels |
| | `Cataloguing` | of the catalog: threads lead back and folders count what is in them, for any tree of entries whose numbers differ in a CNID and whose names of one folder differ after decomposition |
| | `BitmapCoversItself` | of the allocation file: the estimate suffices, for every block size and number of blocks |
| | `BlocksCounted`, `AllocationRight` | the length of the volume and of the allocation file, and its bits, for any trees, sizes of nodes and headers |
| | `HfsBlockAligned`, `HfsFilesReadBack` | of the file area, in an HFS+ volume |
| `ExtentLocator_proof` | `NothingForeignAlways`, `CompleteAlways` | no foreign place is shown, and an undisturbed file is located completely, for any files, devices and number of changes |
| `SourceTree_proof` | `HeldAlways`, `ParentsAreFirst`, `NothingLeftOut` | the descriptors, the order of the path table, and that what stays is listed once, for any tree, limit and number of changes |
| `UsbSync_proof` | `RunlevelsTypeCorrect`, `RestsRightAlways` | types, and where the runlevels rest, for any number of changes in any flurry and any failing tools |
| | `HandoffFreeWhenPatient`, `NothingLostWhenPatient`, `ReleasedWhenPatient`, `BackedWhenPatient`, `OneAtATimeWhenPatient` | the images, the files and the order of the runlevels, for any number of changes of which each waits for rest |
| | `ObsTypeCorrect`, `NotStuckOnAlways` | types of the observer, and the property it sets, for any number of changes |
| | `ObserverDrives`, `UsbRestsRight`, `UsbNotStuckOn` | the composition implements the runlevels, and inherits what is proved of them and of the observer |

*Merging.* The inductive invariant says, of every range the loop has made, that it
begins and ends where charted ranges do, that its inside is covered by charted
ranges and tolerated gaps, that a charted range begins at a key or inside the
range before it, and that what lies behind the iterator is separated. Order of the
ends is preserved by a merge, and that is what makes "the greatest key up to an
offset" the right lookup. `LeakBounded` and `Separated` alone are not inductive: the
first needs the ends of merged ranges to be ends of charted ones, the second that
the iterator is a key.

`FoldedAlways` has an invariant of its own, which needs no order: the range at the
iterator ends where the charted range last visited does, no range between the two
stays, and the ranges behind the iterator are those that stay and end where the last one
before the next that stays does.

*Layout.* `GeoInv` follows an extent through its stages. While files are crawled each
offset is a key of the chart of its medium, and each range of a chart is some extent's
(`Charts`); a list is charted by recursion, so this is an induction over its length. The
size chosen divides the mask, and so every offset. Merging leaves ranges that begin and
end where extents do, and for every extent there is a last one that does not begin
behind it (`Covers`); if no two extents overlap, that range holds the extent. A range
that is written begins on a block and is listed at the offset noted for it (`Column`),
where it stays when the planner grows, which the sums of lengths have to be shown
to respect. `BlockAligned` follows with no hypothesis about the trees, though shared
extents make `FilesReadBack` false: a place may be wrong and yet aligned. `GeoInv` allows
any list of extents before the files and behind them, so `FatVolume_proof` and
`HfsVolume_proof` extend `Geometry_proof` and have only to show what their own steps
append (`OptimizeGeoInv`, `BehindGeoInv`), and so has `IsoVolume_proof`. The hypothesis of
`FilesReadBackAlways` and its likes are two. `NoneShared` is that two extents of one id are one
and the same or apart, and `WholeSectors` that blanks too are of whole sectors;
`GeometryBlanks.cfg` and its variants, see above, are where they do not hold.
`GeometryAssumption` says what a locator may answer: for a mapped volume whole sectors of
disks, and blanks of any length at offset 0.

*Chains.* `FatInv` says what the FAT32 volume adds. A joint is a line of clusters and what
follows its last one; joints come from the lines of the chained files and from the
directories written. A table *threads* the joints (`Threads`) if every cluster of a joint
leads to the next and the last one to what follows, if in favour of free space nothing is
amended behind the joints and in favour of files only their ends and the clusters before
them, and if elsewhere there are only ends. One line more preserves that if it is apart
from the joints there are (`AmendmentThreads`), and so does a list of lines chained last
to first, by induction over its length (`ChainThreads`). The lines of two files are apart
or the same: `WithinDisk` keeps apart what is apart (`PlacesApart`), since no range is
written over another (`Stacked`), and extents begin on blocks. Directories are apart from
all of it as each is written where the output ends (`Heaping`), children first
(`Ordering`), which is what lets an entry note its child's first cluster and a parent catch
up with the `..` of its children (`Noting`). A reader who follows the links is at the k-th
cluster of the lines after k steps (`ChainWalked`), and the k-th cluster of the lines holds
the k-th cluster of the file, as all extents but the last fill whole clusters. That nothing
leads into a joint from outside is why `VFatMedium::shadow` ends what comes before it: with
no amendment in the cluster before, `fill` would make it lead there. For the free space of
a scratch volume the ranges are shown to be the files, and every block between the start of
the area and the end of the directories to be in one or the other (`Freeing`).

The hypothesis `Chainable` has four parts, none of which `VFat32Out` checks: `NoneShared`,
as above; `SharedWhole`, that files share an extent only if they share all, in the same
order, as hard links do, for a cluster leads to one other only; `EmptyAlone`, that an
extent is empty only where files have at most one, which holds of whole files, and of the
extents of a mapped file, none of which the kernel reports empty; `OffDirs`, that no
file's extent is on what the model shows directories as. `ReadThroughAlways` needs `WholeSectors`
besides. `WholeFiles`, for
`FreeSpaceAlways`, is what `NoLocator` answers. `MCFatVolume` assumes them of its trees, so
the run checks that they can be met. `FatAssumption` says that the directories form a
tree, parents before children in the path table (`ParentsAreFirst` of `SourceTree`), and
that a cluster has room for a link. That a volume may be given up for lack of clusters, see
`FatRoom`, is no exception: these properties speak of volumes that are finished.

*CD.* `IsoInv` follows a volume through its three phases. While the names of a directory
are fitted, each name that came out is what `decorate` makes of a text of its own, which is
linked to the stem it was made for (`PoolInv`); so two names that come out
alike, segment for segment, were made for one stem, which is not empty. Two lists of as many
segments that are written alike are alike: all files have the same version behind a
semicolon, of which a rule makes no other, and an extension holds no dot but the one it
begins with, since the last dot is where a name is cut (`PartedAt`, `ConvApart`). Lists of
two lengths may be written alike, which is the second case of `NamesApart`. A name's
stem is its text or what is before the last dot, depending on how long the extension is, and this is why `NamesApart` speaks of stems
and not of what is before the last dot: where extensions have three characters at most,
`x.yyyy` is not cut, `x.yyyy.` is cut at its last dot, and both are made from `x.yyyy`
and come out alike. The directories written are the last ones of the path table
(`WrittenDirs`), so what a directory is in is written after it, and its `..` is filled in
then (`Dots`); its name too (`Naming`). The path table grows while it is traversed:
`Walked` says that the keys listed come in order before those that are not, that each
key's number is that of a row that is there and shows its parent, and that the children
of every directory listed have keys. New keys have a higher level than any listed, so the
traversal never misses one; the order of keys is total (`PathOrder`) on texts compared as
sequences, which it takes most of the lemmas to show. When no key is left all directories
have been listed, by induction along the path table, and none twice, for there are no more
keys than directories. That a table of `PATHTB_SZ` rows ends early is the hypothesis of
`PathTableAlways`. `IsoAssumption` says that the directories form a tree with parents
first (`ParentsAreFirst` of `SourceTree`), that the entries of a directory have different
names once decoded, and that the rules append a version to files, as `CDFSChar` does, and
make no semicolon and no new dot of a character, as `EnsureD` and `EnsureD1` do (`IsRule`).

*Places on a CD.* `MetaInv` adds to `IsoInv` where the metadata is. Nothing knows that while
it is planned: a directory notes its offset in the temporary storage plus `tmpToOut`, which
is right only if all of the storage behind `inner` is appended to the volume at the one
offset where the files ended (`Placed`). Each directory (`DirsPut`) and each path table of a
volume that is done (`TablesPut`) lies in such a range at the block noted for it, which needs
`tmpOff - inner` to stay on blocks: the records of a directory, the two dots and
what `WriteEntries` pads to blocks, are as long as the burner says (`RecordListIs`), and are
rounded up before they are appended. Directories never overlap (`DirectoriesApart`) as each
begins where the storage ends. `Heading` says the same of the descriptors, which go ahead of the
files, at the block a reader looks at first whatever the slave had reserved there
(`BreachMeta`), and `Headed` that what `CommitTmp` copies has been filled in. At the end the
storage is padded to its own blocks and appended in one (`Complete`), so each of these ranges is a
part of that span. `IsoAssumption` says of the numbers what the code's types and constants
do: entries and blocks are not empty, the system area is of whole blocks, what the slave
reserved is of whole blocks of the temporary storage.

*Reading a CD.* `ReadInv` adds to `MetaInv` that each directory written is `Ready`: every
entry lies whole in a block, and for each thing in the directory there is a first entry of
its name, from which on the entries `Lead` to it: the place in the dot of the directory
below, or the places and lengths of the extents of the file, of which all but the last are to
be continued (`Points`); this is said of what nothing else in the directory is written like (`Sole`).
It holds when the directory is written, as a name that differs in what is written differs in
what the directory is sorted by too (`ListedIs`, `DirRead`), and what is written stays. A reader finds a directory
where the one above says, by induction along the path table (`PlaceFound`): no other can be
there, as a byte of the volume is in one span only (`SpanOnce`) and directories lie apart in
the storage. The bytes of the extents of a file, read one behind the other, are its contents
(`ExtentsRead`) by `FilesReadBack`. `IsoRepresents` thus joins the two theorems before it.
Of its hypotheses, `NoneShared` and `WholeSectors` are those of `FilesReadBack`; `Bodied`, that
every file has an extent and none is too long for the 32 bits of an entry, is where the code fails
(`IsoBare.cfg`, `LenMod`); `Housed`, that a file is in one directory, spares the
reader the choice of a hard link; and an entry fits into a block (`NamesFit`) by the limits of
`CDFSLvl1`, `CDFSLvl2` and `CDJoliet`. TLC finds all of them to hold in `IsoVolume.cfg`. That
names are distinct is no hypothesis: files that cannot be told by their names are excepted in `Represents`.

*Trees.* `TreeInv` describes the list of nodes while it is built: the nodes of a level have
the records of the level below in order, none is empty, and each is linked to the one
before. A search keeps, on its way down, that its node begins with a key not above the
one sought and that the next node of the level begins with one that is; a level is passed by
induction over the length of the path.

*Locating.* `NothingForeign` speaks of lists that are finished. Its strengthening
follows a place from the file into the buffer, the list and the answer: the places a
file has are among those it `had` (`Had`); up to `fm_mapped_extents` the buffer has
such places, unless the file was counted as empty (`Filled`); so has the list
(`Collected`); and the list is empty whenever the file is asked for (`Fresh`), which is
what a retry that kept it would break. Places are only added to `had`, so a step of
others disturbs none of these. `Complete` needs besides what the call that is under way
will say of an undisturbed file: what it has been told of, it has in order. The assumption `LocatorAssumption` says that "nowhere" is no place.

*Crawling.* `Held` is inductive but for the types. `ParentsFirst` needs that each folder on
the stack is listed, and that an entry about to be placed belongs to a listed folder or
to the root (`Known`), and that nothing but the root is placed first (`Begun`): a root
that could not be opened is in no table, and further paths are put below it nevertheless.
`Complete` is an account: a link that was there all the while is among the entries
returned and not yet taken, or is being placed, or placed once, or refused, or yet to be
returned, and in one of these places only. `SourceAssumption` says that entries of one
folder have different names.

*Catalog.* `CatalogInv` says of every entry noted that its record stands under its parent and
name and its thread under its number, that there is nothing else, and that a folder's
record has counted what is noted below it. The hypothesis of `Cataloguing` has two parts, neither of which the code ensures. `Numbered` is
that entries have inode numbers that differ in the bits of a CNID, and none but the root one of the two that
HFS+ reserves; `SpeltApart`, that the names in a folder still differ after `decompo`.
`MCHfsVolume` assumes them of the run; `HfsLinks.cfg` and its variants are where they do not hold.

*Blocks.* `BlocksInv` adds to `GeoInv` that both planners are on blocks when the trees and the
allocation file are appended (`Aligned`, `TmpAligned`), that the sizes in the header are those appended
(`Counted`), and, from the estimate on, that as many bits are reserved as the volume has
blocks in the end (`Covered`, with `BitmapCoversItself`). It needs `Fitting`: the blocks of the
temporary storage divide those of the volume. In the code the former are what
`BLKBSZGET` says of the ZRAM device, a page, and the latter one or two pages (`impl/burner.cpp` 84,
`impl/hfplus.h` 1178), so this holds; without it the property fails, see the findings.
`BitsRight` is about the bytes: the chunk is as `malloc` left it until the one part that has
the ones and the first zeroes is filled. `Chunked` says that a chunk is made of whole blocks; one has
65536 bytes, which a block of two pages divides unless pages are that large.

*The bitmap.* With `B` bits to a byte, `blk` bytes to a block and `off` bytes before it,
`off * B / (blk * B - 1) + 2` bits are enough for `off / blk` blocks and those of the bitmap
itself: a bitmap block holds the bits of `blk * B` blocks, of which it is one.

*Runlevels.* `RestsRight` speaks of states with an empty queue and says nothing of
how they come about. Its strengthening: whenever the current status and enable have
a rule, at a runlevel above 0, that rule waits in the queue (`Triggered`), unless the
action that runs still has the status to set; the service is stopped when runlevel
0 is about to be set (`StopsFirst`); and a service that waits has set a runlevel
above 0 (`WaitsAbove`). Each rule ends with setting the status, which triggers the
next. The proof has one step for each command. The five properties of a patient observer
(`Flurry = 1`) come from one invariant that says, for each rule and each command left of
it, which devices, images and services there are; they do not hold of flurries, see the
findings.

*Composition.* A step of the observer that sets the property is a `SetEnable` step,
all others leave the runlevels alone; this needs that the observer's bound keeps
it within `MaxSets` and `Flurry`, which is the assumption `UsbAssumption` and the
counting part of `ObsTypeOK`.

The assumptions on constants are the named `ASSUME`s of the modules. Most of what they say is
what kind of value a constant is; besides, `GeometryAssumption` has extents on disks of whole
sectors, as filesystems allocate them, and block sizes too; `FatAssumption`, `HfsAssumption`,
`IsoAssumption` and `SourceAssumption` have trees whose directories come parents first or
whose names differ in a directory of the source (for a CD, once decoded); `IsoAssumption` has numbers that the code's types give it;
`UsbAssumption` relates two bounds of the model. What a source need not satisfy is a
hypothesis of the theorems that need it: `EndsOrdered`, `NoneShared`, `WholeSectors`, `Chainable`, `WholeFiles`,
`Numbered`, `SpeltApart`, `Fitting`, `Chunked`, `Bodied`, `Housed`, `NamesFit`.

Induction is over sets of numbers, with the least element of a set (`WFMin`) for the
induction theorem that has an operator for a parameter; recursive functions are shown
to exist by it.

Model-checked only: everything about liveness (`Terminates`, `Answered`, `Rests`, `ComesUp`,
`GoesDown`, `CutsOff`, `FilesFreed`), which is beyond the prover; `Represents` of HFS+, of
which the parts are proved (places of files, counts, the catalog, the search in a tree) but
not that a reader who goes from name to name puts them together; `Backed` of an observer that
changes its mind once (`Flurry = 2`; it does not hold for three times).

## Not modelled

See the components in `PROJECT.json`. Left out for good: option parsing, dates, byte
order, hashing and character tables (conversions without state); the ioctl and
sysfs calls themselves (copies are taken to be whole); boot-time
remounting (`init.fsv.sync.sh`), which ends before the first property is set;
`kickadbd`, which touches nothing that the rules read; the growing of the ZRAM device and
of the memfd under the temporary planner; the adoption of inlined extents, which no
code reaches; `fakeRoot`, by which `fsview_temp` makes an empty volume when it is given no
`--root`; that amendments are written over the chunks of a rule medium (in `FatVolume` they are
the links of the table); boot sectors, identifiers and the fields of headers
by which nothing is looked up.

What could still be added: HFS+ as the slave of a CD, where two volumes share one
file area and the smaller block size has to suit both (`IsoVolume` takes the length of
the slave's area as given), and the size of the temporary storage against what is
appended to it. What could still be proved: `Represents` of HFS+, from those parts.
