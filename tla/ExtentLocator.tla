---------------------------- MODULE ExtentLocator ----------------------------
(***************************************************************************)
(* ExtentIoc of impl/device.cpp: the locator that asks the kernel, by the  *)
(* FS_IOC_FIEMAP ioctl, which extents of the disk hold a source file.      *)
(*                                                                         *)
(* The files are resolved one after another through the one buffer of the  *)
(* locator.  A file is asked for twice, first for the number of its        *)
(* extents and then for the extents, and others may write to it all the    *)
(* while.  If an extent has no place on the disk yet the file is asked     *)
(* for again, this time with a sync.                                       *)
(*                                                                         *)
(* An extent is one unit long here: its length is copied and never looked  *)
(* at.  fosterHouse is assigned nowhere, so the budget is -1 and an extent *)
(* that cannot be mapped is always a blank.                                *)
(***************************************************************************)
EXTENDS Integers, Sequences, FiniteSets, FiniteSetsExt, Functions

CONSTANTS Files,       \* the source files
          Devices,     \* the mounted devices they are on
          Blocks,      \* the places of each device
          MaxExtents,  \* bound: the extents of a file
          MaxChanges   \* bound: what others do to the files meanwhile

(***************************************************************************)
(* What FIEMAP says of an extent.  "delalloc" and "lost" are flagged       *)
(* UNKNOWN, and only the first is given a place by a sync; "encoded"       *)
(* stands for the flags ENCODED and NOT_ALIGNED.                           *)
(***************************************************************************)
Placed == {"mapped", "unwritten"}
Unknown == {"delalloc", "lost"}
Kinds == Placed \cup Unknown \cup {"encoded"}

Nowhere == -1
FileExtent == [kind : Placed, block : Blocks]
                \cup [kind : Kinds \ Placed, block : {Nowhere}]

ASSUME LocatorAssumption == Nowhere \notin Blocks /\ MaxExtents \in Nat

\* What the locator answers with: an extent of a surface device, or a blank.
Blank == [surface |-> "zero", block |-> 0]
NoSurface == "device 0"

VARIABLES
    device,      \* the device each file is on
    substitute,  \* DeviceMap::substitute: the surfaces of some devices
    content,     \* the extents of each file, as the file system has them
    changes,     \* how often others changed a file
    had,         \* history: the places that ever were the file's
    touched,     \* history: the files that grew or shrank while being resolved
    unlisted,    \* history: the files counted as empty and listed as not
    pc, file, co,  \* where peek is, for which file, with which Correction
    count,       \* fm_extent_count of the second call
    buffer,      \* fm_extents: what the last call that listed left there
    mapped,      \* fm_mapped_extents
    extNo, xList, waitlog,
    answers      \* the lists resolve has returned

env == <<device, substitute, content, changes, had, touched>>
vars == <<env, unlisted, pc, file, co, count, buffer, mapped, extNo, xList,
          waitlog, answers>>

-----------------------------------------------------------------------------
(***************************************************************************)
(* The files, and those who write to them.                                 *)
(***************************************************************************)
PlacesOf(xs) == {xs[i].block : i \in DOMAIN xs} \ {Nowhere}
Free(d) == Blocks \ UNION {PlacesOf(content[f]) : f \in {g \in Files : device[g] = d}}
Waiting(f) == {i \in DOMAIN content[f] : content[f][i].kind = "delalloc"}

\* Everything of the file that waits for a place is given one.
Allocate(f) ==
    \E place \in Injection(Waiting(f), Free(device[f])) :
        LET xs == [i \in DOMAIN content[f] |->
                       IF i \in Waiting(f)
                       THEN [kind |-> "mapped", block |-> place[i]]
                       ELSE content[f][i]]
        IN /\ content' = [content EXCEPT ![f] = xs]
           /\ had' = [had EXCEPT ![f] = @ \cup PlacesOf(xs)]

Busy(f) == pc # "next" /\ f = file

Change(f) == /\ changes < MaxChanges
             /\ changes' = changes + 1
             /\ UNCHANGED <<device, substitute, unlisted, pc, file, co, count, buffer,
                            mapped, extNo, xList, waitlog, answers>>

\* The file is appended to; the kernel delays the allocation.
Grow(f) ==
    /\ Change(f)
    /\ Len(content[f]) < MaxExtents
    /\ content' = [content EXCEPT
                     ![f] = Append(@, [kind |-> "delalloc", block |-> Nowhere])]
    /\ touched' = IF Busy(f) THEN touched \cup {f} ELSE touched
    /\ UNCHANGED had

\* The file is emptied: its places may be given to another.
Truncate(f) ==
    /\ Change(f)
    /\ content[f] # << >>
    /\ content' = [content EXCEPT ![f] = << >>]
    /\ touched' = IF Busy(f) THEN touched \cup {f} ELSE touched
    /\ UNCHANGED had

\* The kernel writes the file back of its own accord.
Writeback(f) ==
    /\ Change(f)
    /\ Waiting(f) # {}
    /\ Allocate(f)
    /\ UNCHANGED touched

-----------------------------------------------------------------------------
(***************************************************************************)
(* surface: a device without a substitute is made an entry of the map,     *)
(* and so is device 0.                                                     *)
(***************************************************************************)
Surface(f) == IF device[f] \in DOMAIN substitute
              THEN substitute[device[f]]
              ELSE NoSurface

\* The constructor of the locator, and the files as they are found.
Init ==
    /\ device \in [Files -> Devices]
    /\ substitute \in UNION {Injection(ds, {"surface 1", "surface 2"}) :
                                 ds \in SUBSET Devices}
    /\ content \in [Files -> UNION {[1 .. n -> FileExtent] : n \in 0 .. MaxExtents}]
    /\ \A f, g \in Files : \A i \in DOMAIN content[f], j \in DOMAIN content[g] :
           /\ <<f, i>> # <<g, j>>
           /\ device[f] = device[g]
           /\ content[f][i].block = content[g][j].block
           => content[f][i].block = Nowhere
    /\ had = [f \in Files |-> PlacesOf(content[f])]
    /\ touched = {} /\ unlisted = {} /\ changes = 0
    /\ pc = "next" /\ file \in Files /\ co = "Naive"
    /\ count = 0 /\ buffer = << >> /\ mapped = 0 /\ extNo = 0
    /\ xList = << >> /\ waitlog = << >>
    /\ answers = << >>

\* resolve
Resolve(f) ==
    /\ pc = "next"
    /\ f \notin DOMAIN answers
    /\ pc' = "count" /\ file' = f /\ co' = "Naive"
    /\ touched' = touched \ {f}
    /\ UNCHANGED <<device, substitute, content, changes, had, unlisted, count, buffer,
                   mapped, extNo, xList, waitlog, answers>>

\* What FIEMAP does with the file before it looks: FIEMAP_FLAG_SYNC.
Synced == IF co = "Fsync" THEN Allocate(file) ELSE UNCHANGED <<content, had>>

\* The first call, with no room for extents: it tells their number only.
Count ==
    /\ pc = "count"
    /\ Synced
    /\ count' = Len(content[file])
    /\ pc' = "list"
    /\ UNCHANGED <<device, substitute, changes, touched, unlisted, file, co, buffer,
                   mapped, extNo, xList, waitlog, answers>>

\* Mutant of the definition below: the loop goes to fm_extent_count.
ToReadCounted(now) == count

\* What a call leaves in fm_mapped_extents, the bound of the loop.
ToRead(now) == IF count = 0 THEN Len(now) ELSE Min({count, Len(now)})

(***************************************************************************)
(* The second call.  With room for none it tells the number again, and     *)
(* leaves what the buffer has of an earlier file.                          *)
(***************************************************************************)
List ==
    /\ pc = "list"
    /\ Synced
    /\ LET now == content'[file]
           n == Min({count, Len(now)})
       IN /\ mapped' = ToRead(now)
          /\ buffer' = SubSeq(now, 1, n) \o SubSeq(buffer, n + 1, Len(buffer))
          /\ unlisted' = IF count = 0 /\ now # << >> THEN unlisted \cup {file}
                         ELSE unlisted
    /\ pc' = "read" /\ extNo' = 1
    /\ UNCHANGED <<device, substitute, changes, touched, file, co, count, xList, waitlog,
                   answers>>

\* peek returns what it has collected.
Return(list) ==
    /\ answers' = [f \in DOMAIN answers \cup {file} |->
                       IF f = file THEN list ELSE answers[f]]
    /\ pc' = "next"
    /\ count' = 0 /\ mapped' = 0 /\ extNo' = 0 /\ xList' = << >>

\* Either call fails: the list is empty, as that of an empty file.
IoctlFails ==
    /\ pc \in {"count", "list"}
    /\ Return(xList)
    /\ touched' = touched \cup {file}
    /\ UNCHANGED <<device, substitute, content, changes, had, unlisted, file, co, buffer,
                   waitlog>>

\* The memory past what was ever listed may hold anything.
Raw(n) == IF n \in DOMAIN buffer THEN {buffer[n]} ELSE FileExtent

AskAgain(raw) == raw.kind \in Unknown /\ co # "Fsync"
CantMap(raw) == raw.kind \in Unknown \cup {"encoded"}

\* Mutant of the definition below: the retry does not tell that it is one.
RetryAsBefore == pc' = "count" /\ xList' = << >> /\ UNCHANGED co

\* Mutant of the definition below: the retry goes on with the list it has.
RetryInto == co' = "Fsync" /\ pc' = "count" /\ UNCHANGED xList

\* The recursive call: a new list, the same waitlog.
Retry == co' = "Fsync" /\ pc' = "count" /\ xList' = << >>

Listed(raw) ==
    IF CantMap(raw) THEN Blank ELSE [surface |-> Surface(file), block |-> raw.block]

\* One turn of the loop over the extents.
Read ==
    /\ pc = "read"
    /\ extNo <= mapped
    /\ \E raw \in Raw(extNo) :
          IF AskAgain(raw)
          THEN /\ Retry
               /\ UNCHANGED <<extNo, waitlog>>
          ELSE /\ xList' = Append(xList, Listed(raw))
               /\ waitlog' = IF raw.kind = "unwritten" THEN Append(waitlog, file)
                             ELSE waitlog
               /\ extNo' = extNo + 1
               /\ UNCHANGED <<co, pc>>
    /\ UNCHANGED <<env, unlisted, file, count, buffer, mapped, answers>>

Finish ==
    /\ pc = "read"
    /\ extNo > mapped
    /\ Return(xList)
    /\ UNCHANGED <<env, unlisted, file, co, buffer, waitlog>>

Peek == Count \/ List \/ Read \/ Finish \/ IoctlFails
Locate == (\E f \in Files : Resolve(f)) \/ Peek
Disturb == \E f \in Files : Grow(f) \/ Truncate(f) \/ Writeback(f)

Next == Locate \/ Disturb

\* The planner runs on; nothing is assumed of those who write.
Spec == Init /\ [][Next]_vars /\ WF_vars(Locate)

-----------------------------------------------------------------------------
OfDisk(x) == x # Blank /\ x.surface # NoSurface

(***************************************************************************)
(* Whatever others do to the files meanwhile, an extent that is charted on *)
(* a surface is on that of the file's own device, and its place was the    *)
(* file's at some time: nothing of another file is shown under its name.   *)
(* It says nothing of the files that had no extents when they were         *)
(* counted and had some when they were listed (see NothingForeignAtAll).   *)
(***************************************************************************)
Foreign(f) == {i \in DOMAIN answers[f] :
                  /\ OfDisk(answers[f][i])
                  /\ \/ device[f] \notin DOMAIN substitute
                     \/ answers[f][i].surface # substitute[device[f]]
                     \/ answers[f][i].block \notin had[f]}

NothingForeign == \A f \in DOMAIN answers \ unlisted : Foreign(f) = {}

\* The same of every file: it fails, as the invariant of ExtentLocator.cfg.
NothingForeignAtAll == \A f \in DOMAIN answers : Foreign(f) = {}

(***************************************************************************)
(* If nobody adds to the file or empties it while it is being resolved,    *)
(* and no call fails, the list has one extent for each of the file's, in   *)
(* order, and each is the place of that extent, or a blank if that could   *)
(* not be mapped, however often the file was asked for.                    *)
(***************************************************************************)
Complete ==
    \A f \in {file} \ touched :
        pc = "read" /\ extNo > mapped =>
            /\ Len(xList) = Len(content[f])
            /\ \A i \in DOMAIN xList :
                   IF content[f][i].kind \in Placed
                   THEN xList[i] = [surface |-> Surface(f), block |-> content[f][i].block]
                   ELSE xList[i] = Blank

(***************************************************************************)
(* Every file is answered for in the end: an extent without a place makes  *)
(* the locator ask again once, and not for ever.                           *)
(***************************************************************************)
Answered == \A f \in Files : <>(f \in DOMAIN answers)
=============================================================================
