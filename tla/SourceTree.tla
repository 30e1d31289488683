----------------------------- MODULE SourceTree ------------------------------
(***************************************************************************)
(* The crawl of the source tree: main of fsview_mkfs.cpp, Hierarchy and    *)
(* its entries (impl/source.cpp), Original (impl/volume.cpp) and the limit *)
(* of descriptors (impl/rlimit.cpp).                                       *)
(*                                                                         *)
(* A folder is read and its entries are opened one by one, a subfolder at  *)
(* once to the end; a folder is closed when it has been read, a file stays *)
(* open as long as the daemon lives.  The recursion of traverse is the     *)
(* stack of the folders being read.  Others create, remove and rename      *)
(* entries all the while, between any two system calls.                    *)
(***************************************************************************)
EXTENDS Integers, Sequences, FiniteSets, SequencesExt

CONSTANTS Inodes, KindOf,  \* what there is on the source, and "file", "dir" or "other"
          Top,             \* the inode of the first path of the command line
          Names,           \* the names entries have
          Found,           \* the links that are there at first
          Creatable,       \* those that others may make
          Barred,          \* the inodes that may not be opened
          Excluded,        \* the names the patterns of --exclude match
          Extras,          \* the further paths of the command line
          Limits,          \* the limits of descriptors there may be
          Used,            \* the descriptors open before the crawl
          MaxChanges       \* bound: what others do meanwhile

Link == [dir : Inodes, name : Names, ino : Inodes]

ASSUME SourceAssumption ==
    /\ KindOf \in [Inodes -> {"file", "dir", "other"}]
    /\ Top \in Inodes
    /\ Found \subseteq Link /\ Creatable \subseteq Link
    /\ \A l, m \in Found : l.dir = m.dir /\ l.name = m.name => l = m
    /\ Names \cap (Inodes \X Names) = {}   \* the further paths have a slash
    /\ Extras \in Seq([dir : Inodes, name : Names])
    /\ Used \in Nat /\ MaxChanges \in Nat

VARIABLES
    disk, changes,        \* the links there are, and how often they changed
    kept,                 \* history: the links that were there all the while
    refused,              \* history: the links that could not be opened
    limit, fds,           \* of descriptors: how many are allowed, and open
    entries,              \* the entries, in the order they were placed
    children,             \* PathEntry::entries
    pathTable, fileTable,
    stack,                \* the folders being read
    pending,              \* the entry placeChild is about to open, if any
    args,                 \* the paths of the command line that are left
    pc

tree == <<entries, children, pathTable, fileTable>>
vars == <<disk, changes, kept, refused, limit, fds, tree, stack, pending, args, pc>>

-----------------------------------------------------------------------------
(***************************************************************************)
(* Others, and what is external: directory streams and descriptors.        *)
(***************************************************************************)
Links(dir) == {l \in disk : l.dir = dir}
At(dir, name) == {l \in disk : l.dir = dir /\ l.name = name}

Others == /\ changes < MaxChanges /\ pc # "done"
          /\ changes' = changes + 1
          /\ UNCHANGED <<refused, limit, fds, tree, stack, pending, args, pc>>

Create(l) ==
    /\ Others
    /\ At(l.dir, l.name) = {}
    /\ KindOf[l.ino] = "dir" => \A other \in disk : other.ino # l.ino
    /\ disk' = disk \cup {l}
    /\ UNCHANGED kept

Unlink(l) ==
    /\ Others
    /\ disk' = disk \ {l}
    /\ kept' = kept \ {l}

\* A descriptor can be had for what has the name now.  Only a folder is
\* asked for as one (O_DIRECTORY); sockets and pipes are not opened.
Opens(l, kind) ==
    /\ l.ino \notin Barred
    /\ KindOf[l.ino] # "other"
    /\ kind = "dir" => KindOf[l.ino] = "dir"
    /\ fds < limit

-----------------------------------------------------------------------------
(***************************************************************************)
(* RaiseFdLimit.  Without the privilege neither limit can pass the hard    *)
(* one, with it the kernel's own; what comes of the call is not looked at. *)
(***************************************************************************)
Raised(l) == IF /\ l.fileMax > l.cur
                /\ l.fileMax <= IF l.privileged THEN l.nrOpen ELSE l.hard
             THEN l.fileMax
             ELSE l.cur

RaiseFdLimit ==
    /\ pc = "raise"
    /\ \E l \in Limits : limit' = Raised(l)
    /\ pc' = "root"
    /\ UNCHANGED <<disk, changes, kept, refused, fds, tree, stack, pending, args>>

\* --crawl: the limit stays as it is.
KeepFdLimit ==
    /\ pc = "raise"
    /\ \E l \in Limits : limit' = l.cur
    /\ pc' = "root"
    /\ UNCHANGED <<disk, changes, kept, refused, fds, tree, stack, pending, args>>

-----------------------------------------------------------------------------
(***************************************************************************)
(* Placing an entry.                                                       *)
(***************************************************************************)
Init ==
    /\ disk = Found /\ kept = Found /\ changes = 0
    /\ refused = {}
    /\ limit = 0 /\ fds = Used
    /\ entries = << >> /\ children = << >>
    /\ pathTable = << >> /\ fileTable = << >>
    /\ stack = << >> /\ pending = {}
    /\ args = Extras
    /\ pc = "raise"

\* onFolder: the folder is listed, and is read before anything else.
OnFolder(e, ino) ==
    /\ pathTable' = Append(pathTable, e)
    /\ stack' = Append(stack, [entry |-> e, ino |-> ino, batch |-> {}, given |-> {}])
    /\ UNCHANGED fileTable

\* onFileFd: the descriptor is not closed.
OnFileFd(e) ==
    /\ fileTable' = Append(fileTable, e)
    /\ UNCHANGED <<pathTable, stack>>

(***************************************************************************)
(* PlaceEntry, once the entry could be opened: it is put among those of    *)
(* its parent, if it has one, and activated.                               *)
(***************************************************************************)
PlaceEntry(kind, parent, name, ino) ==
    LET e == Len(entries) + 1
    IN /\ fds' = fds + 1
       /\ entries' = Append(entries, [kind |-> kind, parent |-> parent,
                                      name |-> name, ino |-> ino])
       /\ children' = [i \in 1 .. e |->
                           IF i = e THEN << >>
                           ELSE IF i = parent THEN Append(children[i], e)
                           ELSE children[i]]
       /\ IF kind = "dir" THEN OnFolder(e, ino) ELSE OnFileFd(e)

\* openRoot.  If the first path is no folder that can be opened the root is
\* in no table, and the further paths are put below it nevertheless.
OpenRoot ==
    /\ pc = "root"
    /\ IF Opens([ino |-> Top], "dir")
       THEN PlaceEntry("dir", 0, "/", Top)
       ELSE /\ entries' = <<[kind |-> "dir", parent |-> 0, name |-> "/", ino |-> Top]>>
            /\ children' = <<<< >>>>
            /\ UNCHANGED <<fds, pathTable, fileTable, stack>>
    /\ pc' = "crawl"
    /\ UNCHANGED <<disk, changes, kept, refused, limit, pending, args>>

\* appendFile, appendPath, insertFile, insertPath: placeChild.
PlaceChild ==
    \E p \in pending : \E l \in At(p.dir, p.name) :
        /\ Opens(l, p.kind)
        /\ PlaceEntry(p.kind, p.parent, p.called, l.ino)
        /\ pending' = {}
        /\ UNCHANGED <<disk, changes, kept, refused, limit, args, pc>>

\* Mutant of the definition below: the descriptor of an entry that was not
\* placed is not closed with it.
ChildRefusedOpen ==
    \E p \in pending :
        /\ \/ ~\E l \in At(p.dir, p.name) : Opens(l, p.kind)
           \/ p.kind = "dir"
        /\ refused' = refused \cup At(p.dir, p.name)
        /\ fds' = IF \E l \in At(p.dir, p.name) : Opens(l, p.kind) THEN fds + 1 ELSE fds
        /\ pending' = {}
        /\ UNCHANGED <<disk, changes, kept, limit, tree, stack, args, pc>>

(***************************************************************************)
(* offerFd fails: nothing has the name any more, or it cannot be opened,   *)
(* or no stream can be had for the folder.  The entry goes as if it had    *)
(* not been, and closes its descriptor if it had one.                      *)
(***************************************************************************)
ChildRefused ==
    \E p \in pending :
        /\ \/ ~\E l \in At(p.dir, p.name) : Opens(l, p.kind)
           \/ p.kind = "dir"
        /\ refused' = refused \cup At(p.dir, p.name)
        /\ pending' = {}
        /\ UNCHANGED <<disk, changes, kept, limit, fds, tree, stack, args, pc>>

-----------------------------------------------------------------------------
(***************************************************************************)
(* traverse.                                                               *)
(***************************************************************************)
Folder == stack[Len(stack)]
WithTop(f) == [stack EXCEPT ![Len(stack)] = f]
Reading == pc = "crawl" /\ stack # << >> /\ pending = {}
Ahead == {l \in Links(Folder.ino) : l.name \notin Folder.given}

\* External: the stream is refilled with some of the entries it has not had.
\* What it holds may have been removed or replaced when it is returned.
Refill ==
    /\ Reading /\ Folder.batch = {}
    /\ \E ls \in (SUBSET Ahead) \ {{}} :
          stack' = WithTop([Folder EXCEPT !.batch = ls,
                                          !.given = @ \cup {l.name : l \in ls}])
    /\ UNCHANGED <<disk, changes, kept, refused, limit, fds, tree, pending, args, pc>>

UseEntry(l) == l.name \notin Excluded

\* One turn of the loop: what is neither a file nor a folder is passed over.
Readdir ==
    /\ Reading
    /\ \E l \in Folder.batch :
          /\ stack' = WithTop([Folder EXCEPT !.batch = @ \ {l}])
          /\ pending' = IF UseEntry(l) /\ KindOf[l.ino] \in {"file", "dir"}
                        THEN {[kind |-> KindOf[l.ino], parent |-> Folder.entry,
                               dir |-> l.dir, name |-> l.name, called |-> l.name]}
                        ELSE {}
    /\ UNCHANGED <<disk, changes, kept, refused, limit, fds, tree, args, pc>>

\* Mutant of the definition below: what was read at once is taken for all.
CloseFdEarly ==
    /\ Reading
    /\ Folder.batch = {} /\ (Folder.given # {} \/ Ahead = {})
    /\ stack' = Front(stack)
    /\ fds' = fds - 1
    /\ UNCHANGED <<disk, changes, kept, refused, limit, tree, pending, args, pc>>

\* The end of the folder: onFolder closes it and goes back to the parent.
CloseFd ==
    /\ Reading
    /\ Folder.batch = {} /\ Ahead = {}
    /\ stack' = Front(stack)
    /\ fds' = fds - 1
    /\ UNCHANGED <<disk, changes, kept, refused, limit, tree, pending, args, pc>>

\* insertStat, for each further path: what it is now is looked up first.  Its
\* name in the tree is the whole path.
InsertStat ==
    /\ pc = "crawl" /\ stack = << >> /\ pending = {}
    /\ args # << >>
    /\ args' = Tail(args)
    /\ pending' = {[kind |-> KindOf[l.ino], parent |-> 1, dir |-> l.dir, name |-> l.name,
                     called |-> <<l.dir, l.name>>] :
                     l \in {m \in At(Head(args).dir, Head(args).name) :
                              KindOf[m.ino] \in {"file", "dir"}}}
    /\ UNCHANGED <<disk, changes, kept, refused, limit, fds, tree, stack, pc>>

Crawled ==
    /\ pc = "crawl" /\ stack = << >> /\ pending = {} /\ args = << >>
    /\ pc' = "done"
    /\ UNCHANGED <<disk, changes, kept, refused, limit, fds, tree, stack, pending, args>>

Crawl == \/ RaiseFdLimit \/ KeepFdLimit \/ OpenRoot
         \/ PlaceChild \/ ChildRefused
         \/ Refill \/ Readdir \/ CloseFd
         \/ InsertStat \/ Crawled

Disturb == (\E l \in Creatable : Create(l)) \/ (\E l \in disk : Unlink(l))

Next == Crawl \/ Disturb

Spec == Init /\ [][Next]_vars

-----------------------------------------------------------------------------
(***************************************************************************)
(* "fsview_mkfs daemon needs to hold the fds of all the exposed files"     *)
(* (rlimit.h): the descriptors that are open are those of the files in     *)
(* the table and of the folders being read, one each, whatever could not   *)
(* be opened in between.                                                   *)
(***************************************************************************)
Held == fds = Used + Len(fileTable) + Len(stack)

(***************************************************************************)
(* At the end, an entry that was in place all the while is once among      *)
(* those of each folder that was read for the one it is in, and once in    *)
(* the table of its kind, with the folder listed before it, unless it      *)
(* could not be opened: what others do to its neighbours, and how many     *)
(* entries the stream returns at a time, makes no difference.              *)
(***************************************************************************)
Supported(l) == UseEntry(l) /\ KindOf[l.ino] \in {"file", "dir"}
Occurs(e, s) == Cardinality({k \in DOMAIN s : s[k] = e})

PlacedOnce(l, p) ==
    \E e \in DOMAIN entries :
        /\ e > p
        /\ {i \in DOMAIN entries : /\ entries[i].parent = p
                                   /\ entries[i].name = l.name} = {e}
        /\ entries[e] = [kind |-> KindOf[l.ino], parent |-> p, name |-> l.name,
                         ino |-> l.ino]
        /\ Occurs(e, children[p]) = 1
        /\ Occurs(e, IF KindOf[l.ino] = "dir" THEN pathTable ELSE fileTable) = 1

Complete ==
    pc = "done" =>
        \A p \in Range(pathTable), l \in kept \ refused :
            l.dir = entries[p].ino /\ Supported(l) => PlacedOnce(l, p)

(***************************************************************************)
(* What the volumes rely on: a folder is listed after the one it is in,    *)
(* if that is listed.  Only a root that could not be opened is not.        *)
(***************************************************************************)
ListedBefore(k, e) == \E j \in DOMAIN pathTable : j < k /\ pathTable[j] = e

UpAhead(k, up) == \/ up = 0
                  \/ ListedBefore(k, up)
                  \/ up = 1 /\ 1 \notin Range(pathTable)

ParentsFirst ==
    \A k \in DOMAIN pathTable : UpAhead(k, entries[pathTable[k]].parent)

(***************************************************************************)
(* "A callback to process a regular file entry" (source.h): it fails when  *)
(* the file is replaced by a folder between readdir and openat, for a file *)
(* is not asked for as one.  (Try it as the invariant of SourceTree.cfg.)  *)
(***************************************************************************)
RegularFiles == \A e \in Range(fileTable) : KindOf[entries[e].ino] = "file"
=============================================================================
