--------------------------- MODULE SourceTree_proof --------------------------
(***************************************************************************)
(* Proofs about SourceTree, for any source tree, any limit of descriptors  *)
(* and any number of changes by others.  The folders on the stack, and the *)
(* one an entry is about to be placed in, are entries that are listed.     *)
(***************************************************************************)
EXTENDS SourceTree, SequenceTheorems, FiniteSetTheorems, TLAPS

Called == Names \cup {"/"} \cup (Inodes \X Names)
Kind == {"file", "dir"}
Entry == [kind : Kind, parent : Nat, name : Called, ino : Inodes]
Frame == [entry : Nat, ino : Inodes, batch : SUBSET Link, given : SUBSET Names]
Pending == [kind : Kind, parent : Nat, dir : Inodes, name : Names, called : Called]

Typed ==
    /\ disk \subseteq Link
    /\ entries \in Seq(Entry)
    /\ pathTable \in Seq(Nat) /\ fileTable \in Seq(Nat)
    /\ stack \in Seq(Frame)
    /\ pending \subseteq Pending

Listed(e) == \E j \in DOMAIN pathTable : pathTable[j] = e

Begun == IF pc \in {"raise", "root"}
         THEN entries = << >> /\ pathTable = << >> /\ pending = {}
         ELSE entries # << >>

Known ==
    /\ \A k \in DOMAIN pathTable : pathTable[k] \in DOMAIN entries
    /\ \A n \in DOMAIN stack : Listed(stack[n].entry)
    /\ \A p \in pending : Listed(p.parent) \/ p.parent = 1

IInv == Typed /\ Held /\ Begun /\ Known /\ ParentsFirst

LEMMA InitIInv == Init => IInv
<1> SUFFICES ASSUME Init PROVE IInv
  OBVIOUS
<1> USE SourceAssumption DEF Init
<1>1. Typed
  BY DEF Typed
<1>2. Held
  BY DEF Held
<1>3. Begun /\ Known /\ ParentsFirst
  BY DEF Begun, Known, ParentsFirst
<1> QED
  BY <1>1, <1>2, <1>3 DEF IInv

(***************************************************************************)
(* Placing an entry: the one new entry is the last, and it is listed, if   *)
(* it is a folder, behind its parent.                                      *)
(***************************************************************************)
LEMMA PlaceStep ==
    ASSUME IInv, NEW kind \in Kind, NEW parent \in Nat, NEW name \in Called,
           NEW ino \in Inodes, PlaceEntry(kind, parent, name, ino),
           \/ parent = 0 /\ entries = << >>
           \/ entries # << >> /\ (Listed(parent) \/ parent = 1)
    PROVE  /\ entries' \in Seq(Entry) /\ entries' # << >>
           /\ pathTable' \in Seq(Nat) /\ fileTable' \in Seq(Nat)
           /\ stack' \in Seq(Frame)
           /\ Held' /\ ParentsFirst'
           /\ \A k \in DOMAIN pathTable' : pathTable'[k] \in DOMAIN entries'
           /\ \A n \in DOMAIN stack' : Listed(stack[n].entry)'
           /\ \A e : Listed(e) => Listed(e)'
<1> DEFINE e == Len(entries) + 1
           new == [kind |-> kind, parent |-> parent, name |-> name, ino |-> ino]
           frame == [entry |-> e, ino |-> ino, batch |-> {}, given |-> {}]
<1>1. Typed
  BY DEF IInv
<1>2. /\ fds' = fds + 1
      /\ entries' = Append(entries, new)
      /\ IF kind = "dir" THEN OnFolder(e, ino) ELSE OnFileFd(e)
  BY DEF PlaceEntry
<1>3. new \in Entry /\ frame \in Frame /\ e \in Nat
  BY <1>1 DEF Entry, Frame, Typed
<1>4. /\ entries' \in Seq(Entry) /\ entries' # << >>
      /\ DOMAIN entries' = 1 .. e
      /\ entries'[e] = new
      /\ \A i \in DOMAIN entries : entries'[i] = entries[i] /\ i \in 1 .. e /\ i # e
  BY <1>1, <1>2, <1>3 DEF Typed
<1>5. Used \in Nat
  BY SourceAssumption
<1>6. Known /\ ParentsFirst /\ Held
  BY DEF IInv
<1>7. CASE kind = "dir"
  <2>1. /\ pathTable' = Append(pathTable, e)
        /\ stack' = Append(stack, frame)
        /\ fileTable' = fileTable
    BY <1>2, <1>7 DEF OnFolder
  <2>2. /\ pathTable' \in Seq(Nat)
        /\ DOMAIN pathTable' = 1 .. Len(pathTable) + 1
        /\ pathTable'[Len(pathTable) + 1] = e
        /\ \A k \in DOMAIN pathTable : pathTable'[k] = pathTable[k] /\ k \in DOMAIN pathTable'
        /\ \A k \in DOMAIN pathTable' : k # Len(pathTable) + 1 => k \in DOMAIN pathTable
    BY <2>1, <1>1, <1>3, SMTT(30) DEF Typed
  <2>3. /\ stack' \in Seq(Frame) /\ Len(stack') = Len(stack) + 1
        /\ \A n \in DOMAIN stack' : stack'[n] = frame \/ (n \in DOMAIN stack /\ stack'[n] = stack[n])
    BY <2>1, <1>1, <1>3 DEF Typed
  <2>4. Held'
    BY <2>1, <2>3, <1>1, <1>2, <1>5, <1>6 DEF Held, Typed
  <2>5. ASSUME NEW x, Listed(x) PROVE Listed(x)'
    BY <2>5, <2>2 DEF Listed
  <2>6. ASSUME NEW n \in DOMAIN stack' PROVE Listed(stack[n].entry)'
    <3>1. CASE stack'[n] = frame
      <4>1. Len(pathTable) + 1 \in DOMAIN pathTable' /\ stack'[n].entry = e
        BY <3>1, <2>2, <1>1 DEF Typed
      <4> QED
        BY <4>1, <2>2 DEF Listed
    <3>2. CASE n \in DOMAIN stack /\ stack'[n] = stack[n]
      BY <3>2, <2>5, <1>6 DEF Known
    <3> QED
      BY <3>1, <3>2, <2>3
  <2>7. ASSUME NEW k \in DOMAIN pathTable' PROVE pathTable'[k] \in DOMAIN entries'
    BY <2>2, <1>4, <1>6, <1>3 DEF Known
  <2>8. ASSUME NEW k \in DOMAIN pathTable'
        PROVE  UpAhead(k, entries[pathTable[k]].parent)'
    <3>1. Range(pathTable') = Range(pathTable) \cup {e}
      BY <2>2 DEF Range
    <3>2. CASE k # Len(pathTable) + 1
      <4>1. k \in DOMAIN pathTable /\ pathTable'[k] = pathTable[k]
        BY <3>2, <2>2
      <4>2. entries'[pathTable'[k]] = entries[pathTable[k]] /\ entries # << >>
        BY <4>1, <1>4, <1>6, <1>1 DEF Known, Typed
      <4>3. ASSUME NEW up, ListedBefore(k, up) PROVE ListedBefore(k, up)'
        BY <4>3, <2>2 DEF ListedBefore
      <4>4. e # 1
        BY <4>2, <1>1 DEF Typed
      <4> QED
        BY <4>1, <4>2, <4>3, <4>4, <3>1, <1>6 DEF ParentsFirst, UpAhead
    <3>3. CASE k = Len(pathTable) + 1
      <4>1. entries'[pathTable'[k]].parent = parent
        BY <3>3, <2>2, <1>4
      <4>2. CASE parent = 0
        BY <4>1, <4>2 DEF UpAhead
      <4>3. CASE Listed(parent)
        <5>1. ListedBefore(k, parent)'
          BY <4>3, <3>3, <2>2, <1>1 DEF Listed, ListedBefore, Typed
        <5> QED
          BY <5>1, <4>1 DEF UpAhead
      <4>4. CASE entries # << >> /\ parent = 1 /\ ~Listed(1)
        <5>1. e # 1 /\ 1 \notin Range(pathTable)
          BY <4>4, <1>1 DEF Typed, Listed, Range
        <5> QED
          BY <5>1, <4>1, <4>4, <3>1 DEF UpAhead
      <4> QED
        BY <4>2, <4>3, <4>4
    <3> QED
      BY <3>2, <3>3
  <2>9. ParentsFirst'
    BY <2>8 DEF ParentsFirst
  <2> QED
    BY <2>1, <2>2, <2>3, <2>4, <2>5, <2>6, <2>7, <2>9, <1>1, <1>4 DEF Typed
<1>8. CASE kind # "dir"
  <2>1. fileTable' = Append(fileTable, e) /\ pathTable' = pathTable /\ stack' = stack
    BY <1>2, <1>8 DEF OnFileFd
  <2>2. fileTable' \in Seq(Nat) /\ Len(fileTable') = Len(fileTable) + 1
    BY <2>1, <1>1, <1>3 DEF Typed
  <2>3. Held'
    BY <2>1, <2>2, <1>1, <1>2, <1>5, <1>6 DEF Held, Typed
  <2>4. ASSUME NEW x, Listed(x) PROVE Listed(x)'
    BY <2>4, <2>1 DEF Listed
  <2>5. ASSUME NEW n \in DOMAIN stack' PROVE Listed(stack[n].entry)'
    BY <2>1, <1>6 DEF Known, Listed
  <2>6. ASSUME NEW k \in DOMAIN pathTable' PROVE pathTable'[k] \in DOMAIN entries'
    BY <2>1, <1>4, <1>6 DEF Known
  <2>7. ASSUME NEW k \in DOMAIN pathTable PROVE entries'[pathTable[k]] = entries[pathTable[k]]
    BY <1>4, <1>6 DEF Known
  <2>8. ParentsFirst'
    BY <2>1, <2>7, <1>6 DEF ParentsFirst, UpAhead, ListedBefore
  <2> QED
    BY <2>1, <2>2, <2>3, <2>4, <2>5, <2>6, <2>8, <1>1, <1>4 DEF Typed
<1> QED
  BY <1>7, <1>8

\* A step that leaves the tree and the stack alone.
LEMMA SameTree ==
    ASSUME IInv, UNCHANGED <<fds, tree, stack>>
    PROVE  /\ Held' /\ ParentsFirst'
           /\ entries' \in Seq(Entry)
           /\ pathTable' \in Seq(Nat) /\ fileTable' \in Seq(Nat) /\ stack' \in Seq(Frame)
           /\ \A k \in DOMAIN pathTable' : pathTable'[k] \in DOMAIN entries'
           /\ \A n \in DOMAIN stack' : Listed(stack[n].entry)'
           /\ \A x : Listed(x) => Listed(x)'
BY DEF IInv, Held, ParentsFirst, UpAhead, ListedBefore, Typed, Known, Listed, tree

LEMMA RaiseIInv == IInv /\ (RaiseFdLimit \/ KeepFdLimit) => IInv'
<1> SUFFICES ASSUME IInv, RaiseFdLimit \/ KeepFdLimit PROVE IInv'
  OBVIOUS
<1>1. /\ UNCHANGED <<disk, fds, tree, stack, pending>>
      /\ pc \in {"raise", "root"} /\ pc' \in {"raise", "root"}
  BY DEF RaiseFdLimit, KeepFdLimit
<1> QED
  BY <1>1, SameTree DEF IInv, Typed, Begun, Known, tree

LEMMA OpenRootIInv == IInv /\ OpenRoot => IInv'
<1> SUFFICES ASSUME IInv, OpenRoot PROVE IInv'
  OBVIOUS
<1>1. /\ entries = << >> /\ pathTable = << >> /\ pending = {} /\ disk \subseteq Link
      /\ disk' = disk /\ pending' = {} /\ pc' = "crawl"
  BY DEF IInv, Begun, Typed, OpenRoot
<1>2. CASE PlaceEntry("dir", 0, "/", Top)
  <2>1. Top \in Inodes /\ "dir" \in Kind /\ "/" \in Called
    BY SourceAssumption DEF Kind, Called
  <2>2. /\ entries' \in Seq(Entry) /\ entries' # << >>
        /\ pathTable' \in Seq(Nat) /\ fileTable' \in Seq(Nat)
        /\ stack' \in Seq(Frame)
        /\ Held' /\ ParentsFirst'
        /\ \A k \in DOMAIN pathTable' : pathTable'[k] \in DOMAIN entries'
        /\ \A n \in DOMAIN stack' : Listed(stack[n].entry)'
    BY <1>1, <1>2, <2>1, PlaceStep
  <2> QED
    BY <1>1, <2>2 DEF IInv, Typed, Begun, Known
<1>3. CASE /\ entries' = <<[kind |-> "dir", parent |-> 0, name |-> "/", ino |-> Top]>>
           /\ UNCHANGED <<fds, pathTable, fileTable, stack>>
  <2>1. Held' /\ Known'
    BY <1>1, <1>3 DEF IInv, Held, Known, Listed
  <2>2. ParentsFirst'
    BY <1>1, <1>3 DEF ParentsFirst
  <2>3. Typed' /\ Begun'
    BY <1>1, <1>3, SourceAssumption DEF IInv, Typed, Begun, Entry, Kind, Called
  <2> QED
    BY <2>1, <2>2, <2>3 DEF IInv
<1> QED
  BY <1>2, <1>3 DEF OpenRoot

LEMMA PlaceChildIInv == IInv /\ PlaceChild => IInv'
<1> SUFFICES ASSUME IInv, PlaceChild PROVE IInv'
  OBVIOUS
<1>0. PICK p \in pending :
          \E l \in At(p.dir, p.name) : PlaceEntry(p.kind, p.parent, p.called, l.ino)
  BY DEF PlaceChild
<1>1. PICK l \in At(p.dir, p.name) : PlaceEntry(p.kind, p.parent, p.called, l.ino)
  BY <1>0
<1>2. /\ p \in Pending /\ l \in Link /\ disk \subseteq Link
      /\ pending' = {} /\ disk' = disk /\ pc' = pc
  BY <1>1 DEF IInv, Typed, PlaceChild, At
<1>3. /\ p.kind \in Kind /\ p.parent \in Nat /\ p.called \in Called /\ l.ino \in Inodes
      /\ entries # << >> /\ (Listed(p.parent) \/ p.parent = 1)
      /\ pc \notin {"raise", "root"}
  BY <1>1, <1>2 DEF Pending, Link, IInv, Begun, Known
<1> QED
  BY <1>1, <1>2, <1>3, PlaceStep DEF IInv, Typed, Begun, Known

LEMMA RefusedIInv == IInv /\ ChildRefused => IInv'
<1> SUFFICES ASSUME IInv, ChildRefused PROVE IInv'
  OBVIOUS
<1>1. UNCHANGED <<disk, fds, tree, stack, pc>> /\ pending' = {}
  BY DEF ChildRefused
<1> QED
  BY <1>1, SameTree DEF IInv, Typed, Begun, Known, tree

\* The top of the stack, whatever else is put into its frame.
LEMMA FrameStep ==
    ASSUME IInv, stack # << >>, NEW f \in Frame, f.entry = Folder.entry,
           stack' = [stack EXCEPT ![Len(stack)] = f], UNCHANGED <<fds, tree>>
    PROVE  /\ Held' /\ ParentsFirst'
           /\ stack' \in Seq(Frame)
           /\ \A n \in DOMAIN stack' : Listed(stack[n].entry)'
           /\ \A x : Listed(x) => Listed(x)'
<1>1. Typed /\ Held /\ Known /\ ParentsFirst
  BY DEF IInv
<1>2. /\ stack' \in Seq(Frame) /\ Len(stack') = Len(stack)
      /\ \A n \in DOMAIN stack' : n \in DOMAIN stack /\ stack'[n].entry = stack[n].entry
  BY <1>1 DEF Typed, Folder
<1>3. Held' /\ ParentsFirst'
  BY <1>1, <1>2 DEF Held, ParentsFirst, UpAhead, ListedBefore, tree
<1>4. \A x : Listed(x) => Listed(x)'
  BY DEF Listed, tree
<1>5. \A n \in DOMAIN stack' : Listed(stack[n].entry)'
  BY <1>1, <1>2, <1>4 DEF Known
<1> QED
  BY <1>2, <1>3, <1>4, <1>5

LEMMA FolderTyped ==
    ASSUME IInv, Reading
    PROVE  /\ stack # << >> /\ pc = "crawl" /\ pending = {}
           /\ Folder \in Frame /\ Listed(Folder.entry)
           /\ stack \in Seq(Frame) /\ disk \subseteq Link /\ Len(stack) \in DOMAIN stack
BY DEF IInv, Reading, Typed, Known, Folder

LEMMA RefillIInv == IInv /\ Refill => IInv'
<1> SUFFICES ASSUME IInv, Refill PROVE IInv'
  OBVIOUS
<1>1. PICK ls \in (SUBSET Ahead) \ {{}} :
          stack' = WithTop([Folder EXCEPT !.batch = ls,
                                          !.given = @ \cup {l.name : l \in ls}])
  BY DEF Refill
<1>2. Reading /\ UNCHANGED <<disk, fds, tree, pending, pc>>
  BY DEF Refill
<1> DEFINE f == [Folder EXCEPT !.batch = ls, !.given = @ \cup {l.name : l \in ls}]
<1>3. ls \subseteq Link /\ {l.name : l \in ls} \subseteq Names
  BY <1>1, <1>2, FolderTyped DEF Ahead, Links, Link
<1>4. f \in Frame /\ f.entry = Folder.entry
  BY <1>2, <1>3, FolderTyped DEF Frame
<1>5. stack' = [stack EXCEPT ![Len(stack)] = f]
  BY <1>1 DEF WithTop
<1> QED
  BY <1>2, <1>4, <1>5, FrameStep, FolderTyped DEF IInv, Typed, Begun, Known, tree

LEMMA ReaddirIInv == IInv /\ Readdir => IInv'
<1> SUFFICES ASSUME IInv, Readdir PROVE IInv'
  OBVIOUS
<1>1. Reading /\ UNCHANGED <<disk, fds, tree, pc>>
  BY DEF Readdir
<1>2. PICK l \in Folder.batch :
          /\ stack' = WithTop([Folder EXCEPT !.batch = @ \ {l}])
          /\ pending' \subseteq {[kind |-> KindOf[l.ino], parent |-> Folder.entry,
                                  dir |-> l.dir, name |-> l.name, called |-> l.name]}
          /\ pending' # {} => KindOf[l.ino] \in Kind
  BY DEF Readdir, Kind
<1> DEFINE f == [Folder EXCEPT !.batch = @ \ {l}]
<1>3. f \in Frame /\ f.entry = Folder.entry /\ l \in Link /\ Folder.entry \in Nat
  BY <1>1, FolderTyped DEF Frame
<1>4. stack' = [stack EXCEPT ![Len(stack)] = f]
  BY <1>2 DEF WithTop
<1>5. pending' \subseteq Pending /\ \A p \in pending' : p.parent = Folder.entry
  BY <1>2, <1>3 DEF Pending, Link, Called
<1>6. \A p \in pending' : Listed(p.parent)'
  BY <1>1, <1>5, FolderTyped DEF Listed, tree
<1> QED
  BY <1>1, <1>3, <1>4, <1>5, <1>6, FrameStep, FolderTyped DEF IInv, Typed, Begun, Known, tree

\* All but the last element of a sequence.
LEMMA FrontStep ==
    ASSUME NEW S, NEW s \in Seq(S), s # << >>
    PROVE  LET t == SubSeq(s, 1, Len(s) - 1)
           IN  /\ t \in Seq(S) /\ Len(t) = Len(s) - 1
               /\ \A i \in DOMAIN t : i \in DOMAIN s /\ t[i] = s[i]
<1> DEFINE n == Len(s) - 1
           t == SubSeq(s, 1, n)
<1>1. n \in Nat /\ (\A i \in 1 .. n : s[i] \in S) /\ DOMAIN s = 1 .. n + 1
  OBVIOUS
<1> HIDE DEF n
<1>2. /\ t \in Seq(S)
      /\ Len(t) = IF 1 <= n THEN n - 1 + 1 ELSE 0
      /\ \A i \in 1 .. n - 1 + 1 : t[i] = s[1 + i - 1]
  <2>1. 1 \in Int /\ n \in Int
    BY <1>1
  <2> QED
    BY <1>1, <2>1, SubSeqProperties
<1>3. Len(t) = n /\ DOMAIN t = 1 .. n /\ \A i \in 1 .. n : t[i] = s[i]
  BY <1>1, <1>2
<1> QED
  BY <1>1, <1>2, <1>3 DEF n

LEMMA CloseIInv == IInv /\ CloseFd => IInv'
<1> SUFFICES ASSUME IInv, CloseFd PROVE IInv'
  OBVIOUS
<1>1. /\ Reading /\ stack' = Front(stack) /\ fds' = fds - 1
      /\ UNCHANGED <<disk, tree, pending, pc>>
  BY DEF CloseFd
<1>2. /\ stack' \in Seq(Frame) /\ Len(stack') = Len(stack) - 1
      /\ \A n \in DOMAIN stack' : n \in DOMAIN stack /\ stack'[n] = stack[n]
  <2>1. stack \in Seq(Frame) /\ stack # << >>
    BY <1>1, FolderTyped
  <2> QED
    BY <1>1, <2>1, FrontStep DEF Front
<1>3. Held'
  BY <1>1, <1>2, SourceAssumption DEF IInv, Held, Typed, tree
<1>4. Known' /\ ParentsFirst'
  BY <1>1, <1>2 DEF IInv, Known, Listed, ParentsFirst, UpAhead, ListedBefore, tree
<1> QED
  BY <1>1, <1>2, <1>3, <1>4 DEF IInv, Typed, Begun, tree

LEMMA InsertIInv == IInv /\ InsertStat => IInv'
<1> SUFFICES ASSUME IInv, InsertStat PROVE IInv'
  OBVIOUS
<1>1. UNCHANGED <<disk, fds, tree, stack, pc>> /\ pc = "crawl"
  BY DEF InsertStat
<1>2. \A p \in pending' : p \in Pending /\ p.parent = 1
  BY DEF InsertStat, At, IInv, Typed, Link, Pending, Kind, Called
<1> QED
  BY <1>1, <1>2, SameTree DEF IInv, Typed, Begun, Known, tree

LEMMA CrawledIInv == IInv /\ Crawled => IInv'
<1> SUFFICES ASSUME IInv, Crawled PROVE IInv'
  OBVIOUS
<1>1. UNCHANGED <<disk, fds, tree, stack, pending>> /\ pc = "crawl" /\ pc' = "done"
  BY DEF Crawled
<1> QED
  BY <1>1, SameTree DEF IInv, Typed, Begun, Known, tree

LEMMA DisturbIInv == IInv /\ Disturb => IInv'
<1> SUFFICES ASSUME IInv, Disturb PROVE IInv'
  OBVIOUS
<1>1. UNCHANGED <<fds, tree, stack, pending, pc>> /\ disk' \subseteq Link
  BY SourceAssumption DEF Disturb, Create, Unlink, Others, IInv, Typed
<1> QED
  BY <1>1, SameTree DEF IInv, Typed, Begun, Known, tree

LEMMA NextIInv == IInv /\ [Next]_vars => IInv'
<1> SUFFICES ASSUME IInv, [Next]_vars PROVE IInv'
  OBVIOUS
<1>1. CASE Crawl
  BY <1>1, RaiseIInv, OpenRootIInv, PlaceChildIInv, RefusedIInv, RefillIInv, ReaddirIInv,
     CloseIInv, InsertIInv, CrawledIInv DEF Crawl
<1>2. CASE Disturb
  BY <1>2, DisturbIInv
<1>3. CASE UNCHANGED vars
  BY <1>3, SameTree DEF vars, IInv, Typed, Begun, Known, tree
<1> QED
  BY <1>1, <1>2, <1>3 DEF Next

LEMMA Invariant == Spec => []IInv
<1>1. Init => IInv
  BY InitIInv
<1>2. IInv /\ [Next]_vars => IInv'
  BY NextIInv
<1> QED
  BY <1>1, <1>2, PTL DEF Spec

\* The descriptors that are open are those of the files listed and of the
\* folders being read (source.cpp, rlimit.h).
THEOREM HeldAlways == Spec => []Held
<1>1. IInv => Held
  BY DEF IInv
<1> QED
  BY <1>1, Invariant, PTL

\* A folder is listed after the folder it is in, unless that is a root that
\* could not be opened (Original::pathTable).
THEOREM ParentsAreFirst == Spec => []ParentsFirst
<1>1. IInv => ParentsFirst
  BY DEF IInv
<1> QED
  BY <1>1, Invariant, PTL
-----------------------------------------------------------------------------
(***************************************************************************)
(* Nothing is left out.  What was in a folder all the while is ahead in    *)
(* its stream, in the batch, about to be placed, or placed once; and what  *)
(* is still to come has not been placed.                                   *)
(***************************************************************************)
Unique == /\ kept \subseteq disk
          /\ \A l, m \in disk : l.dir = m.dir /\ l.name = m.name => l = m

Shape ==
    /\ children \in Seq(Seq(Nat)) /\ Len(children) = Len(entries)
    /\ \A p \in DOMAIN children : \A k \in DOMAIN children[p] :
           children[p][k] \in DOMAIN entries
    /\ \A k \in DOMAIN fileTable : fileTable[k] \in DOMAIN entries
    /\ \A i \in DOMAIN entries : entries[i].parent < i

Nested ==
    /\ \A n \in DOMAIN stack : entries[stack[n].entry].ino = stack[n].ino
    /\ \A i, j \in DOMAIN stack : i < j => stack[i].entry < stack[j].entry

Batched ==
    \A n \in DOMAIN stack : \A m \in stack[n].batch :
        /\ m.dir = stack[n].ino /\ m.name \in stack[n].given
        /\ \A l \in stack[n].batch \cup kept : l.dir = m.dir /\ l.name = m.name => l = m

\* The entry is one the top of the stack has returned.
Own(q) ==
    /\ stack # << >> /\ q.parent = Folder.entry /\ q.dir = Folder.ino
    /\ q.called = q.name /\ q.name \in Folder.given
    /\ \A m \in Folder.batch : m.name # q.name
    /\ \A l \in kept : l.dir = q.dir /\ l.name = q.name => q.kind = KindOf[l.ino]

Pended ==
    /\ \A q, r \in pending : q = r
    /\ \A q \in pending : q.called \in Inodes \X Names \/ Own(q)

Taken(e, nm) == \E i \in DOMAIN entries : entries[i].parent = e /\ entries[i].name = nm

ToCome(n, nm) ==
    \/ nm \notin stack[n].given
    \/ \E m \in stack[n].batch : m.name = nm
    \/ n = Len(stack) /\ \E q \in pending : q.called = nm

Untaken == \A n \in DOMAIN stack, nm \in Names : ToCome(n, nm) => ~Taken(stack[n].entry, nm)

Coming(l, p) ==
    \E n \in DOMAIN stack :
        /\ stack[n].entry = p
        /\ \/ l.name \notin stack[n].given
           \/ l \in stack[n].batch
           \/ \E q \in pending : Own(q) /\ q.parent = p /\ q.name = l.name

Fated ==
    \A p \in Nat : Listed(p) =>
        \A l \in kept \ refused : l.dir = entries[p].ino /\ Supported(l) =>
            PlacedOnce(l, p) \/ Coming(l, p)

Rested == pc = "done" => stack = << >> /\ pending = {}

CInv == IInv /\ Unique /\ Shape /\ Nested /\ Batched /\ Pended /\ Untaken /\ Fated /\ Rested

LEMMA InitCInv == Init => CInv
<1> SUFFICES ASSUME Init PROVE CInv
  OBVIOUS
<1>1. /\ entries = << >> /\ children = << >> /\ pathTable = << >> /\ fileTable = << >>
      /\ stack = << >> /\ pending = {} /\ pc = "raise" /\ disk = Found /\ kept = Found
  BY DEF Init
<1>2. Unique
  BY <1>1, SourceAssumption DEF Unique
<1>3. Shape
  BY <1>1 DEF Shape
<1> QED
  BY <1>1, <1>2, <1>3, InitIInv
     DEF CInv, Nested, Batched, Pended, Untaken, Fated, Listed, Rested

\* How often an entry is in a table that another is put at the end of.
LEMMA OccursOther ==
    ASSUME NEW s \in Seq(Nat), NEW e \in Nat, NEW x, x # e
    PROVE  Occurs(x, Append(s, e)) = Occurs(x, s)
<1>1. {k \in DOMAIN Append(s, e) : Append(s, e)[k] = x} = {k \in DOMAIN s : s[k] = x}
  OBVIOUS
<1> QED
  BY <1>1 DEF Occurs

LEMMA OccursNew ==
    ASSUME NEW s \in Seq(Nat), NEW e \in Nat, \A k \in DOMAIN s : s[k] # e
    PROVE  Occurs(e, Append(s, e)) = 1
<1>1. {k \in DOMAIN Append(s, e) : Append(s, e)[k] = e} = {Len(s) + 1}
  OBVIOUS
<1> QED
  BY <1>1, FS_Singleton DEF Occurs

\* The tables after an entry is placed.
Placed(e, kind, parent, name, ino) ==
    /\ e = Len(entries) + 1
    /\ DOMAIN entries' = 1 .. e /\ DOMAIN entries = 1 .. e - 1
    /\ entries'[e] = [kind |-> kind, parent |-> parent, name |-> name, ino |-> ino]
    /\ \A i \in 1 .. e - 1 : entries'[i] = entries[i]
    /\ children' \in Seq(Seq(Nat)) /\ Len(children') = e /\ children'[e] = << >>
    /\ \A i \in 1 .. e - 1 : children'[i] = IF i = parent THEN Append(children[i], e)
                                            ELSE children[i]
    /\ pathTable' = IF kind = "dir" THEN Append(pathTable, e) ELSE pathTable
    /\ fileTable' = IF kind = "dir" THEN fileTable ELSE Append(fileTable, e)
    /\ stack' = IF kind = "dir"
                THEN Append(stack, [entry |-> e, ino |-> ino, batch |-> {}, given |-> {}])
                ELSE stack

LEMMA PlaceFields ==
    ASSUME IInv, Shape, NEW kind \in Kind, NEW parent \in Nat, NEW name \in Called,
           NEW ino \in Inodes, PlaceEntry(kind, parent, name, ino)
    PROVE  \E e \in Nat : Placed(e, kind, parent, name, ino)
<1>0. PICK e \in Nat : e = Len(entries) + 1
  BY DEF IInv, Typed
<1> DEFINE new == [kind |-> kind, parent |-> parent, name |-> name, ino |-> ino]
           cs == [i \in 1 .. e |-> IF i = e THEN << >>
                                   ELSE IF i = parent THEN Append(children[i], e)
                                   ELSE children[i]]
<1>1. /\ entries' = Append(entries, new) /\ children' = cs
      /\ IF kind = "dir" THEN OnFolder(e, ino) ELSE OnFileFd(e)
  BY <1>0 DEF PlaceEntry
<1>2. entries \in Seq(Entry) /\ new \in Entry
  BY DEF IInv, Typed, Entry
<1>3. /\ DOMAIN entries' = 1 .. e /\ DOMAIN entries = 1 .. e - 1
      /\ entries'[e] = new /\ \A i \in 1 .. e - 1 : entries'[i] = entries[i]
  BY <1>0, <1>1, <1>2
<1>4. \A i \in 1 .. e - 1 : children[i] \in Seq(Nat) /\ Append(children[i], e) \in Seq(Nat)
  BY <1>0, <1>2 DEF Shape
<1>5. \A i \in 1 .. e : cs[i] \in Seq(Nat)
  <2>1. << >> \in Seq(Nat)
    OBVIOUS
  <2>2. \A i \in 1 .. e : i # e => i \in 1 .. e - 1
    OBVIOUS
  <2> QED
    BY <1>4, <2>1, <2>2
<1>6. /\ cs \in Seq(Seq(Nat)) /\ Len(cs) = e /\ cs[e] = << >>
      /\ \A i \in 1 .. e - 1 : cs[i] = IF i = parent THEN Append(children[i], e)
                                       ELSE children[i]
  <2>1. e \in 1 .. e
    BY <1>0, <1>2
  <2>2. \A i \in 1 .. e - 1 : i \in 1 .. e /\ i # e
    OBVIOUS
  <2>3. cs[e] = << >>
    BY <2>1
  <2>4. \A i \in 1 .. e - 1 : cs[i] = IF i = parent THEN Append(children[i], e)
                                      ELSE children[i]
    BY <2>2
  <2>5. cs \in [1 .. e -> Seq(Nat)]
    BY <1>5
  <2> HIDE DEF cs
  <2> QED
    BY <2>3, <2>4, <2>5
<1> HIDE DEF cs
<1>7. /\ pathTable' = IF kind = "dir" THEN Append(pathTable, e) ELSE pathTable
      /\ fileTable' = IF kind = "dir" THEN fileTable ELSE Append(fileTable, e)
      /\ stack' = IF kind = "dir"
                  THEN Append(stack, [entry |-> e, ino |-> ino, batch |-> {}, given |-> {}])
                  ELSE stack
  BY <1>0, <1>1 DEF OnFolder, OnFileFd
<1> QED
  BY <1>0, <1>1, <1>3, <1>6, <1>7 DEF Placed

LEMMA PlaceShape ==
    ASSUME IInv, Shape, NEW kind \in Kind, NEW parent \in Nat, NEW name \in Called,
           NEW ino \in Inodes, PlaceEntry(kind, parent, name, ino),
           parent <= Len(entries)
    PROVE  Shape'
<1>e. PICK e \in Nat : Placed(e, kind, parent, name, ino)
  BY PlaceFields
<1>1. /\ e = Len(entries) + 1
      /\ DOMAIN entries' = 1 .. e /\ DOMAIN entries = 1 .. e - 1
      /\ entries'[e] = [kind |-> kind, parent |-> parent, name |-> name, ino |-> ino]
      /\ \A i \in 1 .. e - 1 : entries'[i] = entries[i]
      /\ children' \in Seq(Seq(Nat)) /\ Len(children') = e /\ children'[e] = << >>
      /\ \A i \in 1 .. e - 1 : children'[i] = IF i = parent THEN Append(children[i], e)
                                              ELSE children[i]
      /\ fileTable' = IF kind = "dir" THEN fileTable ELSE Append(fileTable, e)
  BY <1>e DEF Placed
<1>3. Len(entries') = e /\ DOMAIN children' = 1 .. e /\ DOMAIN children = 1 .. e - 1
  <2>1. entries' \in Seq(Entry)
    BY DEF PlaceEntry, IInv, Typed, Entry
  <2> QED
    BY <1>1, <2>1 DEF Shape
<1>4. ASSUME NEW p \in 1 .. e, NEW k \in DOMAIN children'[p]
      PROVE  children'[p][k] \in 1 .. e
  <2>1. CASE p = e
    BY <1>1, <1>4, <2>1
  <2>2. CASE p # e
    <3>1. p \in 1 .. e - 1 /\ children[p] \in Seq(Nat)
      BY <1>1, <1>3, <2>2, SMTT(30) DEF Shape
    <3>2. \A j \in DOMAIN children[p] : children[p][j] \in 1 .. e - 1
      BY <1>1, <1>3, <3>1 DEF Shape
    <3>3. CASE p = parent
      <4>1. children'[p] = Append(children[p], e)
        BY <1>1, <3>1, <3>3
      <4>2. k \in DOMAIN children[p] \/ (k = Len(children[p]) + 1)
        BY <1>4, <3>1, <4>1
      <4>3. /\ k \in DOMAIN children[p] => children'[p][k] = children[p][k]
            /\ k = Len(children[p]) + 1 => children'[p][k] = e
        BY <3>1, <4>1
      <4> QED
        BY <1>1, <3>2, <4>2, <4>3
    <3>4. CASE p # parent
      <4>1. children'[p] = children[p]
        BY <1>1, <3>1, <3>4
      <4> QED
        BY <1>4, <3>2, <4>1
    <3> QED
      BY <3>3, <3>4
  <2> QED
    BY <2>1, <2>2
<1>5. ASSUME NEW k \in DOMAIN fileTable' PROVE fileTable'[k] \in 1 .. e
  <2>1. fileTable \in Seq(Nat) /\ \A j \in DOMAIN fileTable : fileTable[j] \in 1 .. e - 1
    BY <1>1 DEF IInv, Typed, Shape
  <2>2. \/ k \in DOMAIN fileTable /\ fileTable'[k] = fileTable[k]
        \/ fileTable'[k] = e
    BY <1>1, <1>5, <2>1, SMTT(30)
  <2> QED
    BY <1>1, <2>1, <2>2
<1>6. ASSUME NEW i \in 1 .. e PROVE entries'[i].parent < i
  <2>1. CASE i = e
    BY <1>1, <2>1
  <2>2. CASE i # e
    <3>1. i \in 1 .. e - 1
      BY <2>2
    <3> QED
      BY <1>1, <3>1 DEF Shape
  <2> QED
    BY <2>1, <2>2
<1> QED
  BY <1>1, <1>3, <1>4, <1>5, <1>6 DEF Shape

\* What was placed once remains so, whatever else is placed.
LEMMA StillPlaced ==
    ASSUME IInv, Shape, NEW kind \in Kind, NEW parent \in Nat, NEW name \in Called,
           NEW ino \in Inodes, PlaceEntry(kind, parent, name, ino),
           NEW l, NEW p \in DOMAIN entries, PlacedOnce(l, p),
           parent # p \/ name # l.name
    PROVE  PlacedOnce(l, p)'
<1>e. PICK e \in Nat : Placed(e, kind, parent, name, ino)
  BY PlaceFields
<1>1. /\ e = Len(entries) + 1
      /\ DOMAIN entries' = 1 .. e /\ DOMAIN entries = 1 .. e - 1
      /\ entries'[e] = [kind |-> kind, parent |-> parent, name |-> name, ino |-> ino]
      /\ \A i \in 1 .. e - 1 : entries'[i] = entries[i]
      /\ \A i \in 1 .. e - 1 : children'[i] = IF i = parent THEN Append(children[i], e)
                                              ELSE children[i]
      /\ pathTable' = IF kind = "dir" THEN Append(pathTable, e) ELSE pathTable
      /\ fileTable' = IF kind = "dir" THEN fileTable ELSE Append(fileTable, e)
  BY <1>e DEF Placed
<1>3. PICK x \in DOMAIN entries :
        /\ x > p
        /\ {i \in DOMAIN entries : entries[i].parent = p /\ entries[i].name = l.name} = {x}
        /\ entries[x] = [kind |-> KindOf[l.ino], parent |-> p, name |-> l.name, ino |-> l.ino]
        /\ Occurs(x, children[p]) = 1
        /\ Occurs(x, IF KindOf[l.ino] = "dir" THEN pathTable ELSE fileTable) = 1
  BY DEF PlacedOnce
<1>4. x \in 1 .. e /\ x # e /\ entries'[x] = entries[x]
  BY <1>1, <1>3
<1>5. {i \in 1 .. e : entries'[i].parent = p /\ entries'[i].name = l.name} = {x}
  <2>1. ASSUME NEW i \in 1 .. e
        PROVE  entries'[i].parent = p /\ entries'[i].name = l.name <=> i = x
    <3>1. CASE i = e
      BY <1>1, <1>4, <3>1
    <3>2. CASE i # e
      <4>1. i \in DOMAIN entries /\ entries'[i] = entries[i]
        BY <1>1, <3>2
      <4>2. entries[i].parent = p /\ entries[i].name = l.name <=> i \in {x}
        BY <1>3, <4>1
      <4> QED
        BY <4>1, <4>2
    <3> QED
      BY <3>1, <3>2
  <2> QED
    BY <1>4, <2>1
<1>6. Occurs(x, children'[p]) = 1
  <2>1. children[p] \in Seq(Nat)
    BY <1>1 DEF Shape, IInv, Typed
  <2>2. Occurs(x, Append(children[p], e)) = 1
    BY <1>3, <1>4, <2>1, OccursOther
  <2> QED
    BY <1>1, <1>3, <2>2
<1>7. Occurs(x, IF KindOf[l.ino] = "dir" THEN pathTable' ELSE fileTable') = 1
  <2>1. pathTable \in Seq(Nat) /\ fileTable \in Seq(Nat)
    BY DEF IInv, Typed
  <2>2. /\ Occurs(x, Append(pathTable, e)) = Occurs(x, pathTable)
        /\ Occurs(x, Append(fileTable, e)) = Occurs(x, fileTable)
    BY <1>4, <2>1, OccursOther
  <2> QED
    BY <1>1, <1>3, <2>2
<1>9. /\ x \in DOMAIN entries' /\ x > p
      /\ {i \in DOMAIN entries' : entries'[i].parent = p /\ entries'[i].name = l.name} = {x}
      /\ entries'[x] = [kind |-> KindOf[l.ino], parent |-> p, name |-> l.name, ino |-> l.ino]
      /\ Occurs(x, children'[p]) = 1
      /\ Occurs(x, IF KindOf[l.ino] = "dir" THEN pathTable' ELSE fileTable') = 1
  BY <1>1, <1>3, <1>4, <1>5, <1>6, <1>7
<1> QED
  BY <1>9 DEF PlacedOnce, Occurs

\* What is placed where nothing of its name is yet is placed once.
LEMMA NowPlaced ==
    ASSUME IInv, Shape, NEW parent \in DOMAIN entries, NEW l \in Link,
           KindOf[l.ino] \in Kind, PlaceEntry(KindOf[l.ino], parent, l.name, l.ino),
           ~Taken(parent, l.name)
    PROVE  PlacedOnce(l, parent)'
<1> DEFINE kind == KindOf[l.ino]
<1>1. parent \in Nat /\ l.name \in Called /\ l.ino \in Inodes
  BY DEF IInv, Typed, Called, Link
<1>e. PICK e \in Nat : Placed(e, kind, parent, l.name, l.ino)
  BY <1>1, PlaceFields
<1>2. /\ e = Len(entries) + 1
      /\ DOMAIN entries' = 1 .. e /\ DOMAIN entries = 1 .. e - 1
      /\ entries'[e] = [kind |-> kind, parent |-> parent, name |-> l.name, ino |-> l.ino]
      /\ \A i \in 1 .. e - 1 : entries'[i] = entries[i]
      /\ \A i \in 1 .. e - 1 : children'[i] = IF i = parent THEN Append(children[i], e)
                                              ELSE children[i]
      /\ pathTable' = IF kind = "dir" THEN Append(pathTable, e) ELSE pathTable
      /\ fileTable' = IF kind = "dir" THEN fileTable ELSE Append(fileTable, e)
  BY <1>e DEF Placed
<1> HIDE DEF kind
<1>4. e \in 1 .. e /\ e > parent
  BY <1>1, <1>2
<1>5. {i \in 1 .. e : entries'[i].parent = parent /\ entries'[i].name = l.name} = {e}
  <2>1. ASSUME NEW i \in 1 .. e, i # e
        PROVE  ~(entries'[i].parent = parent /\ entries'[i].name = l.name)
    BY <1>1, <1>2, <2>1 DEF Taken
  <2> QED
    BY <1>2, <1>4, <2>1
<1>6. Occurs(e, children'[parent]) = 1
  <2>1. /\ children[parent] \in Seq(Nat)
        /\ \A k \in DOMAIN children[parent] : children[parent][k] # e
    BY <1>1, <1>2 DEF Shape, IInv, Typed
  <2> QED
    BY <1>2, <2>1, OccursNew
<1>7. Occurs(e, IF kind = "dir" THEN pathTable' ELSE fileTable') = 1
  <2>1. /\ pathTable \in Seq(Nat) /\ fileTable \in Seq(Nat)
        /\ \A k \in DOMAIN pathTable : pathTable[k] # e
        /\ \A k \in DOMAIN fileTable : fileTable[k] # e
    BY <1>1, <1>2 DEF IInv, Typed, Known, Shape
  <2> QED
    BY <1>2, <2>1, OccursNew
<1>8. /\ e \in DOMAIN entries' /\ e > parent
      /\ {i \in DOMAIN entries' : entries'[i].parent = parent /\ entries'[i].name = l.name} = {e}
      /\ entries'[e] = [kind |-> KindOf[l.ino], parent |-> parent, name |-> l.name, ino |-> l.ino]
      /\ Occurs(e, children'[parent]) = 1
      /\ Occurs(e, IF KindOf[l.ino] = "dir" THEN pathTable' ELSE fileTable') = 1
  BY <1>2, <1>4, <1>5, <1>6, <1>7 DEF kind
<1> QED
  BY <1>8 DEF PlacedOnce, Occurs

-----------------------------------------------------------------------------
\* What every step knows of the state it starts from.
LEMMA CTyped ==
    ASSUME CInv
    PROVE  /\ disk \subseteq Link /\ kept \subseteq disk /\ pending \subseteq Pending
           /\ entries \in Seq(Entry) /\ stack \in Seq(Frame) /\ pathTable \in Seq(Nat)
           /\ \A p : Listed(p) => p \in DOMAIN entries
           /\ \A n \in DOMAIN stack : stack[n].entry \in DOMAIN entries
           /\ \A l \in Link : l.dir \in Inodes /\ l.name \in Names /\ l.ino \in Inodes
BY DEF CInv, IInv, Typed, Unique, Known, Listed, Link

LEMMA SamePlaces ==
    ASSUME UNCHANGED tree, NEW l, NEW p, PlacedOnce(l, p)
    PROVE  PlacedOnce(l, p)'
BY DEF PlacedOnce, Occurs, tree

\* Nothing but the limits and the program counter changes.
LEMMA IdleCInv ==
    ASSUME CInv, [Next]_vars, UNCHANGED <<disk, kept, refused, tree, stack, pending>>,
           Rested'
    PROVE  CInv'
<1>1. IInv'
  BY NextIInv DEF CInv
<1>2. Unique' /\ Shape' /\ Nested' /\ Batched'
  BY DEF CInv, Unique, Shape, Nested, Batched, tree
<1>3. Pended'
  BY DEF CInv, Pended, Own, Folder
<1>4. Untaken'
  BY DEF CInv, Untaken, ToCome, Taken, tree
<1>5. Fated'
  <2> SUFFICES ASSUME NEW p \in Nat, Listed(p)', NEW l \in kept' \ refused',
                      l.dir = entries'[p].ino, Supported(l)
               PROVE  PlacedOnce(l, p)' \/ Coming(l, p)'
    BY DEF Fated, Supported, UseEntry
  <2>1. PlacedOnce(l, p) \/ Coming(l, p)
    BY DEF CInv, Fated, Listed, tree
  <2>2. Coming(l, p) => Coming(l, p)'
    BY DEF Coming, Own, Folder
  <2> QED
    BY <2>1, <2>2, SamePlaces
<1> QED
  BY <1>1, <1>2, <1>3, <1>4, <1>5 DEF CInv

LEMMA OpenRootCInv == CInv /\ OpenRoot => CInv'
<1> SUFFICES ASSUME CInv, OpenRoot PROVE CInv'
  OBVIOUS
<1>1. IInv' /\ IInv /\ Shape
  BY OpenRootIInv DEF CInv
<1>2. /\ entries = << >> /\ pathTable = << >> /\ pending = {} /\ pc' = "crawl"
      /\ disk' = disk /\ kept' = kept /\ pending' = {}
  BY <1>1 DEF IInv, Begun, OpenRoot
<1>3. stack = << >>
  <2>1. stack \in Seq(Frame) /\ \A n \in DOMAIN stack : n \in {}
    BY <1>1, <1>2 DEF IInv, Typed, Known, Listed
  <2>2. Len(stack) = 0
    <3>1. Len(stack) \in Nat /\ DOMAIN stack = 1 .. Len(stack)
      BY <2>1
    <3>2. 1 \notin DOMAIN stack
      BY <2>1
    <3> QED
      BY <3>1, <3>2
  <2> QED
    BY <2>1, <2>2, EmptySeq
<1>4. fileTable = << >>
  <2>1. fileTable \in Seq(Nat) /\ \A k \in DOMAIN fileTable : k \in {}
    BY <1>1, <1>2 DEF IInv, Typed, Shape
  <2>2. Len(fileTable) = 0
    <3>1. Len(fileTable) \in Nat /\ DOMAIN fileTable = 1 .. Len(fileTable)
      BY <2>1
    <3>2. 1 \notin DOMAIN fileTable
      BY <2>1
    <3> QED
      BY <3>1, <3>2
  <2> QED
    BY <2>1, <2>2, EmptySeq
<1>5. Unique' /\ Pended' /\ Rested'
  BY <1>2 DEF CInv, Unique, Pended, Rested
<1>6. CASE PlaceEntry("dir", 0, "/", Top)
  <2>1. Top \in Inodes /\ "dir" \in Kind /\ "/" \in Called /\ 0 <= Len(entries)
    BY <1>2, SourceAssumption DEF Kind, Called
  <2>2. Shape'
    BY <1>1, <1>6, <2>1, PlaceShape
  <2>3. PICK e \in Nat : Placed(e, "dir", 0, "/", Top)
    BY <1>1, <1>6, <2>1, PlaceFields
  <2>4. /\ e = 1 /\ DOMAIN entries' = {1} /\ entries'[1].parent = 0 /\ entries'[1].ino = Top
        /\ DOMAIN pathTable' = {1} /\ pathTable'[1] = 1
        /\ DOMAIN stack' = {1}
        /\ stack'[1] = [entry |-> 1, ino |-> Top, batch |-> {}, given |-> {}]
    BY <1>2, <1>3, <2>3 DEF Placed
  <2>5. Nested' /\ Batched' /\ Untaken'
    BY <2>4 DEF Nested, Batched, Untaken, Taken
  <2>6. Fated'
    <3> SUFFICES ASSUME NEW p \in Nat, Listed(p)', NEW l
                 PROVE  Coming(l, p)'
      BY DEF Fated
    <3> QED
      BY <2>4 DEF Coming, Listed
  <2> QED
    BY <1>1, <1>5, <2>2, <2>5, <2>6 DEF CInv
<1>7. CASE /\ entries' = <<[kind |-> "dir", parent |-> 0, name |-> "/", ino |-> Top]>>
           /\ children' = <<<< >>>>
           /\ UNCHANGED <<fds, pathTable, fileTable, stack>>
  <2>1. Shape'
    BY <1>4, <1>7 DEF Shape
  <2>2. Nested' /\ Batched' /\ Untaken' /\ Fated'
    BY <1>2, <1>3, <1>7 DEF Nested, Batched, Untaken, Fated, Listed
  <2> QED
    BY <1>1, <1>5, <2>1, <2>2 DEF CInv
<1> QED
  BY <1>6, <1>7 DEF OpenRoot

LEMMA RefusedCInv == CInv /\ ChildRefused => CInv'
<1> SUFFICES ASSUME CInv, ChildRefused PROVE CInv'
  OBVIOUS
<1>1. IInv'
  BY RefusedIInv DEF CInv
<1>2. PICK q \in pending : refused' = refused \cup At(q.dir, q.name)
  BY DEF ChildRefused
<1>3. UNCHANGED <<disk, kept, tree, stack, pc>> /\ pending' = {}
  BY DEF ChildRefused
<1>4. Unique' /\ Shape' /\ Nested' /\ Batched' /\ Pended' /\ Rested'
  BY <1>3 DEF CInv, Unique, Shape, Nested, Batched, Pended, Rested, tree
<1>5. Untaken'
  BY <1>3 DEF CInv, Untaken, ToCome, Taken, tree
<1>6. Fated'
  <2> SUFFICES ASSUME NEW p \in Nat, Listed(p)', NEW l \in kept' \ refused',
                      l.dir = entries'[p].ino, Supported(l)
               PROVE  PlacedOnce(l, p)' \/ Coming(l, p)'
    BY DEF Fated, Supported, UseEntry
  <2>1. PlacedOnce(l, p) \/ Coming(l, p)
    BY <1>2, <1>3 DEF CInv, Fated, Listed, tree
  <2>2. ASSUME Coming(l, p) PROVE Coming(l, p)'
    <3>1. PICK n \in DOMAIN stack :
              /\ stack[n].entry = p
              /\ \/ l.name \notin stack[n].given
                 \/ l \in stack[n].batch
                 \/ \E r \in pending : Own(r) /\ r.parent = p /\ r.name = l.name
      BY <2>2 DEF Coming
    <3>2. ASSUME NEW r \in pending, Own(r), r.parent = p, r.name = l.name PROVE FALSE
      <4>1. r = q /\ r.dir = Folder.ino /\ Folder.entry = p
        BY <3>2 DEF CInv, Pended, Own
      <4>2. Folder.ino = entries[p].ino
        BY <4>1, <3>2, CTyped DEF CInv, Nested, Folder, Own
      <4>3. l \in At(q.dir, q.name)
        BY <1>3, <3>2, <4>1, <4>2, CTyped DEF At, tree
      <4> QED
        BY <1>2, <4>3
    <3> QED
      BY <1>3, <3>1, <3>2 DEF Coming
  <2> QED
    BY <1>3, <2>1, <2>2, SamePlaces
<1> QED
  BY <1>1, <1>4, <1>5, <1>6 DEF CInv

\* Placing an entry: the frames are those there were, and that of a folder
\* that has just been opened.
Stacked(e, kind, ino) ==
    /\ \A n \in DOMAIN stack : n \in DOMAIN stack' /\ stack'[n] = stack[n]
    /\ \A n \in DOMAIN stack' : \/ n \in DOMAIN stack /\ stack'[n] = stack[n]
                                \/ /\ n = Len(stack) + 1
                                   /\ stack'[n] = [entry |-> e, ino |-> ino,
                                                   batch |-> {}, given |-> {}]
    /\ \A n \in DOMAIN stack : /\ stack[n].entry \in 1 .. e - 1
                               /\ stack[n].entry < e
                               /\ n \in Nat /\ n < Len(stack) + 1
    /\ kind = "dir" => /\ Len(stack) + 1 \in DOMAIN stack'
                       /\ stack'[Len(stack) + 1] = [entry |-> e, ino |-> ino,
                                                    batch |-> {}, given |-> {}]

LEMMA PlacedFrames ==
    ASSUME CInv, NEW kind, NEW parent, NEW name, NEW ino, NEW e \in Nat,
           Placed(e, kind, parent, name, ino)
    PROVE  Stacked(e, kind, ino)
<1>1. stack \in Seq(Frame) /\ \A n \in DOMAIN stack : stack[n].entry \in DOMAIN entries
  BY CTyped
<1>2. PICK f : f = [entry |-> e, ino |-> ino, batch |-> {}, given |-> {}]
  OBVIOUS
<1>3. stack' = IF kind = "dir" THEN Append(stack, f) ELSE stack
  BY <1>2 DEF Placed
<1>4. \A n \in DOMAIN stack : stack[n].entry \in 1 .. e - 1 /\ stack[n].entry < e
  BY <1>1, SMTT(30) DEF Placed
<1> QED
  BY <1>1, <1>2, <1>3, <1>4 DEF Stacked

LEMMA PlaceUntaken ==
    ASSUME CInv, Shape', NEW kind, NEW parent, NEW name, NEW ino, NEW e \in Nat,
           Placed(e, kind, parent, name, ino), NEW q \in pending,
           parent = q.parent, name = q.called, pending' = {}
    PROVE  Untaken'
<1> SUFFICES ASSUME NEW n \in DOMAIN stack', NEW nm \in Names, ToCome(n, nm)',
                    NEW i \in DOMAIN entries', entries'[i].parent = stack'[n].entry,
                    entries'[i].name = nm
             PROVE  FALSE
  BY DEF Untaken, Taken
<1>1. /\ DOMAIN entries' = 1 .. e /\ DOMAIN entries = 1 .. e - 1
      /\ entries'[e].parent = parent /\ entries'[e].name = name
      /\ \A j \in 1 .. e - 1 : entries'[j] = entries[j]
  BY DEF Placed
<1>2. entries'[i].parent < i
  BY DEF Shape
<1>3. CASE n \in DOMAIN stack /\ stack'[n] = stack[n]
  <2>1. ToCome(n, nm)
    BY <1>3 DEF ToCome
  <2>2. ~Taken(stack[n].entry, nm)
    BY <1>3, <2>1 DEF CInv, Untaken
  <2>3. i = e
    <3>1. i # e => i \in DOMAIN entries /\ entries'[i] = entries[i]
      BY <1>1
    <3> QED
      BY <1>3, <2>2, <3>1 DEF Taken
  <2>4. q.parent = stack[n].entry /\ q.called = nm
    BY <1>1, <1>3, <2>3
  <2>5. Own(q)
    BY <2>4, SourceAssumption DEF CInv, Pended
  <2>6. n = Len(stack)
    <3>1. stack \in Seq(Frame) /\ \A m \in DOMAIN stack : stack[m].entry \in Nat
      BY CTyped
    <3>2. Len(stack) \in DOMAIN stack /\ stack[Len(stack)].entry = stack[n].entry
      BY <2>4, <2>5, <3>1 DEF Own, Folder
    <3>3. ~(n < Len(stack))
      BY <1>3, <3>1, <3>2 DEF CInv, Nested
    <3> QED
      BY <1>3, <3>1, <3>3
  <2>7. nm \in stack[n].given /\ \A m \in stack[n].batch : m.name # nm
    BY <2>4, <2>5, <2>6 DEF Own, Folder
  <2> QED
    BY <1>3, <2>7 DEF ToCome
<1>4. CASE stack'[n].entry = e
  BY <1>1, <1>2, <1>4
<1>5. Stacked(e, kind, ino)
  BY PlacedFrames
<1> QED
  BY <1>3, <1>4, <1>5 DEF Stacked

LEMMA PlaceFated ==
    ASSUME CInv, NEW q \in pending, NEW l0 \in At(q.dir, q.name),
           PlaceEntry(q.kind, q.parent, q.called, l0.ino), NEW e \in Nat,
           Placed(e, q.kind, q.parent, q.called, l0.ino),
           q.parent \in DOMAIN entries, UNCHANGED <<disk, kept, refused>>
    PROVE  Fated'
<1> SUFFICES ASSUME NEW p \in Nat, Listed(p)', NEW l \in kept' \ refused',
                    l.dir = entries'[p].ino, Supported(l)
             PROVE  PlacedOnce(l, p)' \/ Coming(l, p)'
  BY DEF Fated, Supported, UseEntry
<1>1. /\ DOMAIN entries' = 1 .. e /\ DOMAIN entries = 1 .. e - 1
      /\ \A j \in 1 .. e - 1 : entries'[j] = entries[j]
      /\ pathTable' = IF q.kind = "dir" THEN Append(pathTable, e) ELSE pathTable
  BY DEF Placed
<1>2. /\ q \in Pending /\ l0 \in Link /\ l \in Link /\ l \in disk /\ l0 \in disk
      /\ pathTable \in Seq(Nat) /\ IInv /\ Shape
  BY CTyped DEF At, CInv
<1>3. /\ q.kind \in Kind /\ q.parent \in Nat /\ q.called \in Called /\ l0.ino \in Inodes
      /\ l.name \in Names
  BY <1>2 DEF Pending, Link
<1>f. Stacked(e, q.kind, l0.ino)
  BY PlacedFrames
<1>4. \/ p = e /\ q.kind = "dir"
      \/ p \in DOMAIN entries /\ Listed(p)
  <2>1. Listed(p) => p \in DOMAIN entries
    BY CTyped
  <2>2. PICK j \in DOMAIN pathTable' : pathTable'[j] = p
    BY DEF Listed
  <2>3. CASE q.kind = "dir"
    <3>1. \/ j \in DOMAIN pathTable /\ pathTable'[j] = pathTable[j]
          \/ pathTable'[j] = e
      BY <1>1, <1>2, <2>2, <2>3
    <3>2. CASE j \in DOMAIN pathTable /\ pathTable'[j] = pathTable[j]
      BY <2>1, <2>2, <3>2 DEF Listed
    <3>3. CASE pathTable'[j] = e
      BY <2>2, <2>3, <3>3
    <3> QED
      BY <3>1, <3>2, <3>3
  <2>4. CASE q.kind # "dir"
    BY <1>1, <2>1, <2>2, <2>4 DEF Listed
  <2> QED
    BY <2>3, <2>4
<1>5. CASE p = e /\ q.kind = "dir"
  <2>1. /\ Len(stack) + 1 \in DOMAIN stack'
        /\ stack'[Len(stack) + 1] = [entry |-> e, ino |-> l0.ino, batch |-> {}, given |-> {}]
    BY <1>5, <1>f DEF Stacked
  <2> QED
    BY <1>5, <2>1 DEF Coming
<1>6. CASE p \in DOMAIN entries /\ Listed(p)
  <2>1. l.dir = entries[p].ino
    BY <1>1, <1>6
  <2>2. PlacedOnce(l, p) \/ Coming(l, p)
    BY <1>6, <2>1 DEF CInv, Fated
  <2>3. ASSUME PlacedOnce(l, p) PROVE PlacedOnce(l, p)'
    <3>1. ASSUME q.parent = p, q.called = l.name PROVE FALSE
      <4>1. Own(q)
        BY <1>3, <3>1, SourceAssumption DEF CInv, Pended
      <4>2. Len(stack) \in DOMAIN stack /\ Folder.entry = p
        BY <3>1, <4>1, CTyped DEF Own
      <4>3. ToCome(Len(stack), l.name)
        BY <3>1 DEF ToCome
      <4>4. ~Taken(p, l.name)
        BY <1>3, <4>2, <4>3 DEF CInv, Untaken, Folder
      <4>5. Taken(p, l.name)
        BY <2>3 DEF PlacedOnce, Taken
      <4> QED
        BY <4>4, <4>5
    <3> QED
      BY <1>2, <1>3, <1>6, <2>3, <3>1, StillPlaced
  <2>4. ASSUME Coming(l, p) PROVE PlacedOnce(l, p)' \/ Coming(l, p)'
    <3>1. PICK n \in DOMAIN stack :
              /\ stack[n].entry = p
              /\ \/ l.name \notin stack[n].given
                 \/ l \in stack[n].batch
                 \/ \E r \in pending : Own(r) /\ r.parent = p /\ r.name = l.name
      BY <2>4 DEF Coming
    <3>2. n \in DOMAIN stack' /\ stack'[n] = stack[n]
      BY <1>f DEF Stacked
    <3>3. CASE l.name \notin stack[n].given \/ l \in stack[n].batch
      BY <3>1, <3>2, <3>3 DEF Coming
    <3>4. CASE \E r \in pending : Own(r) /\ r.parent = p /\ r.name = l.name
      <4>1. Own(q) /\ q.parent = p /\ q.name = l.name
        BY <3>4 DEF CInv, Pended
      <4>2. Len(stack) \in DOMAIN stack /\ Folder.entry = p
        BY <4>1, CTyped DEF Own
      <4>3. q.dir = entries[p].ino
        BY <4>1, <4>2 DEF CInv, Nested, Own, Folder
      <4>4. l0 = l
        BY <1>2, <2>1, <4>1, <4>3 DEF At, CInv, Unique
      <4>5. q.kind = KindOf[l.ino] /\ q.called = l.name
        BY <2>1, <4>1, <4>3 DEF Own
      <4>6. ~Taken(p, l.name)
        BY <1>3, <4>1, <4>2, <4>5 DEF CInv, Untaken, Folder, ToCome
      <4>7. PlaceEntry(KindOf[l.ino], p, l.name, l.ino) /\ KindOf[l.ino] \in Kind
        BY <1>3, <4>1, <4>4, <4>5
      <4> QED
        BY <1>2, <1>6, <4>6, <4>7, NowPlaced
    <3> QED
      BY <3>1, <3>3, <3>4
  <2> QED
    BY <2>2, <2>3, <2>4
<1> QED
  BY <1>4, <1>5, <1>6

LEMMA PlaceChildCInv == CInv /\ PlaceChild => CInv'
<1> SUFFICES ASSUME CInv, PlaceChild PROVE CInv'
  OBVIOUS
<1>1. PICK q \in pending :
          \E l \in At(q.dir, q.name) : PlaceEntry(q.kind, q.parent, q.called, l.ino)
  BY DEF PlaceChild
<1>2. PICK l0 \in At(q.dir, q.name) : PlaceEntry(q.kind, q.parent, q.called, l0.ino)
  BY <1>1
<1>3. UNCHANGED <<disk, kept, refused, pc>> /\ pending' = {}
  BY DEF PlaceChild
<1>4. /\ q.kind \in Kind /\ q.parent \in Nat /\ q.called \in Called /\ l0.ino \in Inodes
      /\ IInv /\ Shape
  BY <1>2, CTyped DEF Pending, Link, At, CInv
<1>5. PICK e \in Nat : Placed(e, q.kind, q.parent, q.called, l0.ino)
  BY <1>2, <1>4, PlaceFields
<1>6. q.parent \in DOMAIN entries /\ q.parent <= Len(entries)
  <2>1. entries \in Seq(Entry) /\ entries # << >> /\ (Listed(q.parent) \/ q.parent = 1)
    BY <1>4, CTyped DEF IInv, Begun, Known
  <2>2. q.parent \in DOMAIN entries
    BY <2>1, CTyped
  <2> QED
    BY <2>1, <2>2
<1>7. IInv' /\ Unique' /\ Pended'
  BY <1>3, PlaceChildIInv DEF CInv, Unique, Pended
<1>8. Shape'
  BY <1>2, <1>4, <1>6, PlaceShape
<1>f. Stacked(e, q.kind, l0.ino)
  BY <1>5, PlacedFrames
<1>9. Nested'
  <2>1. \A j \in 1 .. e - 1 : entries'[j] = entries[j]
    BY <1>5 DEF Placed
  <2>2. entries'[e].ino = l0.ino
    BY <1>5 DEF Placed
  <2>3. \A n \in DOMAIN stack : n \in Nat /\ stack[n].entry < e
    BY <1>f DEF Stacked
  <2>4. Len(stack) \in Nat
    BY CTyped
  <2>5. \A n \in DOMAIN stack' : entries'[stack'[n].entry].ino = stack'[n].ino
    BY <1>f, <2>1, <2>2 DEF Stacked, CInv, Nested
  <2>6. ASSUME NEW i \in DOMAIN stack', NEW j \in DOMAIN stack', i < j
        PROVE  stack'[i].entry < stack'[j].entry
    BY <1>f, <2>3, <2>4, <2>6 DEF Stacked, CInv, Nested
  <2> QED
    BY <2>5, <2>6 DEF Nested
<1>10. Batched'
  BY <1>3, <1>f DEF Stacked, CInv, Batched
<1>11. Untaken'
  BY <1>3, <1>5, <1>8, PlaceUntaken
<1>12. Fated'
  BY <1>2, <1>3, <1>5, <1>6, PlaceFated
<1>13. Rested'
  <2>1. pc # "done"
    BY <1>1 DEF CInv, Rested
  <2> QED
    BY <1>3, <2>1 DEF Rested
<1> QED
  BY <1>7, <1>8, <1>9, <1>10, <1>11, <1>12, <1>13 DEF CInv

\* The frame of the folder being read is replaced.
LEMMA TopFrame ==
    ASSUME CInv, Reading, NEW f \in Frame, f.entry = Folder.entry, f.ino = Folder.ino,
           stack' = WithTop(f)
    PROVE  /\ stack' \in Seq(Frame) /\ Len(stack') = Len(stack)
           /\ DOMAIN stack' = DOMAIN stack
           /\ Len(stack) \in DOMAIN stack /\ stack'[Len(stack)] = f /\ Folder' = f
           /\ \A n \in DOMAIN stack : /\ n # Len(stack) => stack'[n] = stack[n]
                                      /\ stack'[n].entry = stack[n].entry
                                      /\ stack'[n].ino = stack[n].ino
BY CTyped DEF WithTop, Folder, Reading

LEMMA RefillCInv == CInv /\ Refill => CInv'
<1> SUFFICES ASSUME CInv, Refill PROVE CInv'
  OBVIOUS
<1>1. PICK ls \in (SUBSET Ahead) \ {{}} :
          stack' = WithTop([Folder EXCEPT !.batch = ls,
                                          !.given = @ \cup {l.name : l \in ls}])
  BY DEF Refill
<1>2. /\ Reading /\ Folder.batch = {} /\ UNCHANGED <<disk, kept, refused, tree, pending, pc>>
      /\ pending = {} /\ pc = "crawl"
  BY DEF Refill, Reading
<1>3. Folder \in Frame
  BY <1>2, FolderTyped DEF CInv
<1>4. PICK f : f = [Folder EXCEPT !.batch = ls, !.given = @ \cup {l.name : l \in ls}]
  OBVIOUS
<1>5. /\ f.entry = Folder.entry /\ f.ino = Folder.ino /\ f.batch = ls
      /\ f.given = Folder.given \cup {l.name : l \in ls}
  BY <1>3, <1>4 DEF Frame
<1>6. \A l \in ls : /\ l \in disk /\ l \in Link /\ l.dir = Folder.ino /\ l.name \notin Folder.given
                    /\ l.name \in f.given
  BY <1>1, <1>5, CTyped DEF Ahead, Links
<1>7. f \in Frame
  BY <1>3, <1>4, <1>6, CTyped DEF Frame
<1>8. /\ DOMAIN stack' = DOMAIN stack /\ Len(stack') = Len(stack)
      /\ Len(stack) \in DOMAIN stack /\ stack'[Len(stack)] = f
      /\ \A n \in DOMAIN stack : /\ n # Len(stack) => stack'[n] = stack[n]
                                 /\ stack'[n].entry = stack[n].entry
                                 /\ stack'[n].ino = stack[n].ino
  BY <1>1, <1>2, <1>4, <1>5, <1>7, TopFrame
<1>9. IInv' /\ Unique' /\ Shape' /\ Pended' /\ Rested'
  BY <1>2, RefillIInv DEF CInv, Unique, Shape, Pended, Rested, tree
<1>10. Nested'
  BY <1>2, <1>8 DEF CInv, Nested, tree
<1>11. Batched'
  <2> SUFFICES ASSUME NEW n \in DOMAIN stack', NEW m \in stack'[n].batch
               PROVE  /\ m.dir = stack'[n].ino /\ m.name \in stack'[n].given
                      /\ \A l \in stack'[n].batch \cup kept' :
                             l.dir = m.dir /\ l.name = m.name => l = m
    BY DEF Batched
  <2>1. CASE n = Len(stack)
    BY <1>2, <1>5, <1>6, <1>8, <2>1 DEF CInv, Unique
  <2>2. CASE n # Len(stack)
    BY <1>2, <1>8, <2>2 DEF CInv, Batched
  <2> QED
    BY <2>1, <2>2
<1>12. Untaken'
  <2> SUFFICES ASSUME NEW n \in DOMAIN stack', NEW nm \in Names, ToCome(n, nm)'
               PROVE  ~Taken(stack[n].entry, nm)'
    BY DEF Untaken
  <2>1. ToCome(n, nm)
    <3>1. CASE n = Len(stack)
      BY <1>2, <1>5, <1>6, <1>8, <3>1 DEF ToCome, Folder
    <3>2. CASE n # Len(stack)
      BY <1>2, <1>8, <3>2 DEF ToCome
    <3> QED
      BY <3>1, <3>2
  <2>2. ~Taken(stack[n].entry, nm)
    BY <1>8, <2>1 DEF CInv, Untaken
  <2> QED
    BY <1>2, <1>8, <2>2 DEF Taken, tree
<1>13. Fated'
  <2> SUFFICES ASSUME NEW p \in Nat, Listed(p)', NEW l \in kept' \ refused',
                      l.dir = entries'[p].ino, Supported(l)
               PROVE  PlacedOnce(l, p)' \/ Coming(l, p)'
    BY DEF Fated, Supported, UseEntry
  <2>1. PlacedOnce(l, p) \/ Coming(l, p)
    BY <1>2 DEF CInv, Fated, Listed, tree
  <2>2. ASSUME Coming(l, p) PROVE Coming(l, p)'
    <3>1. PICK n \in DOMAIN stack :
              /\ stack[n].entry = p
              /\ l.name \notin stack[n].given \/ l \in stack[n].batch
      BY <1>2, <2>2 DEF Coming
    <3>2. CASE n # Len(stack)
      BY <1>8, <3>1, <3>2 DEF Coming
    <3>3. CASE n = Len(stack)
      <4>1. Folder.entry = p /\ l.name \notin Folder.given
        BY <1>2, <3>1, <3>3 DEF Folder
      <4>2. l.dir = Folder.ino
        BY <1>2, <1>8, <4>1 DEF CInv, Nested, Folder, tree
      <4>3. l.name \notin f.given \/ l \in f.batch
        BY <1>2, <1>5, <1>6, <4>1, <4>2 DEF CInv, Unique
      <4> QED
        BY <1>5, <1>8, <4>1, <4>3 DEF Coming
    <3> QED
      BY <3>2, <3>3
  <2> QED
    BY <1>2, <2>1, <2>2, SamePlaces
<1> QED
  BY <1>9, <1>10, <1>11, <1>12, <1>13 DEF CInv

LEMMA ReaddirCInv == CInv /\ Readdir => CInv'
<1> SUFFICES ASSUME CInv, Readdir PROVE CInv'
  OBVIOUS
<1>1. PICK l0 \in Folder.batch :
          /\ stack' = WithTop([Folder EXCEPT !.batch = @ \ {l0}])
          /\ pending' = IF UseEntry(l0) /\ KindOf[l0.ino] \in {"file", "dir"}
                        THEN {[kind |-> KindOf[l0.ino], parent |-> Folder.entry,
                               dir |-> l0.dir, name |-> l0.name, called |-> l0.name]}
                        ELSE {}
  BY DEF Readdir
<1>2. /\ Reading /\ UNCHANGED <<disk, kept, refused, tree, pc>>
      /\ pending = {} /\ pc = "crawl"
  BY DEF Readdir, Reading
<1>3. Folder \in Frame
  BY <1>2, FolderTyped DEF CInv
<1>4. PICK f : f = [Folder EXCEPT !.batch = @ \ {l0}]
  OBVIOUS
<1>5. /\ f.entry = Folder.entry /\ f.ino = Folder.ino /\ f.batch = Folder.batch \ {l0}
      /\ f.given = Folder.given
  BY <1>3, <1>4 DEF Frame
<1>6. f \in Frame
  BY <1>3, <1>4 DEF Frame
<1>7. /\ DOMAIN stack' = DOMAIN stack /\ Len(stack') = Len(stack) /\ Folder' = f
      /\ Len(stack) \in DOMAIN stack /\ stack'[Len(stack)] = f
      /\ \A n \in DOMAIN stack : /\ n # Len(stack) => stack'[n] = stack[n]
                                 /\ stack'[n].entry = stack[n].entry
                                 /\ stack'[n].ino = stack[n].ino
  BY <1>1, <1>2, <1>4, <1>5, <1>6, TopFrame
<1>8. /\ l0.dir = Folder.ino /\ l0.name \in Folder.given
      /\ \A l \in Folder.batch \cup kept : l.dir = l0.dir /\ l.name = l0.name => l = l0
      /\ \A l \in Folder.batch : l.dir = l0.dir
  BY <1>1, <1>7 DEF CInv, Batched, Folder
<1>9. stack' # << >>
  <2>1. DOMAIN << >> = {}
    OBVIOUS
  <2> QED
    BY <1>7, <2>1
<1>10. \A q \in pending' :
          /\ q = [kind |-> KindOf[l0.ino], parent |-> Folder.entry, dir |-> l0.dir,
                  name |-> l0.name, called |-> l0.name]
          /\ Own(q)'
  BY <1>1, <1>2, <1>5, <1>7, <1>8, <1>9 DEF Own
<1>11. Supported(l0) => \E q \in pending' : q.parent = Folder.entry /\ q.name = l0.name
  BY <1>1 DEF Supported
<1>12. \A q \in pending' : q.called = l0.name
  BY <1>10
<1>13. IInv' /\ Unique' /\ Shape' /\ Rested'
  BY <1>2, ReaddirIInv DEF CInv, Unique, Shape, Rested, tree
<1>14. Pended'
  <2>1. \A q, r \in pending' : q = r
    BY <1>10
  <2>2. \A q \in pending' : Own(q)'
    BY <1>10
  <2> QED
    BY <2>1, <2>2 DEF Pended
<1>15. Nested'
  BY <1>2, <1>7 DEF CInv, Nested, tree
<1>16. Batched'
  <2> SUFFICES ASSUME NEW n \in DOMAIN stack', NEW m \in stack'[n].batch
               PROVE  /\ m.dir = stack'[n].ino /\ m.name \in stack'[n].given
                      /\ \A l \in stack'[n].batch \cup kept' :
                             l.dir = m.dir /\ l.name = m.name => l = m
    BY DEF Batched
  <2>1. CASE n = Len(stack)
    BY <1>2, <1>5, <1>7, <2>1 DEF CInv, Batched, Folder
  <2>2. CASE n # Len(stack)
    BY <1>2, <1>7, <2>2 DEF CInv, Batched
  <2> QED
    BY <2>1, <2>2
<1>17. Untaken'
  <2> SUFFICES ASSUME NEW n \in DOMAIN stack', NEW nm \in Names, ToCome(n, nm)'
               PROVE  ~Taken(stack[n].entry, nm)'
    BY DEF Untaken
  <2>1. ToCome(n, nm)
    <3>1. CASE n = Len(stack)
      BY <1>1, <1>5, <1>7, <1>12, <3>1 DEF ToCome, Folder
    <3>2. CASE n # Len(stack)
      BY <1>7, <3>2 DEF ToCome
    <3> QED
      BY <3>1, <3>2
  <2>2. ~Taken(stack[n].entry, nm)
    BY <1>7, <2>1 DEF CInv, Untaken
  <2> QED
    BY <1>2, <1>7, <2>2 DEF Taken, tree
<1>18. Fated'
  <2> SUFFICES ASSUME NEW p \in Nat, Listed(p)', NEW l \in kept' \ refused',
                      l.dir = entries'[p].ino, Supported(l)
               PROVE  PlacedOnce(l, p)' \/ Coming(l, p)'
    BY DEF Fated, Supported, UseEntry
  <2>1. PlacedOnce(l, p) \/ Coming(l, p)
    BY <1>2 DEF CInv, Fated, Listed, tree
  <2>2. ASSUME Coming(l, p) PROVE Coming(l, p)'
    <3>1. PICK n \in DOMAIN stack :
              /\ stack[n].entry = p
              /\ l.name \notin stack[n].given \/ l \in stack[n].batch
      BY <1>2, <2>2 DEF Coming
    <3>2. CASE n # Len(stack)
      BY <1>7, <3>1, <3>2 DEF Coming
    <3>3. CASE n = Len(stack) /\ l # l0
      BY <1>5, <1>7, <3>1, <3>3 DEF Coming, Folder
    <3>4. CASE n = Len(stack) /\ l = l0
      BY <1>7, <1>10, <1>11, <3>1, <3>4 DEF Coming, Folder
    <3> QED
      BY <3>2, <3>3, <3>4
  <2> QED
    BY <1>2, <2>1, <2>2, SamePlaces
<1> QED
  BY <1>13, <1>14, <1>15, <1>16, <1>17, <1>18 DEF CInv

LEMMA CloseCInv == CInv /\ CloseFd => CInv'
<1> SUFFICES ASSUME CInv, CloseFd PROVE CInv'
  OBVIOUS
<1>1. /\ Reading /\ Folder.batch = {} /\ Ahead = {} /\ stack' = Front(stack)
      /\ UNCHANGED <<disk, kept, refused, tree, pending, pc>>
      /\ pending = {} /\ pc = "crawl"
  BY DEF CloseFd, Reading
<1>2. /\ stack' \in Seq(Frame) /\ Len(stack') = Len(stack) - 1
      /\ \A n \in DOMAIN stack' : n \in DOMAIN stack /\ stack'[n] = stack[n]
      /\ stack \in Seq(Frame)
  <2>1. stack \in Seq(Frame) /\ stack # << >>
    BY <1>1, FolderTyped DEF CInv
  <2> QED
    BY <1>1, <2>1, FrontStep DEF Front
<1>3. \A n \in DOMAIN stack : n \in DOMAIN stack' \/ n = Len(stack)
  BY <1>2
<1>4. IInv' /\ Unique' /\ Shape' /\ Pended' /\ Rested'
  BY <1>1, CloseIInv DEF CInv, Unique, Shape, Pended, Rested, tree
<1>5. Nested' /\ Batched'
  BY <1>1, <1>2 DEF CInv, Nested, Batched, tree
<1>6. Untaken'
  BY <1>1, <1>2 DEF CInv, Untaken, ToCome, Taken, tree
<1>7. Fated'
  <2> SUFFICES ASSUME NEW p \in Nat, Listed(p)', NEW l \in kept' \ refused',
                      l.dir = entries'[p].ino, Supported(l)
               PROVE  PlacedOnce(l, p)' \/ Coming(l, p)'
    BY DEF Fated, Supported, UseEntry
  <2>1. PlacedOnce(l, p) \/ Coming(l, p)
    BY <1>1 DEF CInv, Fated, Listed, tree
  <2>2. ASSUME Coming(l, p) PROVE Coming(l, p)'
    <3>1. PICK n \in DOMAIN stack :
              /\ stack[n].entry = p
              /\ l.name \notin stack[n].given \/ l \in stack[n].batch
      BY <1>1, <2>2 DEF Coming
    <3>2. CASE n \in DOMAIN stack'
      BY <1>2, <3>1, <3>2 DEF Coming
    <3>3. CASE n = Len(stack)
      <4>1. l.name \notin Folder.given /\ Folder.entry = p
        BY <1>1, <3>1, <3>3 DEF Folder
      <4>2. l.dir = Folder.ino /\ l \in disk
        BY <1>1, <3>3, <4>1, CTyped DEF CInv, Nested, Folder, tree
      <4> QED
        BY <1>1, <4>1, <4>2 DEF Ahead, Links
    <3> QED
      BY <1>3, <3>2, <3>3
  <2> QED
    BY <1>1, <2>1, <2>2, SamePlaces
<1> QED
  BY <1>4, <1>5, <1>6, <1>7 DEF CInv

LEMMA InsertCInv == CInv /\ InsertStat => CInv'
<1> SUFFICES ASSUME CInv, InsertStat PROVE CInv'
  OBVIOUS
<1>1. /\ stack = << >> /\ pc = "crawl"
      /\ UNCHANGED <<disk, kept, refused, tree, stack, pc>>
  BY DEF InsertStat
<1>2. DOMAIN stack = {}
  BY <1>1
<1>4. IInv' /\ Unique' /\ Shape' /\ Nested' /\ Batched' /\ Untaken' /\ Rested'
  BY <1>1, <1>2, InsertIInv DEF CInv, Unique, Shape, Nested, Batched, Untaken, Rested, tree
<1>5. Pended'
  <2>1. ASSUME NEW q \in pending' PROVE q.called \in Inodes \X Names
    <3>1. PICK l \in disk : q.called = <<l.dir, l.name>>
      BY DEF InsertStat, At
    <3> QED
      BY <3>1, CTyped
  <2>2. ASSUME NEW q \in pending', NEW r \in pending' PROVE q = r
    <3>1. \A l, m \in At(Head(args).dir, Head(args).name) : l = m
      BY DEF At, CInv, Unique
    <3> QED
      BY <3>1 DEF InsertStat
  <2> QED
    BY <2>1, <2>2 DEF Pended
<1>6. Fated'
  <2> SUFFICES ASSUME NEW p \in Nat, Listed(p)', NEW l \in kept' \ refused',
                      l.dir = entries'[p].ino, Supported(l)
               PROVE  PlacedOnce(l, p)' \/ Coming(l, p)'
    BY DEF Fated, Supported, UseEntry
  <2>1. PlacedOnce(l, p) \/ Coming(l, p)
    BY <1>1 DEF CInv, Fated, Listed, tree
  <2>2. ~Coming(l, p)
    BY <1>2 DEF Coming
  <2> QED
    BY <1>1, <2>1, <2>2, SamePlaces
<1> QED
  BY <1>4, <1>5, <1>6 DEF CInv

LEMMA DisturbCInv == CInv /\ Disturb => CInv'
<1> SUFFICES ASSUME CInv, Disturb PROVE CInv'
  OBVIOUS
<1>1. UNCHANGED <<refused, tree, stack, pending, pc>>
  BY DEF Disturb, Create, Unlink, Others
<1>2. kept' \subseteq kept
  BY DEF Disturb, Create, Unlink
<1>3. Unique'
  <2>1. CASE \E m \in Creatable : Create(m)
    BY <2>1 DEF Create, At, CInv, Unique
  <2>2. CASE \E m \in disk : Unlink(m)
    BY <2>2 DEF Unlink, CInv, Unique
  <2> QED
    BY <2>1, <2>2 DEF Disturb
<1>4. IInv' /\ Shape' /\ Nested' /\ Rested'
  BY <1>1, DisturbIInv DEF CInv, Shape, Nested, Rested, tree
<1>5. Batched'
  BY <1>1, <1>2 DEF CInv, Batched
<1>6. \A q : Own(q) => Own(q)'
  BY <1>1, <1>2 DEF Own, Folder
<1>7. Pended'
  BY <1>1, <1>6 DEF CInv, Pended
<1>8. Untaken'
  BY <1>1 DEF CInv, Untaken, ToCome, Taken, tree
<1>9. Fated'
  <2> SUFFICES ASSUME NEW p \in Nat, Listed(p)', NEW l \in kept' \ refused',
                      l.dir = entries'[p].ino, Supported(l)
               PROVE  PlacedOnce(l, p)' \/ Coming(l, p)'
    BY DEF Fated, Supported, UseEntry
  <2>1. PlacedOnce(l, p) \/ Coming(l, p)
    BY <1>1, <1>2 DEF CInv, Fated, Listed, tree
  <2>2. Coming(l, p) => Coming(l, p)'
    BY <1>1, <1>6 DEF Coming
  <2> QED
    BY <1>1, <2>1, <2>2, SamePlaces
<1> QED
  BY <1>3, <1>4, <1>5, <1>7, <1>8, <1>9 DEF CInv

LEMMA NextCInv == CInv /\ [Next]_vars => CInv'
<1> SUFFICES ASSUME CInv, [Next]_vars PROVE CInv'
  OBVIOUS
<1>1. CASE RaiseFdLimit \/ KeepFdLimit
  BY <1>1, IdleCInv DEF RaiseFdLimit, KeepFdLimit, Rested
<1>2. CASE Crawled
  BY <1>2, IdleCInv DEF Crawled, Rested
<1>3. CASE UNCHANGED vars
  BY <1>3, IdleCInv DEF vars, CInv, Rested
<1> QED
  BY <1>1, <1>2, <1>3, OpenRootCInv, PlaceChildCInv, RefusedCInv, RefillCInv, ReaddirCInv,
     CloseCInv, InsertCInv, DisturbCInv DEF Next, Crawl

\* What was in a folder that was read, all the while, is in the tree once,
\* unless it could not be opened (Hierarchy::traverse, placeChild).
THEOREM NothingLeftOut == Spec => []Complete
<1>1. Init => CInv
  BY InitCInv
<1>2. CInv /\ [Next]_vars => CInv'
  BY NextCInv
<1>3. CInv => Complete
  <2> SUFFICES ASSUME CInv, pc = "done", NEW p \in Range(pathTable), NEW l \in kept \ refused,
                      l.dir = entries[p].ino, Supported(l)
               PROVE  PlacedOnce(l, p)
    BY DEF Complete
  <2>1. Listed(p) /\ p \in Nat
    BY CTyped DEF Range, Listed
  <2>2. ~Coming(l, p)
    BY DEF CInv, Rested, Coming
  <2> QED
    BY <2>1, <2>2 DEF CInv, Fated
<1> QED
  BY <1>1, <1>2, <1>3, PTL DEF Spec
==============================================================================
