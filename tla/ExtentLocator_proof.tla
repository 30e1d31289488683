------------------------- MODULE ExtentLocator_proof -------------------------
(***************************************************************************)
(* Proofs about ExtentLocator, for any files on any devices and any number *)
(* of changes by others: a place that is listed for a file was the file's  *)
(* at some time.  What the locator has read stands between the two calls   *)
(* in one buffer for all files; it is this file's up to fm_mapped_extents, *)
(* unless the file was counted as empty.                                   *)
(***************************************************************************)
EXTENDS ExtentLocator, SequenceTheorems, TLAPS

Surfaces == {"surface 1", "surface 2"}
Answer == [surface : Surfaces \cup {"zero", NoSurface}, block : Blocks \cup {0}]

Typed ==
    /\ content \in [Files -> Seq(FileExtent)]
    /\ had \in [Files -> SUBSET Blocks]
    /\ \A d \in DOMAIN substitute : substitute[d] \in Surfaces
    /\ file \in Files
    /\ count \in Nat /\ mapped \in Nat /\ extNo \in Nat
    /\ buffer \in Seq(FileExtent)
    /\ xList \in Seq(Answer)

Had == \A f \in Files : PlacesOf(content[f]) \subseteq had[f]

Fresh == /\ pc \in {"next", "count", "list"} => xList = << >>
         /\ pc = "read" => extNo >= 1

Filled ==
    pc = "read" /\ file \notin unlisted =>
        \A i \in 1 .. mapped :
            /\ i \in DOMAIN buffer
            /\ buffer[i].kind \in Placed => buffer[i].block \in had[file]

Shown(f, x) == \/ x = Blank
               \/ x.surface = Surface(f) /\ x.block \in had[f]

Collected ==
    file \notin unlisted => \A i \in DOMAIN xList : Shown(file, xList[i])

Answerable ==
    \A f \in DOMAIN answers \ unlisted :
        f \in Files /\ \A i \in DOMAIN answers[f] : Shown(f, answers[f][i])

IInv == Typed /\ Had /\ Fresh /\ Filled /\ Collected /\ Answerable

-----------------------------------------------------------------------------
LEMMA MinOfTwo ==
    ASSUME NEW a \in Nat, NEW b \in Nat
    PROVE  /\ Min({a, b}) \in Nat
           /\ Min({a, b}) <= a /\ Min({a, b}) <= b
<1>1. CASE a <= b
  <2>1. a \in {a, b} /\ \A y \in {a, b} : a <= y
    BY <1>1
  <2> QED
    BY <2>1 DEF Min
<1>2. CASE b <= a
  <2>1. b \in {a, b} /\ \A y \in {a, b} : b <= y
    BY <1>2
  <2> QED
    BY <2>1 DEF Min
<1> QED
  BY <1>1, <1>2

LEMMA PlacesAreBlocks ==
    ASSUME NEW s \in Seq(FileExtent)
    PROVE  PlacesOf(s) \subseteq Blocks
<1> SUFFICES ASSUME NEW i \in DOMAIN s, s[i].block # Nowhere PROVE s[i].block \in Blocks
  BY DEF PlacesOf
<1>1. s[i] \in FileExtent
  OBVIOUS
<1> QED
  BY <1>1 DEF FileExtent

LEMMA InitIInv == Init => IInv
<1> SUFFICES ASSUME Init PROVE IInv
  OBVIOUS
<1>1. content \in [Files -> Seq(FileExtent)]
  <2>1. ASSUME NEW f \in Files PROVE content[f] \in Seq(FileExtent)
    <3>1. content[f] \in UNION {[1 .. n -> FileExtent] : n \in 0 .. MaxExtents}
      BY DEF Init
    <3>2. PICK n \in 0 .. MaxExtents : content[f] \in [1 .. n -> FileExtent]
      BY <3>1
    <3>3. n \in Nat
      BY LocatorAssumption
    <3> QED
      BY <3>2, <3>3
  <2>2. content \in [Files -> UNION {[1 .. n -> FileExtent] : n \in 0 .. MaxExtents}]
    BY DEF Init
  <2> QED
    BY <2>1, <2>2
<1>2. \A d \in DOMAIN substitute : substitute[d] \in Surfaces
  <2>1. PICK ds \in SUBSET Devices : substitute \in Injection(ds, Surfaces)
    BY DEF Init, Surfaces
  <2> QED
    BY <2>1 DEF Injection
<1>3. ASSUME NEW f \in Files PROVE PlacesOf(content[f]) \subseteq Blocks
  BY <1>1, PlacesAreBlocks
<1>4. had = [f \in Files |-> PlacesOf(content[f])]
  BY DEF Init
<1>5. Typed
  <2>1. had \in [Files -> SUBSET Blocks]
    BY <1>3, <1>4
  <2>2. /\ file \in Files /\ count = 0 /\ mapped = 0 /\ extNo = 0
        /\ buffer = << >> /\ xList = << >>
    BY DEF Init
  <2> QED
    BY <1>1, <1>2, <2>1, <2>2 DEF Typed
<1>6. Had
  BY <1>4 DEF Had
<1>7. pc = "next" /\ xList = << >> /\ answers = << >>
  BY DEF Init
<1> QED
  BY <1>5, <1>6, <1>7 DEF IInv, Fresh, Filled, Collected, Answerable

-----------------------------------------------------------------------------
(***************************************************************************)
(* The file system.  A place a file was given remains one it had.          *)
(***************************************************************************)
LEMMA AllocateStep ==
    ASSUME IInv, NEW f \in Files, Allocate(f)
    PROVE  /\ content' \in [Files -> Seq(FileExtent)]
           /\ had' \in [Files -> SUBSET Blocks]
           /\ Had'
           /\ \A g \in Files : had[g] \subseteq had'[g]
<1>1. Typed /\ Had
  BY DEF IInv
<1> DEFINE xs(place) == [i \in DOMAIN content[f] |->
                            IF i \in Waiting(f)
                            THEN [kind |-> "mapped", block |-> place[i]]
                            ELSE content[f][i]]
<1>2. PICK place \in Injection(Waiting(f), Free(device[f])) :
          /\ content' = [content EXCEPT ![f] = xs(place)]
          /\ had' = [had EXCEPT ![f] = @ \cup PlacesOf(xs(place))]
  BY DEF Allocate
<1>3. place \in [Waiting(f) -> Blocks]
  BY <1>2 DEF Injection, Free
<1>4. content[f] \in Seq(FileExtent)
  BY <1>1 DEF Typed
<1>5. ASSUME NEW i \in DOMAIN content[f] PROVE xs(place)[i] \in FileExtent
  <2>1. CASE i \in Waiting(f)
    <3>1. xs(place)[i] = [kind |-> "mapped", block |-> place[i]] /\ place[i] \in Blocks
      BY <2>1, <1>3
    <3> QED
      BY <3>1 DEF FileExtent, Placed
  <2>2. CASE i \notin Waiting(f)
    BY <2>2, <1>4
  <2> QED
    BY <2>1, <2>2
<1>6. xs(place) \in Seq(FileExtent)
  <2>1. Len(content[f]) \in Nat /\ DOMAIN content[f] = 1 .. Len(content[f])
    BY <1>4
  <2>2. xs(place) \in [1 .. Len(content[f]) -> FileExtent]
    BY <1>5, <2>1
  <2> HIDE DEF xs
  <2> QED
    BY <2>1, <2>2
<1>7. PlacesOf(xs(place)) \subseteq Blocks
  BY <1>6, PlacesAreBlocks
<1> HIDE DEF xs
<1>8. /\ content' \in [Files -> Seq(FileExtent)]
      /\ had' \in [Files -> SUBSET Blocks]
      /\ \A g \in Files : had[g] \subseteq had'[g]
  BY <1>1, <1>2, <1>6, <1>7 DEF Typed
<1>9. ASSUME NEW g \in Files PROVE PlacesOf(content'[g]) \subseteq had'[g]
  <2>1. CASE g = f
    BY <2>1, <1>1, <1>2 DEF Typed
  <2>2. CASE g # f
    BY <2>2, <1>1, <1>2 DEF Typed, Had
  <2> QED
    BY <2>1, <2>2
<1>10. Had'
  BY <1>9 DEF Had, PlacesOf
<1> QED
  BY <1>8, <1>10

\* What was shown for a file remains so while nothing but places are added.
LEMMA StillShown ==
    ASSUME \A g \in Files : had[g] \subseteq had'[g], UNCHANGED <<device, substitute>>,
           NEW f \in Files, NEW x, Shown(f, x)
    PROVE  Shown(f, x)'
BY DEF Shown, Surface

\* A step of others leaves what the locator has collected.
LEMMA ChangeStep ==
    ASSUME IInv,
           content' \in [Files -> Seq(FileExtent)], had' \in [Files -> SUBSET Blocks], Had',
           \A g \in Files : had[g] \subseteq had'[g],
           UNCHANGED <<device, substitute, unlisted, pc, file, count, buffer, mapped,
                       extNo, xList, answers>>
    PROVE  IInv'
<1>1. Typed' /\ Fresh'
  BY DEF IInv, Typed, Fresh
<1>2. Filled'
  BY DEF IInv, Typed, Filled
<1>3. Collected'
  BY StillShown DEF IInv, Typed, Collected
<1>4. Answerable'
  BY StillShown DEF IInv, Answerable
<1> QED
  BY <1>1, <1>2, <1>3, <1>4 DEF IInv

LEMMA GrowIInv == \A f \in Files : IInv /\ Grow(f) => IInv'
<1> SUFFICES ASSUME NEW f \in Files, IInv, Grow(f) PROVE IInv'
  OBVIOUS
<1> DEFINE new == [kind |-> "delalloc", block |-> Nowhere]
           xs == Append(content[f], new)
<1>1. /\ content' = [content EXCEPT ![f] = xs] /\ had' = had
      /\ UNCHANGED <<device, substitute, unlisted, pc, file, count, buffer, mapped,
                     extNo, xList, answers>>
  BY DEF Grow, Change
<1>2. content \in [Files -> Seq(FileExtent)] /\ had \in [Files -> SUBSET Blocks] /\ Had
  BY DEF IInv, Typed
<1>3. new \in FileExtent
  BY DEF FileExtent, Placed, Unknown, Kinds
<1>4. xs \in Seq(FileExtent) /\ \A i \in DOMAIN xs :
          xs[i] = new \/ (i \in DOMAIN content[f] /\ xs[i] = content[f][i])
  BY <1>2, <1>3
<1>5. PlacesOf(xs) \subseteq PlacesOf(content[f])
  BY <1>4 DEF PlacesOf
<1> HIDE DEF xs
<1>6. content' \in [Files -> Seq(FileExtent)]
  BY <1>1, <1>2, <1>4
<1>7. \A g \in Files : PlacesOf(content'[g]) \subseteq had'[g]
  BY <1>1, <1>2, <1>5 DEF Had
<1>8. Had'
  BY <1>7 DEF Had, PlacesOf
<1> QED
  BY <1>1, <1>2, <1>6, <1>8, ChangeStep

LEMMA TruncateIInv == \A f \in Files : IInv /\ Truncate(f) => IInv'
<1> SUFFICES ASSUME NEW f \in Files, IInv, Truncate(f) PROVE IInv'
  OBVIOUS
<1>1. /\ content' = [content EXCEPT ![f] = << >>] /\ had' = had
      /\ UNCHANGED <<device, substitute, unlisted, pc, file, count, buffer, mapped,
                     extNo, xList, answers>>
  BY DEF Truncate, Change
<1>2. content \in [Files -> Seq(FileExtent)] /\ had \in [Files -> SUBSET Blocks] /\ Had
  BY DEF IInv, Typed
<1>3. content' \in [Files -> Seq(FileExtent)]
  BY <1>1, <1>2
<1>4. PlacesOf(<< >>) = {}
  BY DEF PlacesOf
<1>5. \A g \in Files : PlacesOf(content'[g]) \subseteq had'[g]
  BY <1>1, <1>2, <1>4 DEF Had
<1>6. Had'
  BY <1>5 DEF Had, PlacesOf
<1> QED
  BY <1>1, <1>2, <1>3, <1>6, ChangeStep

LEMMA WritebackIInv == \A f \in Files : IInv /\ Writeback(f) => IInv'
BY AllocateStep, ChangeStep DEF Writeback, Change

-----------------------------------------------------------------------------
(***************************************************************************)
(* The locator.                                                            *)
(***************************************************************************)
LEMMA ResolveIInv == \A f \in Files : IInv /\ Resolve(f) => IInv'
BY DEF IInv, Typed, Had, PlacesOf, Fresh, Filled, Collected, Answerable, Shown, Surface,
       Resolve

\* A call to the kernel, with a sync or without.
LEMMA SyncedStep ==
    ASSUME IInv, Synced
    PROVE  /\ content' \in [Files -> Seq(FileExtent)]
           /\ had' \in [Files -> SUBSET Blocks]
           /\ Had'
           /\ \A g \in Files : had[g] \subseteq had'[g]
<1>1. CASE co = "Fsync"
  BY <1>1, AllocateStep DEF Synced, IInv, Typed
<1>2. CASE co # "Fsync"
  BY <1>2 DEF Synced, IInv, Typed, Had, PlacesOf
<1> QED
  BY <1>1, <1>2

LEMMA CountIInv == IInv /\ Count => IInv'
<1> SUFFICES ASSUME IInv, Count PROVE IInv'
  OBVIOUS
<1>1. /\ pc = "count" /\ pc' = "list" /\ count' = Len(content[file])
      /\ UNCHANGED <<device, substitute, unlisted, file, buffer, mapped, extNo, xList,
                     answers>>
      /\ Synced
  BY DEF Count
<1>2. Typed' /\ Had' /\ Fresh' /\ Filled'
  BY <1>1, SyncedStep DEF IInv, Typed, Fresh, Filled
<1>3. Collected'
  BY <1>1 DEF IInv, Fresh, Collected
<1>4. Answerable'
  BY <1>1, SyncedStep, StillShown DEF IInv, Answerable
<1> QED
  BY <1>2, <1>3, <1>4 DEF IInv

LEMMA ListIInv == IInv /\ List => IInv'
<1> SUFFICES ASSUME IInv, List PROVE IInv'
  OBVIOUS
<1> DEFINE now == content'[file]
           n == Min({count, Len(now)})
           old == SubSeq(buffer, n + 1, Len(buffer))
<1>1. /\ pc = "list" /\ pc' = "read" /\ extNo' = 1
      /\ mapped' = ToRead(now)
      /\ buffer' = SubSeq(now, 1, n) \o old
      /\ unlisted' = IF count = 0 /\ now # << >> THEN unlisted \cup {file} ELSE unlisted
      /\ UNCHANGED <<device, substitute, file, count, xList, answers>>
      /\ Synced
  BY DEF List
<1>2. Typed
  BY DEF IInv
<1>3. now \in Seq(FileExtent) /\ Len(now) \in Nat /\ count \in Nat /\ file \in Files
  BY <1>2, SyncedStep, <1>1 DEF Typed
<1>4. n \in Nat /\ n <= count /\ n <= Len(now)
  BY <1>3, MinOfTwo
<1>5. mapped' \in Nat /\ (file \notin unlisted' => mapped' = n)
  BY <1>1, <1>3, <1>4 DEF ToRead
<1> HIDE DEF n, now
<1>6. /\ SubSeq(now, 1, n) \in Seq(FileExtent) /\ Len(SubSeq(now, 1, n)) = n
      /\ \A i \in 1 .. n : SubSeq(now, 1, n)[i] = now[i]
  <2>1. n \in Int /\ 1 \in Int /\ \A i \in 1 .. n : now[i] \in FileExtent
    BY <1>3, <1>4
  <2>2. /\ SubSeq(now, 1, n) \in Seq(FileExtent)
        /\ Len(SubSeq(now, 1, n)) = IF 1 <= n THEN n - 1 + 1 ELSE 0
        /\ \A i \in 1 .. n - 1 + 1 : SubSeq(now, 1, n)[i] = now[1 + i - 1]
    BY <2>1, SubSeqProperties
  <2> QED
    BY <2>2, <1>4
<1>7. old \in Seq(FileExtent)
  <2>1. n + 1 \in Int /\ Len(buffer) \in Int
    BY <1>2, <1>4 DEF Typed
  <2>2. \A i \in n + 1 .. Len(buffer) : buffer[i] \in FileExtent
    BY <1>2, <1>4 DEF Typed
  <2> QED
    BY <2>1, <2>2, SubSeqProperties
<1> HIDE DEF old
<1>8. /\ buffer' \in Seq(FileExtent)
      /\ \A i \in 1 .. n : i \in DOMAIN buffer' /\ buffer'[i] = now[i]
  BY <1>1, <1>4, <1>6, <1>7
<1>9. Typed' /\ Had' /\ Fresh'
  BY <1>1, <1>2, <1>5, <1>8, SyncedStep DEF IInv, Typed, Fresh
<1>10. Filled'
  <2>1. ASSUME NEW i \in 1 .. n, now[i].kind \in Placed PROVE now[i].block \in had'[file]
    <3>1. i \in DOMAIN now /\ now[i] \in FileExtent
      BY <1>3, <1>4
    <3>2. now[i].block # Nowhere
      BY <2>1, <3>1, LocatorAssumption DEF FileExtent
    <3>3. now[i].block \in PlacesOf(now)
      BY <3>1, <3>2 DEF PlacesOf
    <3>4. PlacesOf(now) \subseteq had'[file]
      BY <1>1, <1>3, SyncedStep DEF Had, PlacesOf, now
    <3> QED
      BY <3>3, <3>4
  <2> QED
    BY <1>1, <1>5, <1>8, <2>1 DEF Filled
<1>11. Collected'
  BY <1>1 DEF IInv, Fresh, Collected
<1>12. Answerable'
  <2>1. unlisted \subseteq unlisted'
    BY <1>1
  <2> QED
    BY <2>1, <1>1, SyncedStep, StillShown DEF IInv, Answerable
<1> QED
  BY <1>9, <1>10, <1>11, <1>12 DEF IInv

LEMMA ReturnStep ==
    ASSUME IInv, Return(xList), UNCHANGED <<env, unlisted, file, buffer>>
    PROVE  IInv'
<1>1. Typed' /\ Had' /\ Fresh' /\ Filled' /\ Collected'
  BY DEF IInv, Return, env, Typed, Had, PlacesOf, Fresh, Filled, Collected
<1>2. Answerable'
  BY DEF IInv, Return, env, Typed, Collected, Answerable, Shown, Surface
<1> QED
  BY <1>1, <1>2 DEF IInv

LEMMA IoctlFailsIInv == IInv /\ IoctlFails => IInv'
<1> SUFFICES ASSUME IInv, IoctlFails PROVE IInv'
  OBVIOUS
<1>1. Typed' /\ Had' /\ Fresh' /\ Filled' /\ Collected'
  BY DEF IInv, IoctlFails, Return, Typed, Had, PlacesOf, Fresh, Filled, Collected
<1>2. Answerable'
  BY DEF IInv, IoctlFails, Return, Typed, Collected, Answerable, Shown, Surface
<1> QED
  BY <1>1, <1>2 DEF IInv

LEMMA ReadIInv == IInv /\ Read => IInv'
<1> SUFFICES ASSUME IInv, Read PROVE IInv'
  OBVIOUS
<1>1. /\ pc = "read" /\ extNo <= mapped
      /\ UNCHANGED <<device, substitute, content, had, unlisted, file, count, buffer,
                     mapped, answers>>
  BY DEF Read, env
<1>2. Typed /\ Fresh
  BY DEF IInv
<1>3. Had' /\ Answerable'
  BY <1>1 DEF IInv, Had, PlacesOf, Answerable, Shown, Surface
<1>4. PICK raw \in Raw(extNo) :
          IF AskAgain(raw)
          THEN Retry /\ extNo' = extNo
          ELSE /\ xList' = Append(xList, Listed(raw))
               /\ extNo' = extNo + 1 /\ pc' = pc
  BY DEF Read
<1>5. raw \in FileExtent
  BY <1>2, <1>4 DEF Raw, Typed
<1>6. CASE AskAgain(raw)
  <2>1. pc' = "count" /\ xList' = << >> /\ extNo' = extNo
    BY <1>4, <1>6 DEF Retry
  <2> QED
    BY <1>1, <1>2, <1>3, <2>1 DEF IInv, Typed, Fresh, Filled, Collected
<1>7. CASE ~AskAgain(raw)
  <2>1. /\ xList' = Append(xList, Listed(raw)) /\ extNo' = extNo + 1 /\ pc' = pc
    BY <1>4, <1>7
  <2>2. ~CantMap(raw) => raw.kind \in Placed /\ raw.block \in Blocks
    BY <1>5 DEF CantMap, FileExtent, Kinds
  <2>3. Listed(raw) \in Answer
    BY <1>2, <2>2 DEF Listed, Answer, Blank, Surface, Typed
  <2>4. /\ xList' \in Seq(Answer)
        /\ \A i \in DOMAIN xList' :
              xList'[i] = Listed(raw) \/ (i \in DOMAIN xList /\ xList'[i] = xList[i])
    BY <1>2, <2>1, <2>3 DEF Typed
  <2>5. Typed'
    BY <1>1, <1>2, <2>1, <2>4 DEF Typed
  <2>6. Fresh' /\ Filled'
    BY <1>1, <1>2, <2>1 DEF IInv, Typed, Fresh, Filled
  <2>7. ASSUME file \notin unlisted PROVE Shown(file, Listed(raw))
    <3>1. extNo \in 1 .. mapped
      BY <1>1, <1>2 DEF Typed, Fresh
    <3>2. extNo \in DOMAIN buffer /\ (buffer[extNo].kind \in Placed =>
                                        buffer[extNo].block \in had[file])
      BY <1>1, <2>7, <3>1 DEF IInv, Filled
    <3>3. raw = buffer[extNo]
      BY <1>4, <3>2 DEF Raw
    <3> QED
      BY <2>2, <3>2, <3>3 DEF Shown, Listed
  <2>8. Collected'
    <3>1. ASSUME file \notin unlisted, NEW i \in DOMAIN xList' PROVE Shown(file, xList'[i])
      BY <3>1, <2>4, <2>7 DEF IInv, Collected
    <3> QED
      BY <1>1, <3>1 DEF Collected, Shown, Surface
  <2> QED
    BY <1>3, <2>5, <2>8, <2>6 DEF IInv
<1> QED
  BY <1>6, <1>7

LEMMA NextIInv == IInv /\ [Next]_vars => IInv'
<1> SUFFICES ASSUME IInv, [Next]_vars PROVE IInv'
  OBVIOUS
<1>1. CASE \E f \in Files : Resolve(f)
  BY <1>1, ResolveIInv
<1>2. CASE Peek
  BY <1>2, CountIInv, ListIInv, ReadIInv, IoctlFailsIInv, ReturnStep DEF Peek, Finish
<1>3. CASE Disturb
  BY <1>3, GrowIInv, TruncateIInv, WritebackIInv DEF Disturb
<1>4. CASE UNCHANGED vars
  BY <1>4 DEF vars, env, IInv, Typed, Had, PlacesOf, Fresh, Filled, Collected, Answerable,
              Shown, Surface
<1> QED
  BY <1>1, <1>2, <1>3, <1>4 DEF Next, Locate

LEMMA Invariant == Spec => []IInv
<1>1. Init => IInv
  BY InitIInv
<1>2. IInv /\ [Next]_vars => IInv'
  BY NextIInv
<1> QED
  BY <1>1, <1>2, PTL DEF Spec

\* An extent charted on a surface is on the file's own device, at a place
\* that was the file's at some time, whatever others do to the files between
\* the calls (ExtentIoc::peek).
THEOREM NothingForeignAlways == Spec => []NothingForeign
<1>1. IInv => NothingForeign
  BY DEF IInv, Answerable, Shown, Surface, NothingForeign, Foreign, OfDisk
<1> QED
  BY <1>1, Invariant, PTL
-----------------------------------------------------------------------------
(***************************************************************************)
(* A file that is left alone.  Between the calls, and from one turn of the *)
(* loop to the next, the file keeps its number of extents; only those that *)
(* wait for a place change, and none of these is listed before the sync,   *)
(* nor waits after it.                                                     *)
(***************************************************************************)
SeenAs(raw, x) == raw = x \/ (co # "Fsync" /\ raw.kind = "delalloc")

Given(x, answer) ==
    /\ x.kind # "delalloc"
    /\ IF x.kind \in Placed
       THEN answer = [surface |-> Surface(file), block |-> x.block]
       ELSE answer = Blank

Tracked ==
    file \notin touched =>
        /\ pc = "list" => count = Len(content[file])
        /\ pc = "read" =>
              /\ mapped = Len(content[file]) /\ extNo <= mapped + 1
              /\ Len(xList) = extNo - 1
              /\ \A i \in 1 .. mapped :
                    /\ i \in DOMAIN buffer
                    /\ SeenAs(buffer[i], content[file][i])
                    /\ co = "Fsync" => content[file][i].kind # "delalloc"
              /\ \A i \in 1 .. extNo - 1 : Given(content[file][i], xList[i])

TInv == IInv /\ Tracked

\* The kernel gives places to what waits for one, and changes nothing else.
LEMMA AllocatedOnly ==
    ASSUME IInv, NEW f \in Files, Allocate(f)
    PROVE  /\ \A g \in Files \ {f} : content'[g] = content[g]
           /\ Len(content'[f]) = Len(content[f])
           /\ \A i \in 1 .. Len(content[f]) :
                 /\ content'[f][i].kind # "delalloc"
                 /\ content[f][i].kind # "delalloc" => content'[f][i] = content[f][i]
<1>1. content \in [Files -> Seq(FileExtent)] /\ content[f] \in Seq(FileExtent)
  BY DEF IInv, Typed
<1> DEFINE xs(place) == [i \in DOMAIN content[f] |->
                            IF i \in Waiting(f)
                            THEN [kind |-> "mapped", block |-> place[i]]
                            ELSE content[f][i]]
<1>2. PICK place \in Injection(Waiting(f), Free(device[f])) :
          content' = [content EXCEPT ![f] = xs(place)]
  BY DEF Allocate
<1>3. content'[f] = xs(place) /\ \A g \in Files \ {f} : content'[g] = content[g]
  BY <1>1, <1>2
<1>4. DOMAIN content[f] = 1 .. Len(content[f]) /\ Len(content[f]) \in Nat
  BY <1>1
<1>5. \A i \in 1 .. Len(content[f]) :
          xs(place)[i] = IF i \in Waiting(f) THEN [kind |-> "mapped", block |-> place[i]]
                         ELSE content[f][i]
  BY <1>4
<1>6. Len(xs(place)) = Len(content[f])
  BY <1>4
<1> HIDE DEF xs
<1>7. \A i \in 1 .. Len(content[f]) : i \in Waiting(f) <=> content[f][i].kind = "delalloc"
  BY <1>4 DEF Waiting
<1>8. ASSUME NEW i \in 1 .. Len(content[f])
      PROVE  /\ xs(place)[i].kind # "delalloc"
             /\ content[f][i].kind # "delalloc" => xs(place)[i] = content[f][i]
  <2>1. CASE i \in Waiting(f)
    <3>1. xs(place)[i] = [kind |-> "mapped", block |-> place[i]]
      BY <1>5, <2>1
    <3>2. xs(place)[i].kind = "mapped"
      BY <3>1
    <3> QED
      BY <1>7, <2>1, <3>2
  <2>2. CASE i \notin Waiting(f)
    BY <1>5, <1>7, <2>2
  <2> QED
    BY <2>1, <2>2
<1> QED
  BY <1>3, <1>6, <1>8

LEMMA GrowTracked == \A f \in Files : TInv /\ Grow(f) => Tracked'
<1> SUFFICES ASSUME NEW f \in Files, TInv, Grow(f), file' \notin touched' PROVE Tracked'
  BY DEF Tracked
<1>1. /\ UNCHANGED <<device, substitute, pc, file, co, count, buffer, mapped, extNo, xList>>
      /\ touched' = IF Busy(f) THEN touched \cup {f} ELSE touched
  BY DEF Grow, Change
<1>2. CASE pc \in {"list", "read"}
  <2>1. f # file
    BY <1>1, <1>2 DEF Busy
  <2>2. content'[file] = content[file] /\ file \notin touched
    BY <1>1, <2>1 DEF Grow, TInv, IInv, Typed
  <2> QED
    BY <1>1, <2>2 DEF TInv, Tracked, SeenAs, Given, Surface
<1>3. CASE pc \notin {"list", "read"}
  BY <1>1, <1>3 DEF Tracked
<1> QED
  BY <1>2, <1>3

LEMMA TruncateTracked == \A f \in Files : TInv /\ Truncate(f) => Tracked'
<1> SUFFICES ASSUME NEW f \in Files, TInv, Truncate(f), file' \notin touched' PROVE Tracked'
  BY DEF Tracked
<1>1. /\ UNCHANGED <<device, substitute, pc, file, co, count, buffer, mapped, extNo, xList>>
      /\ touched' = IF Busy(f) THEN touched \cup {f} ELSE touched
  BY DEF Truncate, Change
<1>2. CASE pc \in {"list", "read"}
  <2>1. f # file
    BY <1>1, <1>2 DEF Busy
  <2>2. content'[file] = content[file] /\ file \notin touched
    BY <1>1, <2>1 DEF Truncate, TInv, IInv, Typed
  <2> QED
    BY <1>1, <2>2 DEF TInv, Tracked, SeenAs, Given, Surface
<1>3. CASE pc \notin {"list", "read"}
  BY <1>1, <1>3 DEF Tracked
<1> QED
  BY <1>2, <1>3

LEMMA WritebackTracked == \A f \in Files : TInv /\ Writeback(f) => Tracked'
<1> SUFFICES ASSUME NEW f \in Files, TInv, Writeback(f), file' \notin touched'
             PROVE  Tracked'
  BY DEF Tracked
<1>1. /\ UNCHANGED <<device, substitute, pc, file, co, count, buffer, mapped, extNo, xList,
                     touched>>
      /\ Allocate(f)
  BY DEF Writeback, Change
<1>2. /\ Len(content'[file]) = Len(content[file])
      /\ \A i \in 1 .. Len(content[file]) :
            /\ content[file][i].kind # "delalloc" => content'[file][i] = content[file][i]
            /\ content'[file][i] = content[file][i] \/ content[file][i].kind = "delalloc"
  BY <1>1, AllocatedOnly DEF TInv, IInv, Typed
<1>3. CASE pc = "read"
  <2>1. /\ mapped = Len(content[file]) /\ extNo <= mapped + 1 /\ Len(xList) = extNo - 1
        /\ \A i \in 1 .. mapped :
              /\ i \in DOMAIN buffer
              /\ SeenAs(buffer[i], content[file][i])
              /\ co = "Fsync" => content[file][i].kind # "delalloc"
        /\ \A i \in 1 .. extNo - 1 : Given(content[file][i], xList[i])
    BY <1>1, <1>3 DEF TInv, Tracked
  <2>2. ASSUME NEW i \in 1 .. mapped
        PROVE  /\ SeenAs(buffer[i], content[file][i])'
               /\ co = "Fsync" => content'[file][i].kind # "delalloc"
    BY <1>1, <1>2, <2>1 DEF SeenAs
  <2>3. ASSUME NEW i \in 1 .. extNo - 1 PROVE Given(content[file][i], xList[i])'
    <3>1. i \in 1 .. Len(content[file])
      BY <2>1 DEF TInv, IInv, Typed
    <3> QED
      BY <1>1, <1>2, <2>1, <3>1 DEF Given, Surface
  <2> QED
    BY <1>1, <1>2, <1>3, <2>1, <2>2, <2>3 DEF Tracked
<1>4. CASE pc # "read"
  BY <1>1, <1>2, <1>4 DEF TInv, Tracked
<1> QED
  BY <1>3, <1>4

LEMMA CountTracked == TInv /\ Count => Tracked'
<1> SUFFICES ASSUME TInv, Count, file' \notin touched' PROVE Tracked'
  BY DEF Tracked
<1>1. /\ Synced /\ count' = Len(content[file]) /\ pc' = "list"
      /\ UNCHANGED <<file, co>>
  BY DEF Count
<1>2. Len(content'[file]) = Len(content[file])
  BY <1>1, AllocatedOnly DEF Synced, TInv, IInv, Typed
<1> QED
  BY <1>1, <1>2 DEF Tracked

LEMMA ListTracked == TInv /\ List => Tracked'
<1> SUFFICES ASSUME TInv, List, file' \notin touched' PROVE Tracked'
  BY DEF Tracked
<1> DEFINE now == content'[file]
           n == Min({count, Len(now)})
           old == SubSeq(buffer, n + 1, Len(buffer))
<1>1. /\ pc = "list" /\ pc' = "read" /\ extNo' = 1
      /\ mapped' = ToRead(now)
      /\ buffer' = SubSeq(now, 1, n) \o old
      /\ UNCHANGED <<device, substitute, file, co, count, xList, touched>>
      /\ Synced
  BY DEF List
<1>2. Typed /\ Fresh /\ IInv
  BY DEF TInv, IInv
<1>3. now \in Seq(FileExtent) /\ Len(now) \in Nat /\ file \in Files
  BY <1>2, SyncedStep, <1>1 DEF Typed
<1>4. count = Len(content[file])
  BY <1>1 DEF TInv, Tracked
<1>5. /\ Len(now) = Len(content[file])
      /\ co = "Fsync" => \A i \in 1 .. Len(now) : now[i].kind # "delalloc"
  BY <1>1, <1>2, <1>3, AllocatedOnly DEF Synced
<1>6. n = Len(now) /\ mapped' = Len(now)
  <2>1. n = Len(now)
    BY <1>3, <1>4, <1>5, MinOfTwo DEF Min
  <2> QED
    BY <1>1, <1>4, <1>5, <2>1 DEF ToRead
<1> HIDE DEF n, now
<1>7. SubSeq(now, 1, n) = now
  BY <1>3, <1>6
<1>8. old \in Seq(FileExtent)
  <2>1. n + 1 \in Int /\ Len(buffer) \in Int
    BY <1>2, <1>3, <1>6 DEF Typed
  <2>2. \A i \in n + 1 .. Len(buffer) : buffer[i] \in FileExtent
    BY <1>2, <1>3, <1>6 DEF Typed
  <2> QED
    BY <2>1, <2>2, SubSeqProperties
<1> HIDE DEF old
<1>9. \A i \in 1 .. Len(now) : i \in DOMAIN buffer' /\ buffer'[i] = now[i]
  <2>1. buffer' = now \o old
    BY <1>1, <1>7
  <2>2. DOMAIN (now \o old) = 1 .. Len(now) + Len(old) /\ Len(old) \in Nat
    BY <1>3, <1>8
  <2>3. \A i \in 1 .. Len(now) : (now \o old)[i] = now[i]
    BY <1>3, <1>8
  <2> QED
    BY <1>3, <2>1, <2>2, <2>3
<1>10. Len(xList') = 0
  BY <1>1, <1>2 DEF Fresh
<1>11. content'[file'] = now
  BY <1>1 DEF now
<1>12. ASSUME NEW i \in 1 .. mapped'
       PROVE  /\ i \in DOMAIN buffer'
              /\ SeenAs(buffer[i], content[file][i])'
              /\ co' = "Fsync" => content'[file'][i].kind # "delalloc"
  BY <1>1, <1>5, <1>6, <1>9, <1>11 DEF SeenAs
<1>13. mapped' = Len(content'[file']) /\ extNo' <= mapped' + 1 /\ Len(xList') = extNo' - 1
  BY <1>1, <1>3, <1>6, <1>10, <1>11
<1>14. 1 .. extNo' - 1 = {}
  BY <1>1
<1> QED
  BY <1>1, <1>12, <1>13, <1>14 DEF Tracked

LEMMA ReadTracked == TInv /\ Read => Tracked'
<1> SUFFICES ASSUME TInv, Read, file' \notin touched' PROVE Tracked'
  BY DEF Tracked
<1>1. /\ pc = "read" /\ extNo <= mapped
      /\ UNCHANGED <<device, substitute, content, touched, file, buffer, mapped>>
  BY DEF Read, env
<1>2. PICK raw \in Raw(extNo) :
          IF AskAgain(raw)
          THEN Retry
          ELSE /\ xList' = Append(xList, Listed(raw))
               /\ extNo' = extNo + 1 /\ pc' = pc /\ co' = co
  BY DEF Read
<1>3. CASE AskAgain(raw)
  BY <1>1, <1>2, <1>3 DEF Retry, Tracked
<1>4. CASE ~AskAgain(raw)
  <2>1. /\ xList' = Append(xList, Listed(raw)) /\ extNo' = extNo + 1 /\ pc' = pc
        /\ co' = co
    BY <1>2, <1>4
  <2>2. /\ mapped = Len(content[file]) /\ Len(xList) = extNo - 1
        /\ \A i \in 1 .. mapped :
              /\ i \in DOMAIN buffer
              /\ SeenAs(buffer[i], content[file][i])
              /\ co = "Fsync" => content[file][i].kind # "delalloc"
        /\ \A i \in 1 .. extNo - 1 : Given(content[file][i], xList[i])
    BY <1>1 DEF TInv, Tracked
  <2>3. Typed /\ extNo \in Nat /\ extNo >= 1 /\ mapped \in Nat
    BY <1>1 DEF TInv, IInv, Typed, Fresh
  <2>4. extNo \in 1 .. mapped
    BY <1>1, <2>3
  <2>5. raw = buffer[extNo]
    BY <1>2, <2>2, <2>4 DEF Raw
  <2>6. raw = content[file][extNo] /\ raw.kind # "delalloc"
    BY <1>4, <2>2, <2>4, <2>5 DEF SeenAs, AskAgain, Unknown
  <2>7. content[file][extNo] \in FileExtent
    BY <2>2, <2>3, <2>4 DEF Typed
  <2>8. raw.kind \in Placed <=> ~CantMap(raw)
    BY <2>6, <2>7 DEF FileExtent, Kinds, CantMap, Placed, Unknown
  <2>9. Given(content[file][extNo], Listed(raw))
    BY <2>6, <2>8 DEF Given, Listed
  <2>10. xList \in Seq(Answer)
    BY <2>3 DEF Typed
  <2>11. /\ Len(xList') = extNo' - 1
         /\ xList'[extNo] = Listed(raw)
         /\ \A i \in 1 .. extNo - 1 : xList'[i] = xList[i]
    BY <2>1, <2>2, <2>3, <2>10
  <2>12. ASSUME NEW i \in 1 .. extNo' - 1 PROVE Given(content[file][i], xList[i])'
    <3>1. CASE i = extNo
      BY <1>1, <2>9, <2>11, <3>1 DEF Given, Surface
    <3>2. CASE i # extNo
      <4>1. i \in 1 .. extNo - 1
        BY <2>1, <2>3, <3>2
      <4> QED
        BY <1>1, <2>2, <2>11, <4>1 DEF Given, Surface
    <3> QED
      BY <3>1, <3>2
  <2>13. extNo' <= mapped' + 1
    BY <1>1, <2>1, <2>3
  <2> QED
    BY <1>1, <2>1, <2>2, <2>11, <2>12, <2>13 DEF Tracked, SeenAs
<1> QED
  BY <1>3, <1>4

LEMMA NextTracked == TInv /\ [Next]_vars => TInv'
<1> SUFFICES ASSUME TInv, [Next]_vars PROVE Tracked'
  BY NextIInv DEF TInv
<1>1. CASE \E f \in Files : Resolve(f)
  BY <1>1 DEF Resolve, Tracked
<1>2. CASE Peek
  BY <1>2, CountTracked, ListTracked, ReadTracked DEF Peek, Finish, IoctlFails, Return, Tracked
<1>3. CASE Disturb
  BY <1>3, GrowTracked, TruncateTracked, WritebackTracked DEF Disturb
<1>4. CASE UNCHANGED vars
  BY <1>4 DEF vars, env, TInv, Tracked, SeenAs, Given, Surface
<1> QED
  BY <1>1, <1>2, <1>3, <1>4 DEF Next, Locate

\* A file that is left alone while it is resolved, by calls that do not fail,
\* is answered for extent by extent, in order, with a blank for no other than
\* those that have no place (ExtentIoc::peek, both calls and the retry).
THEOREM CompleteAlways == Spec => []Complete
<1>1. Init => TInv
  BY InitIInv DEF Init, TInv, Tracked
<1>2. TInv => Complete
  <2> SUFFICES ASSUME TInv, file \notin touched, pc = "read", extNo > mapped
               PROVE  /\ Len(xList) = Len(content[file])
                      /\ \A i \in DOMAIN xList :
                            IF content[file][i].kind \in Placed
                            THEN xList[i] = [surface |-> Surface(file),
                                             block |-> content[file][i].block]
                            ELSE xList[i] = Blank
    BY DEF Complete
  <2>1. /\ mapped = Len(content[file]) /\ extNo <= mapped + 1 /\ Len(xList) = extNo - 1
        /\ \A i \in 1 .. extNo - 1 : Given(content[file][i], xList[i])
    BY DEF TInv, Tracked
  <2>2. extNo \in Nat /\ mapped \in Nat /\ xList \in Seq(Answer)
    BY DEF TInv, IInv, Typed
  <2>3. Len(xList) = mapped /\ DOMAIN xList = 1 .. extNo - 1
    BY <2>1, <2>2
  <2> QED
    BY <2>1, <2>3 DEF Given
<1> QED
  BY <1>1, <1>2, NextTracked, PTL DEF Spec
==============================================================================
