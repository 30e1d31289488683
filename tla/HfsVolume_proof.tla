--------------------------- MODULE HfsVolume_proof ---------------------------
(***************************************************************************)
(* Proofs about the parts of the HFS+ volume.                              *)
(*                                                                         *)
(* Every tree that TreeBuilder makes, of any map and with any node size:   *)
(* its nodes have room, siblings are linked, the bitmap of the nodes is    *)
(* large enough, and a search from the root finds every key.  The          *)
(* invariant is about the line of the nodes, the listed ones and the open  *)
(* one; node number n is at position n + 1 of it.                          *)
(*                                                                         *)
(* The catalog as the entries are entered: every record has its own keys,  *)
(* and each folder counts what is below it.                                *)
(*                                                                         *)
(* The blocks of the volume, from the first extent of the temporary        *)
(* storage to the copy of the header: what is appended begins on a block,  *)
(* and the estimate of the allocation file is exact, for every block size  *)
(* and every length of the volume.                                         *)
(*                                                                         *)
(* The allocation file as it is written, chunk by chunk.                   *)
(***************************************************************************)
EXTENDS HfsVolume, Geometry_proof

Values == {data[i].value : i \in DOMAIN data} \cup Nat

Rec == Records(Values)

Node == [kind : {"header", "leaf", "index", "map"}, height : Nat, fLink : Nat, bLink : Nat,
         recs : Seq(Rec), size : Nat]

TreeTypeOK ==
    /\ IsMap(data) /\ data \in Seq(Rec)
    /\ nodeSize \in Nat /\ RoomForRecords(data, nodeSize)
    /\ building \in {"level", "map", "built"}
    /\ nodes \in Seq(Node) /\ nodes # <<>>
    /\ next \in Seq(Node) /\ Len(next) = IF building = "level" THEN 1 ELSE 0
    /\ rest \in Seq(Rec) /\ indices \in Seq(Rec)
    /\ header \in [root : Nat, depth : Nat, first : Nat, last : Nat, leafRecords : Nat,
                   totalNodes : Nat]
    /\ mapDone \in Nat

Open == building = "level"

\* The line of nodes, and the last one of the levels built so far.
End == IF Open THEN NodeCount + 1 ELSE NodeCount

Line == [x \in 1 .. End |-> IF x <= NodeCount THEN nodes[x] ELSE next[1]]

Top == IF Open THEN End ELSE header.root + 1

-----------------------------------------------------------------------------
\* An empty node has room for the record, or for a pointer with its key.
Roomy(rec, size) ==
    /\ DescSize + 2 * OffSize + RecordSize(rec) <= size
    /\ DescSize + 2 * OffSize + rec.klen + PointerSize <= size

SizesOK ==
    /\ \A x \in 1 .. End : Line[x].size <= nodeSize
    /\ DescSize + 2 * OffSize <= nodeSize
    /\ building = "level" => Line[1].size + OffSize <= nodeSize
    /\ building = "map" => Line[MapNode].size + OffSize <= nodeSize
    /\ \A i \in DOMAIN data : Roomy(data[i], nodeSize)
    /\ \A i \in DOMAIN rest : Roomy(rest[i], nodeSize)
    /\ \A i \in DOMAIN indices : Roomy(indices[i], nodeSize)
    /\ Open /\ Line[End].recs = <<>> => Line[End].size = DescSize + OffSize

Linked(x) ==
    /\ Line[x].fLink \in {0, x}
    /\ Line[x].fLink = x => Line[x + 1].bLink = x - 1 /\ Line[x + 1].height = Line[x].height
    /\ Line[x].fLink = 0 => Line[x + 1].height # Line[x].height

LinksOK ==
    /\ \A x \in 2 .. End - 1 : Linked(x)
    /\ End > 1 => Line[End].fLink = 0

\* The levels, and what follows them.
LevelsOK ==
    /\ Top \in 1 .. End
    /\ Line[1].kind = "header" /\ Line[1].height = 0
    /\ \A x \in 2 .. Top :
          /\ Line[x].height > 0
          /\ Line[x].kind = IF Line[x].height = 1 THEN "leaf" ELSE "index"
    /\ \A x \in Top + 1 .. End : Line[x].height = 0 /\ Line[x].kind = "map"
    /\ Open => data # <<>> /\ Top > 1
    /\ ~Open => header.depth = Line[Top].height /\ (data # <<>> => Top > 1)

\* No node of a level stays empty.
FilledOK ==
    /\ \A x \in 2 .. Top : Line[x].recs # <<>> \/ (Open /\ x = Top)
    /\ Open /\ Line[Top].recs = <<>> => rest # <<>>
    /\ Open => (Line[Top].recs = <<>> <=> indices = <<>>)

\* The leaf at x has the records of the map from p + 1 on, and what follows
\* them is in the next leaf, or is still to come.
LeafHolds(x, p) ==
    /\ p + Len(Line[x].recs) <= Len(data)
    /\ \A j \in DOMAIN Line[x].recs : Line[x].recs[j] = data[p + j]
    /\ x # Top /\ Line[x + 1].height = 1 /\ Line[x + 1].recs # <<>> =>
          /\ p + Len(Line[x].recs) < Len(data)
          /\ Line[x + 1].recs[1] = data[p + Len(Line[x].recs) + 1]
    /\ x # Top /\ Line[x + 1].height # 1 => p + Len(Line[x].recs) = Len(data)
    /\ x = Top /\ ~Open => p + Len(Line[x].recs) = Len(data)
    /\ x = Top /\ Open =>
          /\ Len(rest) = Len(data) - (p + Len(Line[x].recs))
          /\ \A j \in DOMAIN rest : rest[j] = data[p + Len(Line[x].recs) + j]

LeafAt == {x \in 2 .. Top : \E p \in 0 .. Len(data) : LeafHolds(x, p)}

LeavesOK == \A x \in 2 .. Top : Line[x].height = 1 => x \in LeafAt

\* Pointers recs to nodes of height h before position x of the line, one after
\* the other, each with the key the node begins with.
Points(line, recs, h, x) ==
    \A j \in DOMAIN recs :
        /\ recs[j].value \in 1 .. x - 2
        /\ recs[j].value = recs[1].value + j - 1
        /\ line[recs[j].value + 1].height = h
        /\ recs[j].key = line[recs[j].value + 1].recs[1].key

\* The last of them is to the last node of that height.
PointsToLast(line, recs, h) ==
    recs # <<>> => line[recs[Len(recs)].value + 2].height = h + 1

\* The index node at x, whose height is h + 1.
IndexHolds(x, h) ==
    /\ Points(Line, Line[x].recs, h, x)
    /\ x # Top /\ Line[x + 1].height = h + 1 /\ Line[x + 1].recs # <<>> =>
          Line[x + 1].recs[1].value = Line[x].recs[Len(Line[x].recs)].value + 1
    /\ x # Top /\ Line[x + 1].height # h + 1 => PointsToLast(Line, Line[x].recs, h)
    /\ x = Top /\ (Open => rest = <<>>) => PointsToLast(Line, Line[x].recs, h)
    /\ x = Top /\ Open /\ rest # <<>> =>
          /\ Points(Line, rest, h, x)
          /\ PointsToLast(Line, rest, h)
          /\ Line[x].recs # <<>> => rest[1].value = Line[x].recs[Len(Line[x].recs)].value + 1

IndexAt == {x \in 2 .. Top : IndexHolds(x, Line[x].height - 1)}

IndexesOK == \A x \in 2 .. Top : Line[x].height > 1 => x \in IndexAt

\* The pointers to the nodes of this level, and where both begin.
IndicesOK ==
    Open =>
        /\ Points(Line, indices, Line[End].height, End + 1)
        /\ indices # <<>> =>
              /\ indices[Len(indices)].value = NodeCount
              /\ Line[indices[1].value].height # Line[End].height
              /\ indices[1].key = data[1].key
        /\ indices = <<>> =>
              /\ Line[End - 1].height # Line[End].height
              /\ rest[1].key = data[1].key

\* The root is at the left end of the tree.
RootOK == ~Open /\ data # <<>> => Line[Top].recs[1].key = data[1].key

TreeInv ==
    /\ TreeTypeOK /\ SizesOK /\ LinksOK /\ LevelsOK /\ FilledOK
    /\ LeavesOK /\ IndexesOK /\ IndicesOK /\ RootOK
    /\ NodesMapped
-----------------------------------------------------------------------------
\* What a record may be depends on the map alone, which stays.
LEMMA DataStays ==
    ASSUME TreeNext
    PROVE  UNCHANGED <<data, nodeSize, Values, Rec, Node>>
<1>1. UNCHANGED <<data, nodeSize>>
  BY Zenon DEF TreeNext, FillNode, FullNode, EndLevel, AddMap
<1>2. UNCHANGED Values
  BY <1>1 DEF Values
<1>3. UNCHANGED Rec
  BY <1>2 DEF Rec
<1> QED BY <1>1, <1>2, <1>3 DEF Node

LEMMA NewNodeIsNode ==
    ASSUME NEW k \in {"header", "leaf", "index", "map"}, NEW h \in Nat
    PROVE  NewNode(k, h) \in Node
BY TreeAssumption DEF NewNode, Node

\* A pointer with the key of a record is a record.
LEMMA PointerIsRec ==
    ASSUME NEW rec \in Rec, NEW n \in Nat
    PROVE  Pointer(rec, n) \in Rec
BY TreeAssumption DEF Pointer, Rec, Records, Values

LEMMA AddRecordIsNode ==
    ASSUME NEW node \in Node, NEW rec \in Rec
    PROVE  /\ AddRecord(node, rec) \in Node
           /\ AddRecord(node, rec).recs = Append(node.recs, rec)
           /\ AddRecord(node, rec).size = node.size + RecordSize(rec) + OffSize
           /\ AddRecord(node, rec).kind = node.kind
           /\ AddRecord(node, rec).height = node.height
           /\ AddRecord(node, rec).fLink = node.fLink
           /\ AddRecord(node, rec).bLink = node.bLink
<1>1. RecordSize(rec) \in Nat
  BY DEF RecordSize, Rec, Records
<1>2. Append(node.recs, rec) \in Seq(Rec)
  BY DEF Node
<1>3. node.size + RecordSize(rec) + OffSize \in Nat
  BY <1>1, TreeAssumption DEF Node
<1> QED BY <1>2, <1>3 DEF AddRecord, Node

LEMMA InitType == TreeInit => TreeTypeOK
<1> SUFFICES ASSUME TreeInit PROVE TreeTypeOK
  OBVIOUS
<1>1. PICK m \in Maps :
        /\ data = m.recs /\ nodeSize = m.nodeSize
        /\ nodes = <<HeaderNode>> /\ mapDone = 0
        /\ building = IF m.recs = <<>> THEN "map" ELSE "level"
        /\ header = IF m.recs = <<>> THEN NoHeader ELSE [NoHeader EXCEPT !.first = 1]
        /\ next = IF m.recs = <<>> THEN <<>> ELSE <<NewNode("leaf", 1)>>
        /\ rest = m.recs /\ indices = <<>>
  BY DEF TreeInit
<1>2. IsMap(data) /\ nodeSize \in Nat /\ RoomForRecords(data, nodeSize)
  BY <1>1, TreeAssumption
<1>3. data \in Seq(Rec)
  <2> DEFINE V == {data[i].value : i \in DOMAIN data}
  <2>1. data \in Seq(Records(V))
    BY <1>2 DEF IsMap
  <2>2. Records(V) \subseteq Rec
    BY DEF Records, Rec, Values
  <2> HIDE DEF V
  <2> QED BY <2>1, <2>2
<1>4. HeaderNode \in Node
  BY NewNodeIsNode, TreeAssumption DEF HeaderNode, Node
<1>5. NewNode("leaf", 1) \in Node
  BY NewNodeIsNode
<1>6. header \in [root : Nat, depth : Nat, first : Nat, last : Nat, leafRecords : Nat,
                  totalNodes : Nat]
  BY <1>1 DEF NoHeader
<1> QED BY <1>1, <1>2, <1>3, <1>4, <1>5, <1>6 DEF TreeTypeOK
-----------------------------------------------------------------------------
(***************************************************************************)
(* What each action does to the line of nodes.                             *)
(***************************************************************************)
LEMMA LineOfNodes ==
    ASSUME TreeTypeOK
    PROVE  /\ NodeCount \in Nat \ {0} /\ End \in Nat \ {0}
           /\ Open => next[1] \in Node /\ Line[End] = next[1] /\ End = NodeCount + 1
           /\ ~Open => End = NodeCount
           /\ \A x \in 1 .. End : Line[x] \in Node
           /\ \A x \in 1 .. NodeCount : Line[x] = nodes[x]
<1>1. NodeCount \in Nat \ {0}
  BY DEF TreeTypeOK, NodeCount
<1>2. \A x \in 1 .. NodeCount : Line[x] = nodes[x] /\ nodes[x] \in Node
  BY <1>1 DEF TreeTypeOK, NodeCount, Line, End
<1>3. Open => next[1] \in Node /\ Line[End] = next[1] /\ End = NodeCount + 1
  <2> SUFFICES ASSUME Open PROVE next[1] \in Node /\ Line[End] = next[1] /\ End = NodeCount + 1
    OBVIOUS
  <2>1. Len(next) = 1 /\ next \in Seq(Node)
    BY DEF TreeTypeOK, Open
  <2>2. next[1] \in Node
    BY <2>1
  <2> QED BY <2>2, <1>1 DEF Line, End
<1> QED BY <1>1, <1>2, <1>3 DEF End

LEMMA FillShape ==
    ASSUME TreeTypeOK, FillNode
    PROVE  /\ Open /\ Open' /\ End' = End /\ NodeCount' = NodeCount
           /\ rest # <<>> /\ Head(rest) \in Rec /\ Tail(rest) \in Seq(Rec)
           /\ rest' = Tail(rest)
           /\ \A x \in 1 .. NodeCount : Line'[x] = Line[x]
           /\ Line'[End] = AddRecord(Line[End], Head(rest))
           /\ indices' = IF Line[End].recs = <<>> THEN Append(indices, Pointer(Head(rest), NodeCount))
                         ELSE indices
<1>1. Open /\ Open' /\ NodeCount' = NodeCount /\ End' = End
  BY DEF FillNode, Open, NodeCount, End
<1>2. rest # <<>> /\ rest \in Seq(Rec)
  BY DEF FillNode, TreeTypeOK
<1>3. Head(rest) \in Rec /\ Tail(rest) \in Seq(Rec)
  BY <1>2
<1>4. \A x \in 1 .. NodeCount : Line'[x] = Line[x]
  BY <1>1, LineOfNodes DEF Line, FillNode
<1>5. next'[1] = AddRecord(next[1], Head(rest))
  BY DEF FillNode
<1>6. Line[End] = next[1] /\ Line'[End] = next'[1]
  BY <1>1, LineOfNodes DEF Line
<1> QED BY <1>1, <1>2, <1>3, <1>4, <1>5, <1>6 DEF FillNode

LEMMA FullShape ==
    ASSUME TreeTypeOK, FullNode, NEW e, e = End
    PROVE  /\ Open /\ Open' /\ End' = e + 1 /\ NodeCount' = e /\ NodeCount = e - 1
           /\ rest # <<>> /\ Head(rest) \in Rec /\ Tail(rest) \in Seq(Rec)
           /\ rest' = Tail(rest)
           /\ nodes' \in Seq(Node) /\ nodes' # <<>>
           /\ \A x \in 1 .. e - 1 : Line'[x] = Line[x]
           /\ Line'[e] = [Line[e] EXCEPT !.fLink = e]
           /\ Line'[e + 1] = AddRecord([NewNode(Line[e].kind, Line[e].height) EXCEPT !.bLink = e - 1],
                                     Head(rest))
           /\ [NewNode(Line[e].kind, Line[e].height) EXCEPT !.bLink = e - 1] \in Node
           /\ next' = <<Line'[e + 1]>>
           /\ indices' = Append(indices, Pointer(Head(rest), e))
<1> DEFINE fresh == [NewNode(next[1].kind, next[1].height) EXCEPT !.bLink = NodeCount]
           closed == [next[1] EXCEPT !.fLink = NodeCount + 1]
<1>0. /\ nodes' = Append(nodes, closed)
      /\ next' = <<AddRecord(fresh, Head(rest))>>
      /\ indices' = Append(indices, Pointer(Head(rest), NodeCount + 1))
      /\ rest' = Tail(rest)
      /\ building = "level" /\ building' = building /\ rest # <<>>
  BY DEF FullNode
<1>1. Open /\ Open' /\ e = NodeCount + 1
  BY <1>0, LineOfNodes DEF Open
<1>2. rest \in Seq(Rec) /\ Head(rest) \in Rec /\ Tail(rest) \in Seq(Rec)
  BY <1>0 DEF TreeTypeOK
<1>3. next[1] \in Node /\ Line[e] = next[1] /\ NodeCount \in Nat \ {0}
  BY <1>1, LineOfNodes
<1>4. closed \in Node
  BY <1>3 DEF Node
<1>5. fresh \in Node
  <2>1. NewNode(next[1].kind, next[1].height) \in Node
    BY <1>3, NewNodeIsNode DEF Node
  <2> QED BY <2>1, <1>3 DEF Node
<1> HIDE DEF closed, fresh
<1>6. /\ nodes' \in Seq(Node) /\ Len(nodes') = NodeCount + 1
      /\ nodes'[e] = closed
      /\ \A x \in 1 .. NodeCount : nodes'[x] = nodes[x]
  BY <1>0, <1>1, <1>4 DEF TreeTypeOK, NodeCount
<1>7. NodeCount' = e /\ End' = e + 1
  BY <1>6, <1>1 DEF NodeCount, End
<1>8. \A x \in 1 .. e - 1 : Line'[x] = Line[x]
  BY <1>6, <1>7, <1>1, <1>3 DEF Line
<1>9. Line'[e] = closed
  BY <1>6, <1>7, <1>1, <1>3 DEF Line
<1>10. Line'[e + 1] = next'[1]
  BY <1>7, <1>1, <1>3 DEF Line
<1>11. closed = [Line[e] EXCEPT !.fLink = e] /\ NodeCount = e - 1
  BY <1>1, <1>3 DEF closed
<1>12. fresh = [NewNode(Line[e].kind, Line[e].height) EXCEPT !.bLink = e - 1]
  BY <1>11, <1>3 DEF fresh
<1>13. nodes' # <<>>
  BY <1>6, <1>3
<1>14. next' = <<Line'[e + 1]>> /\ Line'[e + 1] = AddRecord(fresh, Head(rest))
  BY <1>0, <1>10
<1>15. indices' = Append(indices, Pointer(Head(rest), e))
  BY <1>0, <1>1
<1> QED BY <1>0, <1>1, <1>2, <1>5, <1>6, <1>7, <1>8, <1>9, <1>11, <1>12, <1>13, <1>14, <1>15

\* The level above is opened.
RaiseLevel == EndLevel /\ Len(indices) > 1

\* The node was the root.
CloseTree == EndLevel /\ ~(Len(indices) > 1)

LEMMA RaiseShape ==
    ASSUME TreeTypeOK, RaiseLevel, NEW e, e = End
    PROVE  /\ Open /\ Open' /\ End' = e + 1 /\ NodeCount' = e /\ NodeCount = e - 1
           /\ rest = <<>> /\ rest' = indices /\ indices' = <<>>
           /\ nodes' \in Seq(Node) /\ nodes' # <<>>
           /\ \A x \in 1 .. e : Line'[x] = Line[x]
           /\ Line'[e + 1] = NewNode("index", Line[e].height + 1)
           /\ next' = <<Line'[e + 1]>>
           /\ header' \in [root : Nat, depth : Nat, first : Nat, last : Nat, leafRecords : Nat,
                           totalNodes : Nat]
           /\ header'.root = header.root /\ header'.depth = header.depth
<1>0. /\ nodes' = Append(nodes, next[1])
      /\ next' = <<NewNode("index", next[1].height + 1)>>
      /\ rest = <<>> /\ rest' = indices /\ indices' = <<>>
      /\ building = "level" /\ building' = building
      /\ \/ header' = header
         \/ header' = [header EXCEPT !.last = NodeCount, !.leafRecords = Len(data)]
  BY DEF RaiseLevel, EndLevel, OpenLevel
<1>1. Open /\ Open' /\ e = NodeCount + 1
  BY <1>0, LineOfNodes DEF Open
<1>3. next[1] \in Node /\ Line[e] = next[1] /\ NodeCount \in Nat \ {0}
  BY <1>1, LineOfNodes
<1>6. /\ nodes' \in Seq(Node) /\ Len(nodes') = NodeCount + 1
      /\ nodes'[e] = next[1]
      /\ \A x \in 1 .. NodeCount : nodes'[x] = nodes[x]
  BY <1>0, <1>1, <1>3 DEF TreeTypeOK, NodeCount
<1>7. NodeCount' = e /\ End' = e + 1
  BY <1>6, <1>1 DEF NodeCount, End
<1>8. \A x \in 1 .. e : Line'[x] = Line[x]
  BY <1>6, <1>7, <1>1, <1>3 DEF Line
<1>9. Line'[e + 1] = next'[1]
  BY <1>7, <1>1, <1>3 DEF Line
<1>10. /\ header' \in [root : Nat, depth : Nat, first : Nat, last : Nat, leafRecords : Nat,
                       totalNodes : Nat]
       /\ header'.root = header.root /\ header'.depth = header.depth
  <2>1. NodeCount \in Nat /\ Len(data) \in Nat
    BY <1>3 DEF TreeTypeOK
  <2> QED BY <1>0, <2>1 DEF TreeTypeOK
<1> QED BY <1>0, <1>1, <1>3, <1>6, <1>7, <1>8, <1>9, <1>10

LEMMA CloseShape ==
    ASSUME TreeTypeOK, CloseTree, NEW e, e = End
    PROVE  /\ Open /\ ~Open' /\ building' = "map" /\ End' = e /\ NodeCount' = e /\ NodeCount = e - 1
           /\ rest = <<>> /\ rest' = rest /\ indices' = indices /\ Len(indices) \in {0, 1}
           /\ nodes' \in Seq(Node) /\ nodes' # <<>> /\ next' = <<>>
           /\ \A x \in 1 .. e : Line'[x] = Line[x]
           /\ header' \in [root : Nat, depth : Nat, first : Nat, last : Nat, leafRecords : Nat,
                           totalNodes : Nat]
           /\ header'.root = e - 1 /\ header'.depth = Line[e].height
<1>0. /\ nodes' = Append(nodes, next[1])
      /\ next' = <<>>
      /\ rest = <<>> /\ rest' = rest /\ indices' = indices /\ ~(Len(indices) > 1)
      /\ building = "level" /\ building' = "map"
      /\ \/ header' = [header EXCEPT !.root = NodeCount, !.depth = next[1].height]
         \/ header' = [[header EXCEPT !.last = NodeCount, !.leafRecords = Len(data)]
                         EXCEPT !.root = NodeCount, !.depth = next[1].height]
  BY DEF CloseTree, EndLevel
<1>1. Open /\ ~Open' /\ e = NodeCount + 1
  BY <1>0, LineOfNodes DEF Open
<1>3. next[1] \in Node /\ Line[e] = next[1] /\ NodeCount \in Nat \ {0}
  BY <1>1, LineOfNodes
<1>6. /\ nodes' \in Seq(Node) /\ Len(nodes') = NodeCount + 1
      /\ nodes'[e] = next[1]
      /\ \A x \in 1 .. NodeCount : nodes'[x] = nodes[x]
  BY <1>0, <1>1, <1>3 DEF TreeTypeOK, NodeCount
<1>7. NodeCount' = e /\ End' = e
  BY <1>6, <1>1 DEF NodeCount, End
<1>8. \A x \in 1 .. e : Line'[x] = Line[x]
  BY <1>6, <1>7, <1>1, <1>3 DEF Line
<1>10. /\ header' \in [root : Nat, depth : Nat, first : Nat, last : Nat, leafRecords : Nat,
                       totalNodes : Nat]
       /\ header'.root = NodeCount /\ header'.depth = next[1].height
  <2>1. NodeCount \in Nat /\ Len(data) \in Nat
    BY <1>3 DEF TreeTypeOK
  <2>2. next[1].height \in Nat
    BY <1>3 DEF Node
  <2> QED BY <1>0, <2>1, <2>2 DEF TreeTypeOK
<1>11. Len(indices) \in {0, 1}
  BY <1>0 DEF TreeTypeOK
<1> QED BY <1>0, <1>1, <1>3, <1>6, <1>7, <1>8, <1>10, <1>11

(***************************************************************************)
(* The bitmap: the node that is filled keeps all but its size and link,    *)
(* and a node may follow the last one.                                     *)
(***************************************************************************)
Taken(x) == [Line[x] EXCEPT !.size = nodeSize]

TakenOn(x) == [Taken(x) EXCEPT !.fLink = NodeCount]

MapFollows(e) == [NewNode("map", 0) EXCEPT !.bLink = IF MapNode = 1 THEN 0 ELSE e - 1]

LEMMA MapShape ==
    ASSUME TreeTypeOK, AddMap, SizesOK, NEW e, e = End, NEW m, m = MapNode
    PROVE  /\ building' \in {"map", "built"} /\ ~Open /\ ~Open' /\ NodeCount = e
           /\ m \in {1, e}
           /\ m # 1 => Line[e].kind = "map"
           /\ nodes' \in Seq(Node) /\ nodes' # <<>>
           /\ mapDone' \in Nat
           /\ header'.root = header.root /\ header'.depth = header.depth
           /\ header' \in [root : Nat, depth : Nat, first : Nat, last : Nat, leafRecords : Nat,
                           totalNodes : Nat]
           /\ \A x \in 1 .. e : x # m => Line'[x] = Line[x]
           /\ MapFollows(e) \in Node
           /\ \/ /\ building' = "map" /\ End' = e + 1
                 /\ Line'[m] = TakenOn(m) /\ Line'[e + 1] = MapFollows(e)
              \/ /\ building' = "built" /\ End' = e
                 /\ Line'[m] = Taken(m)
                 /\ mapDone' >= ByteCount(e)
<1> DEFINE mset == FreeSpace(nodes[m])
           full == [nodes EXCEPT ![m].size = nodeSize]
           on == [full EXCEPT ![m].fLink = e]
           more == mapDone + mset < ByteCount(e)
<1>1. /\ building = "map" /\ ~Open /\ e = NodeCount
      /\ e \in Nat \ {0} /\ nodes \in Seq(Node) /\ nodeSize \in Nat
  BY LineOfNodes DEF AddMap, Open, TreeTypeOK
<1>2. m \in {1, e} /\ (m # 1 => nodes[e].kind = "map") /\ m \in 1 .. Len(nodes)
  BY <1>1 DEF MapNode, NodeCount
<1>3. /\ mapDone' = mapDone + mset
      /\ nodes' = IF more THEN Append(on, MapFollows(e)) ELSE full
      /\ building' = IF more THEN "map" ELSE "built"
      /\ header' = [header EXCEPT !.totalNodes = Len(nodes')]
  BY <1>1 DEF AddMap, MapFollows
<1>4. mset \in Nat
  <2>1. Line[m] = nodes[m] /\ nodes[m] \in Node
    BY <1>1, <1>2, LineOfNodes DEF NodeCount
  <2>2. nodes[m].size \in Nat
    BY <2>1 DEF Node
  <2>3. Line[m].size + OffSize <= nodeSize
    BY <1>1 DEF SizesOK
  <2> QED BY <2>1, <2>2, <2>3, <1>1, TreeAssumption DEF FreeSpace
<1>5. MapFollows(e) \in Node
  <2>1. NewNode("map", 0) \in Node
    BY NewNodeIsNode
  <2>2. (IF MapNode = 1 THEN 0 ELSE e - 1) \in Nat
    BY <1>1
  <2> QED BY <2>1, <2>2 DEF MapFollows, Node
<1>6. Taken(m) \in Node /\ TakenOn(m) \in Node
  <2>1. Line[m] \in Node
    BY <1>2, <1>1, LineOfNodes
  <2>2. Taken(m) \in Node
    BY <2>1, <1>1 DEF Taken, Node
  <2> QED BY <2>2, <1>1 DEF TakenOn, Node
<1>7. /\ full \in Seq(Node) /\ Len(full) = e /\ full[m] = Taken(m)
      /\ \A x \in 1 .. e : x # m => full[x] = nodes[x]
  <2>1. full = [nodes EXCEPT ![m] = Taken(m)]
    <3>1. Line[m] = nodes[m]
      BY <1>1, <1>2 DEF Line, NodeCount
    <3>2. Taken(m) = [nodes[m] EXCEPT !.size = nodeSize]
      BY <3>1 DEF Taken
    <3>3. full = [nodes EXCEPT ![m] = [nodes[m] EXCEPT !.size = nodeSize]]
      OBVIOUS
    <3> QED BY <3>2, <3>3
  <2> HIDE DEF full
  <2>2. /\ [nodes EXCEPT ![m] = Taken(m)] \in Seq(Node)
        /\ Len([nodes EXCEPT ![m] = Taken(m)]) = Len(nodes)
        /\ \A x \in 1 .. Len(nodes) :
              [nodes EXCEPT ![m] = Taken(m)][x] = IF x = m THEN Taken(m) ELSE nodes[x]
    BY <1>1, <1>2, <1>6, ExceptSeq
  <2> QED BY <2>1, <2>2, <1>1, <1>2 DEF NodeCount
<1>8. /\ on \in Seq(Node) /\ Len(on) = e /\ on[m] = TakenOn(m)
      /\ \A x \in 1 .. e : x # m => on[x] = nodes[x]
  <2>1. on = [full EXCEPT ![m] = TakenOn(m)]
    <3>1. TakenOn(m) = [full[m] EXCEPT !.fLink = e]
      BY <1>1, <1>7 DEF TakenOn
    <3>2. on = [full EXCEPT ![m] = [full[m] EXCEPT !.fLink = e]]
      OBVIOUS
    <3> QED BY <3>1, <3>2
  <2> HIDE DEF full, on
  <2>2. /\ [full EXCEPT ![m] = TakenOn(m)] \in Seq(Node)
        /\ Len([full EXCEPT ![m] = TakenOn(m)]) = Len(full)
        /\ \A x \in 1 .. Len(full) :
              [full EXCEPT ![m] = TakenOn(m)][x] = IF x = m THEN TakenOn(m) ELSE full[x]
    BY <1>1, <1>2, <1>6, <1>7, ExceptSeq
  <2> QED BY <2>1, <2>2, <1>1, <1>2, <1>7 DEF NodeCount
<1> HIDE DEF full, on, mset
<1>9. building' \in {"map", "built"} /\ ~Open'
  BY <1>3 DEF Open
<1>10. mapDone' \in Nat
  BY <1>3, <1>4 DEF TreeTypeOK
<1>11. CASE more
  <2>1. building' = "map" /\ nodes' = Append(on, MapFollows(e))
    BY <1>3, <1>11
  <2>2. /\ nodes' \in Seq(Node) /\ Len(nodes') = e + 1 /\ nodes'[e + 1] = MapFollows(e)
        /\ \A x \in 1 .. e : nodes'[x] = on[x]
    BY <2>1, <1>5, <1>8
  <2>3. NodeCount' = e + 1 /\ End' = e + 1
    BY <2>2, <1>9 DEF NodeCount, End
  <2>4. \A x \in 1 .. e + 1 : Line'[x] = nodes'[x]
    BY <2>3, <1>1 DEF Line
  <2>5. \A x \in 1 .. e : Line[x] = nodes[x]
    BY <1>1 DEF Line
  <2>6. header' = [header EXCEPT !.totalNodes = e + 1] /\ e + 1 \in Nat
    BY <1>3, <2>2, <1>1
  <2>7. nodes' # <<>>
    BY <2>2, <1>1
  <2>8. /\ header'.root = header.root /\ header'.depth = header.depth
        /\ header' \in [root : Nat, depth : Nat, first : Nat, last : Nat, leafRecords : Nat,
                        totalNodes : Nat]
    BY <2>6 DEF TreeTypeOK
  <2>9. m \in 1 .. e
    BY <1>1, <1>2
  <2>10. \A x \in 1 .. e : x # m => Line'[x] = Line[x]
    BY <1>1, <1>8, <2>2, <2>4, <2>5
  <2>11. Line'[m] = TakenOn(m) /\ Line'[e + 1] = MapFollows(e)
    BY <1>1, <1>8, <2>2, <2>4, <2>9
  <2>12. m \in {1, e} /\ (m # 1 => Line[e].kind = "map")
    BY <1>1, <1>2, <2>5
  <2> QED
    BY <2>1, <2>2, <2>3, <2>7, <2>8, <2>10, <2>11, <2>12, <1>1, <1>5, <1>9, <1>10
<1>12. CASE ~more
  <2>1. building' = "built" /\ nodes' = full
    BY <1>3, <1>12
  <2>3. NodeCount' = e /\ End' = e
    BY <2>1, <1>7, <1>9 DEF NodeCount, End
  <2>4. \A x \in 1 .. e : Line'[x] = nodes'[x]
    BY <2>3, <1>1 DEF Line
  <2>5. \A x \in 1 .. e : Line[x] = nodes[x]
    BY <1>1 DEF Line
  <2>6. header' = [header EXCEPT !.totalNodes = e]
    BY <1>3, <2>1, <1>7
  <2>7. nodes' # <<>>
    BY <2>1, <1>7, <1>1
  <2>8. /\ header'.root = header.root /\ header'.depth = header.depth
        /\ header' \in [root : Nat, depth : Nat, first : Nat, last : Nat, leafRecords : Nat,
                        totalNodes : Nat]
    BY <2>6, <1>1 DEF TreeTypeOK
  <2>9. mapDone' >= ByteCount(e)
    <3>1. ByteCount(e) \in Nat
      BY <1>1, BitsAssumption DEF ByteCount
    <3> QED BY <3>1, <1>3, <1>4, <1>10, <1>12, SMTT(30) DEF TreeTypeOK
  <2>10. m \in 1 .. e
    BY <1>1, <1>2
  <2>11. \A x \in 1 .. e : x # m => Line'[x] = Line[x]
    BY <1>1, <1>7, <2>1, <2>4, <2>5
  <2>12. Line'[m] = Taken(m)
    BY <1>1, <1>7, <2>1, <2>4, <2>10
  <2>13. m \in {1, e} /\ (m # 1 => Line[e].kind = "map") /\ nodes' \in Seq(Node)
    BY <1>1, <1>2, <1>7, <2>1, <2>5
  <2> QED
    BY <2>1, <2>3, <2>7, <2>8, <2>9, <2>11, <2>12, <2>13, <1>1, <1>5, <1>9, <1>10
<1> QED BY <1>11, <1>12
-----------------------------------------------------------------------------
LEMMA TreeCases ==
    TreeNext <=> FillNode \/ FullNode \/ RaiseLevel \/ CloseTree \/ AddMap
BY DEF TreeNext, RaiseLevel, CloseTree

LEMMA TypeStep ==
    ASSUME TreeTypeOK, SizesOK, TreeNext
    PROVE  TreeTypeOK'
<1>1. UNCHANGED <<data, nodeSize, Values, Rec, Node>>
  BY DataStays
<1>2. /\ IsMap(data') /\ data' \in Seq(Rec')
      /\ nodeSize' \in Nat /\ RoomForRecords(data', nodeSize')
  BY <1>1 DEF TreeTypeOK
<1>3. End \in Nat \ {0} /\ NodeCount \in Nat
  BY LineOfNodes
<1>4. CASE FillNode
  <2>1. next' = <<AddRecord(next[1], Head(rest))>> /\ UNCHANGED <<building, nodes, header, mapDone>>
    BY <1>4 DEF FillNode
  <2>2. next[1] \in Node /\ Head(rest) \in Rec /\ rest' \in Seq(Rec) /\ Open
    BY <1>4, FillShape, LineOfNodes
  <2>3. AddRecord(next[1], Head(rest)) \in Node
    BY <2>2, AddRecordIsNode
  <2>4. Pointer(Head(rest), NodeCount) \in Rec
    BY <2>2, <1>3, PointerIsRec
  <2>5. indices' \in Seq(Rec)
    <3>1. \/ indices' = Append(indices, Pointer(Head(rest), NodeCount))
          \/ indices' = indices
      BY <1>4, FillShape
    <3>2. indices \in Seq(Rec)
      BY DEF TreeTypeOK
    <3>3. Append(indices, Pointer(Head(rest), NodeCount)) \in Seq(Rec)
      BY <3>2, <2>4
    <3> QED BY <3>1, <3>2, <3>3
  <2>6. next' \in Seq(Node') /\ Len(next') = 1 /\ building' = "level"
    BY <2>1, <2>2, <2>3, <1>1 DEF Open
  <2> QED BY <1>1, <1>2, <2>1, <2>2, <2>5, <2>6 DEF TreeTypeOK
<1>5. CASE FullNode
  <2>1. UNCHANGED <<building, header, mapDone>>
    BY <1>5 DEF FullNode
  <2> DEFINE e == End
             fresh == [NewNode(Line[e].kind, Line[e].height) EXCEPT !.bLink = e - 1]
  <2>2. /\ Open /\ Head(rest) \in Rec /\ rest' \in Seq(Rec) /\ fresh \in Node
        /\ nodes' \in Seq(Node) /\ nodes' # <<>>
        /\ next' = <<AddRecord(fresh, Head(rest))>>
        /\ indices' = Append(indices, Pointer(Head(rest), e))
    BY <1>5, FullShape
  <2>3. e \in Nat
    BY <1>3
  <2> HIDE DEF fresh, e
  <2>4. AddRecord(fresh, Head(rest)) \in Node
    BY <2>2, AddRecordIsNode
  <2>5. indices' \in Seq(Rec)
    BY <2>2, <2>3, PointerIsRec, SMTT(30) DEF TreeTypeOK
  <2>6. next' \in Seq(Node') /\ Len(next') = 1 /\ building' = "level"
    BY <2>1, <2>2, <2>4, <1>1 DEF Open
  <2> QED BY <1>1, <1>2, <2>1, <2>2, <2>5, <2>6 DEF TreeTypeOK
<1>6. CASE RaiseLevel
  <2> DEFINE e == End
  <2>1. building' = "level" /\ mapDone' = mapDone
    BY <1>6 DEF RaiseLevel, EndLevel
  <2>2. /\ rest' = indices /\ indices' = <<>> /\ nodes' \in Seq(Node) /\ nodes' # <<>>
        /\ next' = <<NewNode("index", Line[e].height + 1)>>
        /\ header' \in [root : Nat, depth : Nat, first : Nat, last : Nat, leafRecords : Nat,
                        totalNodes : Nat]
    BY <1>6, RaiseShape
  <2>3. Line[e].height + 1 \in Nat
    <3>1. Line[e] \in Node
      BY <1>3, LineOfNodes
    <3> QED BY <3>1 DEF Node
  <2> HIDE DEF e
  <2>4. next' \in Seq(Node') /\ Len(next') = 1
    BY <2>2, <2>3, NewNodeIsNode, <1>1
  <2> QED BY <1>1, <1>2, <2>1, <2>2, <2>4 DEF TreeTypeOK
<1>7. CASE CloseTree
  <2>1. mapDone' = mapDone
    BY <1>7 DEF CloseTree, EndLevel
  <2>2. /\ rest' = rest /\ indices' = indices /\ nodes' \in Seq(Node) /\ nodes' # <<>>
        /\ next' = <<>> /\ building' = "map"
        /\ header' \in [root : Nat, depth : Nat, first : Nat, last : Nat, leafRecords : Nat,
                        totalNodes : Nat]
    BY <1>7, CloseShape
  <2> QED BY <1>1, <1>2, <2>1, <2>2 DEF TreeTypeOK
<1>8. CASE AddMap
  <2>1. UNCHANGED <<next, rest, indices>>
    BY <1>8 DEF AddMap
  <2>2. /\ building' \in {"map", "built"} /\ ~Open
        /\ nodes' \in Seq(Node) /\ nodes' # <<>> /\ mapDone' \in Nat
        /\ header' \in [root : Nat, depth : Nat, first : Nat, last : Nat, leafRecords : Nat,
                        totalNodes : Nat]
    BY <1>8, MapShape
  <2> QED BY <1>1, <1>2, <2>1, <2>2 DEF TreeTypeOK, Open
<1> QED BY <1>4, <1>5, <1>6, <1>7, <1>8, TreeCases

LEMMA NodeFields ==
    ASSUME NEW node \in Node
    PROVE  /\ node.height \in Nat /\ node.size \in Nat /\ node.fLink \in Nat /\ node.bLink \in Nat
           /\ node.recs \in Seq(Rec)
BY DEF Node

LEMMA RecFields ==
    ASSUME NEW rec \in Rec
    PROVE  /\ rec.klen \in Nat /\ rec.vlen \in Nat /\ rec.key \in Int \X Int
           /\ RecordSize(rec) \in Nat
BY DEF Rec, Records, RecordSize

\* A fresh node, its first record, and a node that is closed.
LEMMA FreshFields ==
    ASSUME NEW k, NEW h, NEW b
    PROVE  LET fresh == [NewNode(k, h) EXCEPT !.bLink = b]
           IN  /\ fresh.kind = k /\ fresh.height = h /\ fresh.fLink = 0 /\ fresh.bLink = b
               /\ fresh.recs = <<>> /\ fresh.size = DescSize + OffSize
BY DEF NewNode

LEMMA ClosedFields ==
    ASSUME NEW node \in Node, NEW f
    PROVE  LET closed == [node EXCEPT !.fLink = f]
           IN  /\ closed.kind = node.kind /\ closed.height = node.height /\ closed.fLink = f
               /\ closed.bLink = node.bLink /\ closed.recs = node.recs /\ closed.size = node.size
BY DEF Node

LEMMA FillFields ==
    ASSUME TreeTypeOK, FillNode, NEW e, e = End
    PROVE  /\ Open /\ Open' /\ End' = e /\ NodeCount' = e - 1 /\ NodeCount = e - 1 /\ e \in Nat \ {0, 1}
           /\ rest # <<>> /\ Head(rest) \in Rec /\ rest' = Tail(rest)
           /\ \A x \in 1 .. e - 1 : Line'[x] = Line[x]
           /\ Line'[e].recs = Append(Line[e].recs, Head(rest))
           /\ Line'[e].size = Line[e].size + RecordSize(Head(rest)) + OffSize
           /\ Line'[e].kind = Line[e].kind /\ Line'[e].height = Line[e].height
           /\ Line'[e].fLink = Line[e].fLink /\ Line'[e].bLink = Line[e].bLink
           /\ indices' = IF Line[e].recs = <<>> THEN Append(indices, Pointer(Head(rest), e - 1))
                         ELSE indices
           /\ FitsIn(Line[e], Head(rest))
<1>1. Open /\ NodeCount = e - 1 /\ e \in Nat \ {0, 1} /\ Line[e] = next[1]
  <2>1. Open
    BY FillShape
  <2> QED BY <2>1, LineOfNodes
<1>2. Line[e] \in Node /\ Head(rest) \in Rec
  BY <1>1, FillShape, LineOfNodes
<1>3. Line'[e] = AddRecord(Line[e], Head(rest))
  BY FillShape
<1>4. FitsIn(Line[e], Head(rest))
  BY <1>1 DEF FillNode
<1>5. indices' = IF Line[e].recs = <<>> THEN Append(indices, Pointer(Head(rest), e - 1)) ELSE indices
  BY <1>1, FillShape
<1>6. \A x \in 1 .. e - 1 : Line'[x] = Line[x]
  BY <1>1, FillShape
<1>7. Open' /\ End' = e /\ NodeCount' = e - 1 /\ rest # <<>> /\ rest' = Tail(rest)
  BY <1>1, FillShape
<1> QED BY <1>1, <1>2, <1>3, <1>4, <1>5, <1>6, <1>7, AddRecordIsNode

LEMMA FullFields ==
    ASSUME TreeTypeOK, FullNode, NEW e, e = End
    PROVE  /\ Open /\ Open' /\ End' = e + 1 /\ NodeCount' = e /\ NodeCount = e - 1 /\ e \in Nat \ {0, 1}
           /\ rest # <<>> /\ Head(rest) \in Rec /\ rest' = Tail(rest)
           /\ \A x \in 1 .. e - 1 : Line'[x] = Line[x]
           /\ Line'[e].recs = Line[e].recs /\ Line'[e].size = Line[e].size
           /\ Line'[e].kind = Line[e].kind /\ Line'[e].height = Line[e].height
           /\ Line'[e].fLink = e /\ Line'[e].bLink = Line[e].bLink
           /\ Line'[e + 1].recs = <<Head(rest)>>
           /\ Line'[e + 1].size = DescSize + OffSize + RecordSize(Head(rest)) + OffSize
           /\ Line'[e + 1].kind = Line[e].kind /\ Line'[e + 1].height = Line[e].height
           /\ Line'[e + 1].fLink = 0 /\ Line'[e + 1].bLink = e - 1
           /\ indices' = Append(indices, Pointer(Head(rest), e))
           /\ ~FitsIn(Line[e], Head(rest))
<1> DEFINE fresh == [NewNode(Line[e].kind, Line[e].height) EXCEPT !.bLink = e - 1]
<1>1. Open /\ NodeCount = e - 1 /\ e \in Nat \ {0, 1} /\ Line[e] = next[1] /\ Line[e] \in Node
  <2>1. Open
    BY FullShape
  <2> QED BY <2>1, LineOfNodes
<1>2. /\ Open' /\ End' = e + 1 /\ NodeCount' = e
      /\ rest # <<>> /\ Head(rest) \in Rec /\ rest' = Tail(rest)
      /\ \A x \in 1 .. e - 1 : Line'[x] = Line[x]
      /\ indices' = Append(indices, Pointer(Head(rest), e))
  BY FullShape
<1>3. Line'[e] = [Line[e] EXCEPT !.fLink = e]
  BY FullShape
<1>4. Line'[e + 1] = AddRecord(fresh, Head(rest)) /\ fresh \in Node
  BY FullShape
<1>5. /\ fresh.kind = Line[e].kind /\ fresh.height = Line[e].height /\ fresh.fLink = 0
      /\ fresh.bLink = e - 1 /\ fresh.recs = <<>> /\ fresh.size = DescSize + OffSize
  BY FreshFields
<1> HIDE DEF fresh
<1>6. /\ Line'[e].recs = Line[e].recs /\ Line'[e].size = Line[e].size
      /\ Line'[e].kind = Line[e].kind /\ Line'[e].height = Line[e].height
      /\ Line'[e].fLink = e /\ Line'[e].bLink = Line[e].bLink
  BY <1>1, <1>3, ClosedFields
<1>7. /\ Line'[e + 1].recs = Append(<<>>, Head(rest))
      /\ Line'[e + 1].size = DescSize + OffSize + RecordSize(Head(rest)) + OffSize
      /\ Line'[e + 1].kind = Line[e].kind /\ Line'[e + 1].height = Line[e].height
      /\ Line'[e + 1].fLink = 0 /\ Line'[e + 1].bLink = e - 1
  BY <1>2, <1>4, <1>5, AddRecordIsNode
<1>8. Append(<<>>, Head(rest)) = <<Head(rest)>>
  OBVIOUS
<1>9. ~FitsIn(Line[e], Head(rest))
  BY <1>1 DEF FullNode
<1> QED BY <1>1, <1>2, <1>6, <1>7, <1>8, <1>9

LEMMA RaiseFields ==
    ASSUME TreeTypeOK, RaiseLevel, NEW e, e = End
    PROVE  /\ Open /\ Open' /\ End' = e + 1 /\ NodeCount' = e /\ NodeCount = e - 1 /\ e \in Nat \ {0, 1}
           /\ rest = <<>> /\ rest' = indices /\ indices' = <<>> /\ Len(indices) > 1
           /\ \A x \in 1 .. e : Line'[x] = Line[x]
           /\ Line'[e + 1].recs = <<>> /\ Line'[e + 1].size = DescSize + OffSize
           /\ Line'[e + 1].kind = "index" /\ Line'[e + 1].height = Line[e].height + 1
           /\ Line'[e + 1].fLink = 0
<1>1. Open /\ NodeCount = e - 1 /\ e \in Nat \ {0, 1}
  <2>1. Open
    BY RaiseShape
  <2> QED BY <2>1, LineOfNodes
<1>2. Line'[e + 1] = NewNode("index", Line[e].height + 1)
  BY RaiseShape
<1>3. /\ Line'[e + 1].recs = <<>> /\ Line'[e + 1].size = DescSize + OffSize
      /\ Line'[e + 1].kind = "index" /\ Line'[e + 1].height = Line[e].height + 1
      /\ Line'[e + 1].fLink = 0
  BY <1>2 DEF NewNode
<1> QED BY <1>1, <1>3, RaiseShape DEF RaiseLevel

LEMMA MapFields ==
    ASSUME TreeTypeOK, AddMap, SizesOK, NEW e, e = End, NEW m, m = MapNode
    PROVE  /\ ~Open /\ ~Open' /\ e \in Nat \ {0} /\ m \in {1, e} /\ NodeCount = e
           /\ building' \in {"map", "built"} /\ header' .root = header.root
           /\ header'.depth = header.depth
           /\ m # 1 => Line[e].kind = "map"
           /\ m = 1 /\ e # 1 => Line[e].kind # "map"
           /\ \A x \in 1 .. e : x # m => Line'[x] = Line[x]
           /\ Line'[m].kind = Line[m].kind /\ Line'[m].height = Line[m].height
           /\ Line'[m].recs = Line[m].recs /\ Line'[m].bLink = Line[m].bLink
           /\ Line'[m].size = nodeSize
           /\ \/ /\ building' = "map" /\ End' = e + 1
                 /\ Line'[m].fLink = e
                 /\ Line'[e + 1].kind = "map" /\ Line'[e + 1].height = 0
                 /\ Line'[e + 1].fLink = 0
                 /\ Line'[e + 1].bLink = IF m = 1 THEN 0 ELSE e - 1
                 /\ Line'[e + 1].size = DescSize + OffSize
              \/ /\ building' = "built" /\ End' = e
                 /\ Line'[m].fLink = Line[m].fLink
                 /\ mapDone' >= ByteCount(e)
<1>1. e \in Nat \ {0} /\ NodeCount = e /\ m \in {1, e}
  BY LineOfNodes, MapShape
<1>2. Line[m] \in Node
  BY <1>1, LineOfNodes
<1>3. /\ Taken(m).kind = Line[m].kind /\ Taken(m).height = Line[m].height
      /\ Taken(m).recs = Line[m].recs /\ Taken(m).bLink = Line[m].bLink
      /\ Taken(m).size = nodeSize /\ Taken(m).fLink = Line[m].fLink
      /\ DOMAIN Taken(m) = DOMAIN Line[m] /\ "fLink" \in DOMAIN Line[m]
  BY <1>2 DEF Taken, Node
<1>4. /\ TakenOn(m).kind = Line[m].kind /\ TakenOn(m).height = Line[m].height
      /\ TakenOn(m).recs = Line[m].recs /\ TakenOn(m).bLink = Line[m].bLink
      /\ TakenOn(m).size = nodeSize /\ TakenOn(m).fLink = e
  BY <1>1, <1>3 DEF TakenOn
<1>5. /\ MapFollows(e).kind = "map" /\ MapFollows(e).height = 0 /\ MapFollows(e).fLink = 0
      /\ MapFollows(e).bLink = (IF m = 1 THEN 0 ELSE e - 1)
      /\ MapFollows(e).size = DescSize + OffSize
  BY FreshFields DEF MapFollows
<1>8. m = 1 /\ e # 1 => Line[e].kind # "map"
  BY <1>1, LineOfNodes DEF MapNode
<1>0. /\ ~Open /\ ~Open' /\ building' \in {"map", "built"} /\ header'.root = header.root
      /\ header'.depth = header.depth
      /\ m # 1 => Line[e].kind = "map"
      /\ \A x \in 1 .. e : x # m => Line'[x] = Line[x]
  BY MapShape
<1>6. CASE building' = "map" /\ End' = e + 1 /\ Line'[m] = TakenOn(m) /\ Line'[e + 1] = MapFollows(e)
  BY <1>0, <1>1, <1>4, <1>5, <1>6, <1>8
<1>7. CASE building' = "built" /\ End' = e /\ Line'[m] = Taken(m) /\ mapDone' >= ByteCount(e)
  BY <1>0, <1>1, <1>3, <1>7, <1>8
<1> QED BY <1>6, <1>7, MapShape
-----------------------------------------------------------------------------
LEMMA RoomyPointer ==
    ASSUME TreeTypeOK, NEW rec \in Rec, Roomy(rec, nodeSize), NEW n
    PROVE  Roomy(Pointer(rec, n), nodeSize)
<1>1. rec.klen \in Nat /\ {DescSize, OffSize, PointerSize} \subseteq Nat
  BY RecFields, TreeAssumption
<1>2. /\ Pointer(rec, n).klen = rec.klen
      /\ RecordSize(Pointer(rec, n)) = rec.klen + PointerSize
  BY DEF Pointer, RecordSize
<1> QED BY <1>1, <1>2 DEF Roomy

\* What is true of all records stays true of the tail, and of one more.
LEMMA RestFields ==
    ASSUME TreeTypeOK, rest # <<>>
    PROVE  /\ Head(rest) = rest[1] /\ 1 \in DOMAIN rest
           /\ Len(Tail(rest)) = Len(rest) - 1 /\ Len(rest) \in Nat \ {0}
           /\ DOMAIN Tail(rest) = 1 .. Len(rest) - 1
           /\ \A i \in 1 .. Len(rest) - 1 : i + 1 \in DOMAIN rest /\ Tail(rest)[i] = rest[i + 1]
<1>1. rest \in Seq(Rec)
  BY DEF TreeTypeOK
<1> QED BY <1>1

LEMMA SizesStep ==
    ASSUME TreeTypeOK, SizesOK, LevelsOK, TreeNext
    PROVE  SizesOK'
<1> DEFINE e == End
<1>1. nodeSize' = nodeSize /\ data' = data /\ nodeSize \in Nat /\ e \in Nat \ {0}
  BY DataStays, LineOfNodes DEF TreeTypeOK
<1>3. /\ \A x \in 1 .. e : Line[x].size <= nodeSize /\ Line[x].size \in Nat
      /\ DescSize + 2 * OffSize <= nodeSize
      /\ \A i \in DOMAIN data : Roomy(data[i], nodeSize)
      /\ \A i \in DOMAIN rest : Roomy(rest[i], nodeSize)
      /\ \A i \in DOMAIN indices : Roomy(indices[i], nodeSize)
      /\ Open /\ Line[e].recs = <<>> => Line[e].size = DescSize + OffSize
      /\ building = "level" => Line[1].size + OffSize <= nodeSize
  BY LineOfNodes, NodeFields DEF SizesOK
<1>4. OffSize \in Nat /\ DescSize \in Nat
  BY TreeAssumption
<1>5. \A i \in DOMAIN data' : Roomy(data'[i], nodeSize')
  BY <1>1, <1>3
<1> HIDE DEF e
<1>6. ASSUME rest # <<>>, Head(rest) \in Rec, rest' = Tail(rest)
      PROVE  /\ Roomy(Head(rest), nodeSize) /\ RecordSize(Head(rest)) \in Nat
             /\ \A i \in DOMAIN rest' : Roomy(rest'[i], nodeSize')
             /\ \A n \in Nat : \A i \in DOMAIN Append(indices, Pointer(Head(rest), n)) :
                   Roomy(Append(indices, Pointer(Head(rest), n))[i], nodeSize')
  <2>1. Roomy(Head(rest), nodeSize) /\ RecordSize(Head(rest)) \in Nat
    BY <1>3, <1>6, RestFields, RecFields
  <2>2. \A i \in DOMAIN rest' : Roomy(rest'[i], nodeSize')
    BY <1>1, <1>3, <1>6, RestFields
  <2>3. ASSUME NEW n \in Nat, NEW i \in DOMAIN Append(indices, Pointer(Head(rest), n))
        PROVE  Roomy(Append(indices, Pointer(Head(rest), n))[i], nodeSize')
    <3> DEFINE ptr == Pointer(Head(rest), n)
    <3>1. Roomy(ptr, nodeSize)
      BY <2>1, <1>6, RoomyPointer
    <3>2. indices \in Seq(Rec)
      BY DEF TreeTypeOK
    <3> HIDE DEF ptr
    <3>3. Append(indices, ptr)[i] = ptr \/ (i \in DOMAIN indices /\ Append(indices, ptr)[i] = indices[i])
      BY <3>2, <2>3 DEF ptr
    <3> QED BY <3>1, <3>3, <1>1, <1>3 DEF ptr
  <2> QED BY <2>1, <2>2, <2>3
<1>7. CASE FillNode
  <2>1. /\ Open' /\ End' = e /\ e \in Nat \ {0, 1}
        /\ rest # <<>> /\ Head(rest) \in Rec /\ rest' = Tail(rest)
        /\ \A x \in 1 .. e - 1 : Line'[x] = Line[x]
        /\ Line'[e].recs = Append(Line[e].recs, Head(rest))
        /\ Line'[e].size = Line[e].size + RecordSize(Head(rest)) + OffSize
        /\ indices' = IF Line[e].recs = <<>> THEN Append(indices, Pointer(Head(rest), e - 1))
                      ELSE indices
        /\ FitsIn(Line[e], Head(rest))
    BY <1>7, FillFields DEF e
  <2>2. Line'[e].size <= nodeSize
    BY <2>1 DEF FitsIn
  <2>3. \A x \in 1 .. End' : Line'[x].size <= nodeSize'
    BY <2>1, <2>2, <1>1, <1>3
  <2>4. Line[e].recs \in Seq(Rec) /\ Line'[e].recs # <<>>
    <3>1. Line[e].recs \in Seq(Rec)
      BY <1>1, LineOfNodes, NodeFields DEF e
    <3>2. Append(Line[e].recs, Head(rest)) # <<>>
      BY <3>1, <2>1, AppendProperties
    <3> QED BY <3>1, <3>2, <2>1
  <2>5. \A i \in DOMAIN indices' : Roomy(indices'[i], nodeSize')
    <3>1. e - 1 \in Nat
      BY <2>1
    <3> QED BY <3>1, <2>1, <1>1, <1>3, <1>6
  <2>6. Line'[1].size + OffSize <= nodeSize' /\ building' = "level"
    BY <2>1, <1>1, <1>3, <1>7 DEF FillNode, Open
  <2> QED BY <2>1, <2>3, <2>4, <2>5, <2>6, <1>1, <1>3, <1>5, <1>6 DEF SizesOK
<1>8. CASE FullNode
  <2>1. /\ Open' /\ End' = e + 1 /\ e \in Nat \ {0, 1}
        /\ rest # <<>> /\ Head(rest) \in Rec /\ rest' = Tail(rest)
        /\ \A x \in 1 .. e - 1 : Line'[x] = Line[x]
        /\ Line'[e].size = Line[e].size
        /\ Line'[e + 1].recs = <<Head(rest)>>
        /\ Line'[e + 1].size = DescSize + OffSize + RecordSize(Head(rest)) + OffSize
        /\ indices' = Append(indices, Pointer(Head(rest), e))
    BY <1>8, FullFields DEF e
  <2>2. Line'[e + 1].size <= nodeSize
    BY <2>1, <1>4, <1>6 DEF Roomy
  <2>3. \A x \in 1 .. End' : Line'[x].size <= nodeSize'
    BY <2>1, <2>2, <1>1, <1>3
  <2>5. \A i \in DOMAIN indices' : Roomy(indices'[i], nodeSize')
    BY <2>1, <1>1, <1>6
  <2>6. Line'[1].size + OffSize <= nodeSize' /\ building' = "level"
    <3>1. e = 1 \/ 1 \in 1 .. e - 1
      BY <1>1
    <3> QED BY <3>1, <2>1, <1>1, <1>3, <1>8 DEF FullNode, Open
  <2> QED BY <2>1, <2>3, <2>5, <2>6, <1>1, <1>3, <1>5, <1>6 DEF SizesOK
<1>9. CASE RaiseLevel
  <2>1. /\ Open' /\ End' = e + 1 /\ e \in Nat \ {0, 1}
        /\ rest' = indices /\ indices' = <<>>
        /\ \A x \in 1 .. e : Line'[x] = Line[x]
        /\ Line'[e + 1].recs = <<>> /\ Line'[e + 1].size = DescSize + OffSize
    BY <1>9, RaiseFields DEF e
  <2>3. \A x \in 1 .. End' : Line'[x].size <= nodeSize'
    BY <2>1, <1>1, <1>3, <1>4
  <2>6. Line'[1].size + OffSize <= nodeSize' /\ building' = "level"
    BY <2>1, <1>1, <1>3, <1>9 DEF RaiseLevel, EndLevel, Open
  <2> QED BY <2>1, <2>3, <2>6, <1>1, <1>3, <1>5 DEF SizesOK
<1>10. CASE CloseTree
  <2>1. /\ Open /\ ~Open' /\ building' = "map" /\ End' = e /\ NodeCount' = e /\ NodeCount = e - 1
        /\ rest' = rest /\ indices' = indices
        /\ \A x \in 1 .. e : Line'[x] = Line[x]
    BY <1>10, CloseShape DEF e
  <2>2. \A x \in 1 .. End' : Line'[x].size <= nodeSize'
    BY <2>1, <1>1, <1>3
  <2>3. e \in 2 .. Top /\ Line[e].kind # "map"
    BY <2>1, <1>1 DEF LevelsOK, Top, e
  <2>4. MapNode' = 1
    <3>1. nodes'[e] = Line'[e]
      BY <2>1, <1>1 DEF Line
    <3> QED BY <3>1, <2>1, <2>3, <1>1 DEF MapNode
  <2>5. Line'[1].size + OffSize <= nodeSize'
    BY <2>1, <1>1, <1>3 DEF Open
  <2> QED BY <2>1, <2>2, <2>4, <2>5, <1>1, <1>3, <1>5 DEF SizesOK
<1>11. CASE AddMap
  <2> DEFINE m == MapNode
  <2>1. /\ ~Open' /\ m \in {1, e} /\ building' \in {"map", "built"}
        /\ \A x \in 1 .. e : x # m => Line'[x] = Line[x]
        /\ Line'[m].size = nodeSize
        /\ \/ /\ building' = "map" /\ End' = e + 1
              /\ Line'[e + 1].kind = "map"
              /\ Line'[e + 1].size = DescSize + OffSize
           \/ building' = "built" /\ End' = e
    BY <1>11, MapFields DEF e
  <2>2. UNCHANGED <<rest, indices>>
    BY <1>11 DEF AddMap
  <2> HIDE DEF m
  <2>3. \A x \in 1 .. End' : Line'[x].size <= nodeSize'
    BY <2>1, <1>1, <1>3, <1>4
  <2>4. building' = "map" => Line'[MapNode'].size + OffSize <= nodeSize'
    <3> SUFFICES ASSUME building' = "map" PROVE Line'[MapNode'].size + OffSize <= nodeSize'
      OBVIOUS
    <3>1. End' = e + 1 /\ NodeCount' = e + 1 /\ nodes'[e + 1] = Line'[e + 1]
      BY <2>1, <1>1 DEF End, Line
    <3>2. MapNode' = e + 1
      BY <3>1, <2>1 DEF MapNode
    <3> QED BY <3>2, <2>1, <1>1, <1>3, <1>4
  <2> QED BY <2>1, <2>2, <2>3, <2>4, <1>1, <1>3, <1>5 DEF SizesOK
<1> QED BY <1>7, <1>8, <1>9, <1>10, <1>11, TreeCases

LEMMA LinksStep ==
    ASSUME TreeTypeOK, SizesOK, LinksOK, LevelsOK, TreeNext
    PROVE  LinksOK'
<1> DEFINE e == End
<1>1. e \in Nat \ {0} /\ Top \in 1 .. e /\ (Open => Top = e)
  BY LineOfNodes DEF LevelsOK, Top
<1>2. /\ \A x \in 2 .. e - 1 :
            /\ Line[x].fLink \in {0, x}
            /\ Line[x].fLink = x => Line[x + 1].bLink = x - 1 /\ Line[x + 1].height = Line[x].height
            /\ Line[x].fLink = 0 => Line[x + 1].height # Line[x].height
      /\ e > 1 => Line[e].fLink = 0
  BY DEF LinksOK, Linked
<1>3. /\ \A x \in 2 .. Top : Line[x].height > 0 /\ Line[x].kind # "map"
      /\ \A x \in Top + 1 .. e : Line[x].height = 0
      /\ \A x \in 1 .. e : Line[x].height \in Nat
  BY LineOfNodes, NodeFields DEF LevelsOK
<1> HIDE DEF e
<1>4. CASE FillNode
  <2>1. /\ End' = e /\ e \in Nat \ {0, 1}
        /\ \A x \in 1 .. e - 1 : Line'[x] = Line[x]
        /\ Line'[e].fLink = Line[e].fLink /\ Line'[e].bLink = Line[e].bLink
        /\ Line'[e].height = Line[e].height
    BY <1>4, FillFields DEF e
  <2> QED BY <2>1, <1>2 DEF LinksOK, Linked
<1>5. CASE FullNode
  <2>1. /\ End' = e + 1 /\ e \in Nat \ {0, 1}
        /\ \A x \in 1 .. e - 1 : Line'[x] = Line[x]
        /\ Line'[e].fLink = e /\ Line'[e].bLink = Line[e].bLink
        /\ Line'[e].height = Line[e].height
        /\ Line'[e + 1].height = Line[e].height
        /\ Line'[e + 1].fLink = 0 /\ Line'[e + 1].bLink = e - 1
    BY <1>5, FullFields DEF e
  <2> QED BY <2>1, <1>2 DEF LinksOK, Linked
<1>6. CASE RaiseLevel
  <2>1. /\ End' = e + 1 /\ e \in Nat \ {0, 1}
        /\ \A x \in 1 .. e : Line'[x] = Line[x]
        /\ Line'[e + 1].height = Line[e].height + 1
        /\ Line'[e + 1].fLink = 0
    BY <1>6, RaiseFields DEF e
  <2> QED BY <2>1, <1>2, <1>3 DEF LinksOK, Linked
<1>7. CASE CloseTree
  <2>1. End' = e /\ \A x \in 1 .. e : Line'[x] = Line[x]
    BY <1>7, CloseShape DEF e
  <2> QED BY <2>1, <1>1, <1>2 DEF LinksOK, Linked
<1>8. CASE AddMap
  <2> DEFINE m == MapNode
  <2>1. /\ m \in {1, e}
        /\ m # 1 => Line[e].kind = "map"
        /\ m = 1 /\ e # 1 => Line[e].kind # "map"
        /\ \A x \in 1 .. e : x # m => Line'[x] = Line[x]
        /\ Line'[m].height = Line[m].height /\ Line'[m].bLink = Line[m].bLink
        /\ \/ /\ End' = e + 1 /\ Line'[m].fLink = e
              /\ Line'[e + 1].height = 0 /\ Line'[e + 1].fLink = 0
              /\ Line'[e + 1].bLink = IF m = 1 THEN 0 ELSE e - 1
           \/ End' = e /\ Line'[m].fLink = Line[m].fLink
    BY <1>8, MapFields DEF e
  <2>2. m = 1 /\ e # 1 => Top = e
    <3>1. \A x \in Top + 1 .. e : Line[x].kind = "map"
      BY DEF LevelsOK, e
    <3> QED BY <3>1, <2>1, <1>1
  <2>3. m # 1 => Line[e].height = 0
    BY <2>1, <1>1, <1>3
  <2> HIDE DEF m
  <2>4. CASE End' = e /\ Line'[m].fLink = Line[m].fLink
    <3>1. \A x \in 1 .. e : /\ Line'[x].fLink = Line[x].fLink /\ Line'[x].bLink = Line[x].bLink
                            /\ Line'[x].height = Line[x].height
      BY <2>1, <2>4
    <3> QED BY <3>1, <2>4, <1>1, <1>2 DEF LinksOK, Linked
  <2>5. CASE /\ End' = e + 1 /\ Line'[m].fLink = e
             /\ Line'[e + 1].height = 0 /\ Line'[e + 1].fLink = 0
             /\ Line'[e + 1].bLink = IF m = 1 THEN 0 ELSE e - 1
    <3>1. \A x \in 1 .. e : /\ Line'[x].bLink = Line[x].bLink /\ Line'[x].height = Line[x].height
                            /\ x # m => Line'[x].fLink = Line[x].fLink
      BY <2>1
    <3>2. e # 1 => /\ Line'[e].fLink \in {0, e}
                   /\ Line'[e].fLink = e => Line'[e + 1].bLink = e - 1 /\ Line'[e + 1].height = Line'[e].height
                   /\ Line'[e].fLink = 0 => Line'[e + 1].height # Line'[e].height
      <4>1. CASE m = 1
        BY <4>1, <3>1, <2>1, <2>2, <2>5, <1>1, <1>2, <1>3
      <4>2. CASE m = e /\ m # 1
        BY <4>2, <3>1, <2>3, <2>5, <1>1
      <4> QED BY <4>1, <4>2, <2>1
    <3>3. \A x \in 2 .. e - 1 :
            /\ Line'[x].fLink \in {0, x}
            /\ Line'[x].fLink = x => Line'[x + 1].bLink = x - 1 /\ Line'[x + 1].height = Line'[x].height
            /\ Line'[x].fLink = 0 => Line'[x + 1].height # Line'[x].height
      BY <3>1, <2>1, <1>1, <1>2
    <3> QED BY <3>2, <3>3, <2>5, <1>1 DEF LinksOK, Linked
  <2> QED BY <2>1, <2>4, <2>5
<1> QED BY <1>4, <1>5, <1>6, <1>7, <1>8, TreeCases

LEMMA LevelsStep ==
    ASSUME TreeTypeOK, SizesOK, LevelsOK, TreeNext
    PROVE  LevelsOK'
<1> DEFINE e == End
<1>1. e \in Nat \ {0} /\ Top \in 1 .. e /\ (Open => Top = e) /\ data' = data
  BY LineOfNodes, DataStays DEF LevelsOK, Top
<1>2. /\ Line[1].kind = "header" /\ Line[1].height = 0
      /\ \A x \in 2 .. Top :
            /\ Line[x].height > 0
            /\ Line[x].kind = IF Line[x].height = 1 THEN "leaf" ELSE "index"
      /\ \A x \in Top + 1 .. e : Line[x].height = 0 /\ Line[x].kind = "map"
      /\ Open => data # <<>> /\ Top > 1
      /\ ~Open => header.depth = Line[Top].height /\ (data # <<>> => Top > 1)
      /\ \A x \in 1 .. e : Line[x].height \in Nat
      /\ ~Open => Top = header.root + 1
  BY LineOfNodes, NodeFields DEF LevelsOK, Top
<1> HIDE DEF e
<1>3. CASE FillNode
  <2>1. /\ Open /\ Open' /\ End' = e /\ e \in Nat \ {0, 1}
        /\ \A x \in 1 .. e - 1 : Line'[x] = Line[x]
        /\ Line'[e].kind = Line[e].kind /\ Line'[e].height = Line[e].height
    BY <1>3, FillFields DEF e
  <2>2. Top' = e
    BY <2>1 DEF Top
  <2> QED BY <2>1, <2>2, <1>1, <1>2 DEF LevelsOK
<1>4. CASE FullNode
  <2>1. /\ Open /\ Open' /\ End' = e + 1 /\ e \in Nat \ {0, 1}
        /\ \A x \in 1 .. e - 1 : Line'[x] = Line[x]
        /\ Line'[e].kind = Line[e].kind /\ Line'[e].height = Line[e].height
        /\ Line'[e + 1].kind = Line[e].kind /\ Line'[e + 1].height = Line[e].height
    BY <1>4, FullFields DEF e
  <2>2. Top' = e + 1
    BY <2>1 DEF Top
  <2> QED BY <2>1, <2>2, <1>1, <1>2 DEF LevelsOK
<1>5. CASE RaiseLevel
  <2>1. /\ Open /\ Open' /\ End' = e + 1 /\ e \in Nat \ {0, 1}
        /\ \A x \in 1 .. e : Line'[x] = Line[x]
        /\ Line'[e + 1].kind = "index" /\ Line'[e + 1].height = Line[e].height + 1
    BY <1>5, RaiseFields DEF e
  <2>2. Top' = e + 1
    BY <2>1 DEF Top
  <2> QED BY <2>1, <2>2, <1>1, <1>2 DEF LevelsOK
<1>6. CASE CloseTree
  <2>1. /\ Open /\ ~Open' /\ End' = e /\ \A x \in 1 .. e : Line'[x] = Line[x]
        /\ header'.root = e - 1 /\ header'.depth = Line[e].height
    BY <1>6, CloseShape DEF e
  <2>2. Top' = e
    BY <2>1, <1>1 DEF Top
  <2> QED BY <2>1, <2>2, <1>1, <1>2 DEF LevelsOK
<1>7. CASE AddMap
  <2> DEFINE m == MapNode
  <2>1. /\ ~Open /\ ~Open' /\ m \in {1, e} /\ header'.root = header.root /\ header'.depth = header.depth
        /\ \A x \in 1 .. e : x # m => Line'[x] = Line[x]
        /\ Line'[m].height = Line[m].height /\ Line'[m].kind = Line[m].kind
        /\ \/ End' = e + 1 /\ Line'[e + 1].height = 0 /\ Line'[e + 1].kind = "map"
           \/ End' = e
    BY <1>7, MapFields DEF e
  <2> HIDE DEF m
  <2>2. Top' = Top
    BY <2>1 DEF Top
  <2>3. \A x \in 1 .. e : Line'[x].height = Line[x].height /\ Line'[x].kind = Line[x].kind
    BY <2>1
  <2> QED BY <2>1, <2>2, <2>3, <1>1, <1>2 DEF LevelsOK
<1> QED BY <1>3, <1>4, <1>5, <1>6, <1>7, TreeCases

\* A node that is found full is not empty.
LEMMA FullIsFilled ==
    ASSUME TreeTypeOK, SizesOK, FullNode
    PROVE  Line[End].recs # <<>>
<1>1. /\ Open /\ rest # <<>> /\ Head(rest) \in Rec /\ ~FitsIn(Line[End], Head(rest))
  BY FullFields
<1>2. Roomy(Head(rest), nodeSize) /\ RecordSize(Head(rest)) \in Nat
  BY <1>1, RestFields, RecFields DEF SizesOK
<1>3. Line[End].recs = <<>> => Line[End].size = DescSize + OffSize
  BY <1>1 DEF SizesOK
<1>4. nodeSize \in Nat /\ {DescSize, OffSize} \subseteq Nat
  BY TreeAssumption DEF TreeTypeOK
<1> QED BY <1>1, <1>2, <1>3, <1>4 DEF Roomy, FitsIn

LEMMA FilledStep ==
    ASSUME TreeTypeOK, SizesOK, LevelsOK, FilledOK, TreeNext
    PROVE  FilledOK'
<1> DEFINE e == End
<1>1. e \in Nat \ {0} /\ Top \in 1 .. e /\ (Open => Top = e) /\ indices \in Seq(Rec)
  BY LineOfNodes DEF LevelsOK, Top, TreeTypeOK
<1>2. /\ \A x \in 2 .. Top : Line[x].recs # <<>> \/ (Open /\ x = Top)
      /\ Open /\ Line[Top].recs = <<>> => rest # <<>>
      /\ Open => (Line[Top].recs = <<>> <=> indices = <<>>)
  BY DEF FilledOK
<1>3. \A x \in 1 .. e : Line[x].recs \in Seq(Rec)
  BY LineOfNodes, NodeFields
<1> HIDE DEF e
<1>4. CASE FillNode
  <2>1. /\ Open /\ Open' /\ End' = e /\ e \in Nat \ {0, 1} /\ Head(rest) \in Rec
        /\ \A x \in 1 .. e - 1 : Line'[x] = Line[x]
        /\ Line'[e].recs = Append(Line[e].recs, Head(rest))
        /\ indices' = IF Line[e].recs = <<>> THEN Append(indices, Pointer(Head(rest), e - 1))
                      ELSE indices
    BY <1>4, FillFields DEF e
  <2>2. Top' = e
    BY <2>1 DEF Top
  <2>3. Line'[e].recs # <<>>
    <3>1. Line[e].recs \in Seq(Rec)
      BY <2>1, <1>3
    <3> QED BY <3>1, <2>1, AppendProperties
  <2>4. indices' # <<>>
    <3>1. Pointer(Head(rest), e - 1) \in Rec
      BY <2>1, PointerIsRec
    <3>2. Append(indices, Pointer(Head(rest), e - 1)) # <<>>
      BY <3>1, <1>1, AppendProperties
    <3> QED BY <3>2, <2>1, <1>1, <1>2
  <2> QED BY <2>1, <2>2, <2>3, <2>4, <1>1, <1>2 DEF FilledOK
<1>5. CASE FullNode
  <2>1. /\ Open /\ Open' /\ End' = e + 1 /\ e \in Nat \ {0, 1} /\ Head(rest) \in Rec
        /\ \A x \in 1 .. e - 1 : Line'[x] = Line[x]
        /\ Line'[e].recs = Line[e].recs /\ Line'[e + 1].recs = <<Head(rest)>>
        /\ indices' = Append(indices, Pointer(Head(rest), e))
    BY <1>5, FullFields DEF e
  <2>2. Top' = e + 1
    BY <2>1 DEF Top
  <2>3. Line[e].recs # <<>> /\ Line'[e + 1].recs # <<>>
    BY <2>1, <1>5, FullIsFilled DEF e
  <2>4. indices' # <<>>
    <3>1. Pointer(Head(rest), e) \in Rec
      BY <2>1, PointerIsRec
    <3> QED BY <3>1, <2>1, <1>1, AppendProperties
  <2>5. \A x \in 2 .. e : Line'[x].recs # <<>>
    <3>1. \A x \in 2 .. e - 1 : Line[x].recs # <<>>
      BY <2>1, <1>1, <1>2
    <3> QED BY <3>1, <2>1, <2>3
  <2>6. \A x \in 2 .. e + 1 : Line'[x].recs # <<>>
    BY <2>3, <2>5, <1>1
  <2>7. e \in Nat /\ Line'[Top'].recs # <<>>
    BY <1>1, <2>2, <2>3
  <2> QED BY <2>2, <2>4, <2>6, <2>7 DEF FilledOK
<1>6. CASE RaiseLevel
  <2>1. /\ Open /\ Open' /\ End' = e + 1 /\ e \in Nat \ {0, 1}
        /\ \A x \in 1 .. e : Line'[x] = Line[x]
        /\ Line'[e + 1].recs = <<>>
        /\ rest' = indices /\ indices' = <<>> /\ Len(indices) > 1
    BY <1>6, RaiseFields DEF e
  <2>2. Top' = e + 1
    BY <2>1 DEF Top
  <2>3. indices # <<>>
    BY <2>1
  <2> QED BY <2>1, <2>2, <2>3, <1>1, <1>2 DEF FilledOK
<1>7. CASE CloseTree
  <2>1. /\ Open /\ ~Open' /\ End' = e /\ \A x \in 1 .. e : Line'[x] = Line[x]
        /\ rest = <<>> /\ header'.root = e - 1
    BY <1>7, CloseShape DEF e
  <2>2. Top' = e
    BY <2>1, <1>1 DEF Top
  <2> QED BY <2>1, <2>2, <1>1, <1>2 DEF FilledOK
<1>8. CASE AddMap
  <2> DEFINE m == MapNode
  <2>1. /\ ~Open /\ ~Open' /\ m \in {1, e} /\ header'.root = header.root
        /\ \A x \in 1 .. e : x # m => Line'[x] = Line[x]
        /\ Line'[m].recs = Line[m].recs
    BY <1>8, MapFields DEF e
  <2> HIDE DEF m
  <2>2. Top' = Top
    BY <2>1 DEF Top
  <2>3. \A x \in 1 .. e : Line'[x].recs = Line[x].recs
    BY <2>1
  <2> QED BY <2>1, <2>2, <2>3, <1>1, <1>2 DEF FilledOK
<1> QED BY <1>4, <1>5, <1>6, <1>7, <1>8, TreeCases

\* A leaf that is not the last of the line, neither before nor after.
LEMMA LeafStays ==
    ASSUME NEW x, NEW p, LeafHolds(x, p), data' = data, x # Top, x # Top',
           Line'[x].recs = Line[x].recs, Line'[x + 1].height = Line[x + 1].height,
           Line'[x + 1].height = 1 /\ Line'[x + 1].recs # <<>> =>
              Line[x + 1].recs # <<>> /\ Line'[x + 1].recs[1] = Line[x + 1].recs[1]
    PROVE  LeafHolds(x, p)'
BY DEF LeafHolds

LEMMA LeafFills ==
    ASSUME TreeTypeOK, LevelsOK, FilledOK, IndicesOK, FillNode,
           NEW x \in Nat, x \in 2 .. End, Line[x].height = 1, NEW p \in Nat, LeafHolds(x, p)
    PROVE  LeafHolds(x, p)'
<1> DEFINE e == End
<1>1. /\ Open /\ Open' /\ End' = e /\ e \in Nat \ {0, 1}
      /\ rest # <<>> /\ Head(rest) \in Rec /\ rest' = Tail(rest)
      /\ \A y \in 1 .. e - 1 : Line'[y] = Line[y]
      /\ Line'[e].recs = Append(Line[e].recs, Head(rest))
      /\ Line'[e].height = Line[e].height
  BY FillFields
<1>2. Top = e /\ Top' = e /\ data' = data
  BY <1>1, DataStays, TreeCases DEF Top
<1>3. Line[e].recs = <<>> => Line[e - 1].height # Line[e].height
  BY <1>1, <1>2 DEF FilledOK, IndicesOK
<1>4. Line[e].recs \in Seq(Rec) /\ data \in Seq(Rec) /\ rest \in Seq(Rec)
  BY <1>1, LineOfNodes, NodeFields DEF TreeTypeOK
<1>5. /\ Len(Line'[e].recs) = Len(Line[e].recs) + 1
      /\ Line'[e].recs[Len(Line[e].recs) + 1] = rest[1]
      /\ \A j \in DOMAIN Line[e].recs : Line'[e].recs[j] = Line[e].recs[j]
      /\ DOMAIN Line'[e].recs = 1 .. Len(Line[e].recs) + 1
  BY <1>1, <1>4, AppendProperties, SMTT(30)
<1>8. x \in 2 .. e /\ Len(data) \in Nat
  BY <1>4
<1> HIDE DEF e
<1>12. e \in Nat /\ \A y \in 1 .. e - 1 : Line'[y] = Line[y]
  BY <1>1
<1>9. CASE x < e - 1
  <2>1. Line'[x] = Line[x] /\ Line'[x + 1] = Line[x + 1] /\ x < e /\ x # e
    BY <1>12, <1>8, <1>9
  <2> QED BY <2>1, <1>2, LeafStays
<1>10. CASE x = e - 1
  <2>1. Line'[x] = Line[x] /\ x + 1 = e /\ x < e /\ x # e
    BY <1>1, <1>8, <1>10
  <2>2. Line'[e].height = 1 => Line[e].recs # <<>>
    BY <1>1, <1>3, <1>10
  <2>3. Line[e].recs # <<>> => Line'[e].recs[1] = Line[e].recs[1]
    BY <1>4, <1>5
  <2> QED BY <2>1, <2>2, <2>3, <1>1, <1>2, LeafStays
<1>11. CASE x = e
  <2> DEFINE l == Len(Line[e].recs)
             q == p + l
  <2>0. Len(Line'[e].recs) = l + 1 /\ l \in Nat /\ DOMAIN Line[e].recs = 1 .. l
    BY <1>4, <1>5
  <2>1. /\ q <= Len(data)
        /\ \A j \in 1 .. l : Line[e].recs[j] = data[p + j]
        /\ Len(rest) = Len(data) - q
        /\ \A j \in DOMAIN rest : rest[j] = data[q + j]
    BY <2>0, <1>1, <1>2, <1>11 DEF LeafHolds
  <2>2. /\ Len(rest) \in Nat \ {0} /\ 1 \in DOMAIN rest
        /\ Len(rest') = Len(rest) - 1 /\ DOMAIN rest' = 1 .. Len(rest) - 1
        /\ \A i \in 1 .. Len(rest) - 1 : i + 1 \in DOMAIN rest /\ rest'[i] = rest[i + 1]
    BY <1>1, RestFields
  <2>7. \A j \in 1 .. l + 1 : Line'[e].recs[j] = IF j = l + 1 THEN rest[1] ELSE Line[e].recs[j]
    BY <2>0, <1>5
  <2> HIDE DEF l
  <2>3. q \in Nat /\ q = p + l
    BY <2>0
  <2> HIDE DEF q
  <2>5. q + 1 <= Len(data) /\ Len(rest') = Len(data) - (q + 1)
    BY <2>1, <2>2, <2>3, <1>8
  <2>6. \A j \in DOMAIN rest' : rest'[j] = data[q + 1 + j]
    <3> SUFFICES ASSUME NEW j \in 1 .. Len(rest) - 1 PROVE rest'[j] = data[q + 1 + j]
      BY <2>2
    <3>1. rest'[j] = rest[j + 1] /\ j + 1 \in DOMAIN rest
      BY <2>2
    <3>2. rest[j + 1] = data[q + (j + 1)]
      BY <3>1, <2>1
    <3>3. q + (j + 1) = q + 1 + j
      BY <2>2, <2>3
    <3> QED BY <3>1, <3>2, <3>3
  <2>8. \A j \in 1 .. l + 1 : Line'[e].recs[j] = data[p + j]
    BY <2>0, <2>1, <2>2, <2>3, <2>7, SMTT(30)
  <2>9. p + Len(Line'[e].recs) = q + 1 /\ DOMAIN Line'[e].recs = 1 .. l + 1
    <3>1. Len(Line'[e].recs) = l + 1
      BY <2>0
    <3>2. DOMAIN Line'[e].recs = 1 .. l + 1
      BY <1>5 DEF l
    <3>3. l \in Nat /\ p + (l + 1) = q + 1
      BY <2>0, <2>3
    <3> QED BY <3>1, <3>2, <3>3
  <2>10. Len(rest') = Len(data') - (p + Len(Line'[e].recs))
    BY <2>5, <2>9, <1>2
  <2>11. \A j \in DOMAIN rest' : rest'[j] = data'[p + Len(Line'[e].recs) + j]
    BY <2>6, <2>9, <1>2
  <2>12. p + Len(Line'[e].recs) <= Len(data')
    BY <2>5, <2>9, <1>2
  <2>13. \A j \in DOMAIN Line'[e].recs : Line'[e].recs[j] = data'[p + j]
    BY <2>8, <2>9, <1>2
  <2> QED BY <2>10, <2>11, <2>12, <2>13, <1>1, <1>2, <1>11 DEF LeafHolds
<1> QED BY <1>12, <1>8, <1>9, <1>10, <1>11

LEMMA NextIndex == \A a, b \in Int : a + (b + 1) = a + 1 + b
OBVIOUS

\* The rest of the map, as the open leaf leaves it.
LEMMA RestAtLeaf ==
    ASSUME TreeTypeOK, Open, rest # <<>>, NEW p \in Nat, LeafHolds(End, p),
           NEW u, u = p + Len(Line[End].recs)
    PROVE  /\ u \in Nat /\ u + 1 <= Len(data) /\ rest[1] = data[u + 1]
           /\ Len(Tail(rest)) = Len(data) - (u + 1)
           /\ \A j \in DOMAIN Tail(rest) : Tail(rest)[j] = data[u + 1 + j]
<1>0. End = Top
  BY DEF Top
<1>1. Line[End].recs \in Seq(Rec) /\ data \in Seq(Rec) /\ rest \in Seq(Rec)
  BY LineOfNodes, NodeFields DEF TreeTypeOK
<1>2. /\ Len(rest) = Len(data) - u
      /\ \A j \in DOMAIN rest : rest[j] = data[u + j]
  BY <1>0 DEF LeafHolds
<1>3. /\ Len(rest) \in Nat \ {0} /\ 1 \in DOMAIN rest
      /\ Len(Tail(rest)) = Len(rest) - 1 /\ DOMAIN Tail(rest) = 1 .. Len(rest) - 1
      /\ \A i \in 1 .. Len(rest) - 1 : i + 1 \in DOMAIN rest /\ Tail(rest)[i] = rest[i + 1]
  BY RestFields
<1>4. u \in Nat /\ Len(data) \in Nat
  <2>1. Len(Line[End].recs) \in Nat /\ Len(data) \in Nat
    BY <1>1
  <2> QED BY <2>1
<1>5. \A j \in DOMAIN Tail(rest) : Tail(rest)[j] = data[u + 1 + j]
  <2> SUFFICES ASSUME NEW j \in 1 .. Len(rest) - 1 PROVE Tail(rest)[j] = data[u + 1 + j]
    BY <1>3
  <2>1. Tail(rest)[j] = rest[j + 1] /\ j + 1 \in DOMAIN rest
    BY <1>3
  <2>2. rest[j + 1] = data[u + (j + 1)]
    BY <2>1, <1>2
  <2>3. u + (j + 1) = u + 1 + j
    <3>1. j \in Int /\ u \in Int
      BY <1>3, <1>4
    <3> QED BY <3>1, NextIndex
  <2> QED BY <2>1, <2>2, <2>3
<1>6. u + 1 <= Len(data) /\ Len(Tail(rest)) = Len(data) - (u + 1)
  BY <1>2, <1>3, <1>4
<1> QED BY <1>2, <1>3, <1>4, <1>5, <1>6

LEMMA LeafFull ==
    ASSUME TreeTypeOK, SizesOK, FullNode,
           NEW x \in Nat, x \in 2 .. End, Line[x].height = 1, NEW p \in Nat, LeafHolds(x, p)
    PROVE  LeafHolds(x, p)'
<1> DEFINE e == End
<1>1. /\ Open /\ Open' /\ End' = e + 1 /\ e \in Nat \ {0, 1}
      /\ rest # <<>> /\ Head(rest) \in Rec /\ rest' = Tail(rest)
      /\ \A y \in 1 .. e - 1 : Line'[y] = Line[y]
      /\ Line'[e].recs = Line[e].recs /\ Line'[e].height = Line[e].height
      /\ Line'[e + 1].recs = <<Head(rest)>> /\ Line'[e + 1].height = Line[e].height
  BY FullFields
<1>2. Top = e /\ Top' = e + 1 /\ data' = data /\ x \in 2 .. e
  BY <1>1, DataStays, TreeCases DEF Top
<1>3. Line[e].recs # <<>>
  BY FullIsFilled
<1>4. rest[1] = Head(rest)
  BY <1>1, RestFields
<1>5. CASE x = e
  <2> DEFINE q == p + Len(Line[e].recs)
  <2>1. q + 1 <= Len(data) /\ rest[1] = data[q + 1] /\ q \in Nat /\ Len(data) \in Nat
    <3>1. Len(data) \in Nat
      BY DEF TreeTypeOK
    <3> QED BY <3>1, <1>1, <1>2, <1>5, RestAtLeaf
  <2>2. /\ q <= Len(data)
        /\ \A j \in DOMAIN Line[e].recs : Line[e].recs[j] = data[p + j]
    BY <1>5 DEF LeafHolds
  <2>3. Line'[e + 1].recs[1] = data[q + 1] /\ q < Len(data)
    BY <2>1, <1>1, <1>4
  <2>4. e # Top' /\ Line'[e + 1].height = 1
    BY <1>1, <1>2, <1>5
  <2>5. p + Len(Line'[e].recs) = q
    BY <1>1
  <2> HIDE DEF e, q
  <2> QED BY <2>2, <2>3, <2>4, <2>5, <1>1, <1>2, <1>5 DEF LeafHolds
<1>6. CASE x < e
  <2> HIDE DEF e
  <2>0. e \in Nat
    BY <1>1
  <2>1. Line'[x] = Line[x] /\ x # e /\ x # e + 1 /\ x + 1 \in 1 .. e
    BY <1>1, <1>2, <1>6
  <2>2. Line'[x + 1].height = Line[x + 1].height /\ Line'[x + 1].recs = Line[x + 1].recs
    <3>1. CASE x + 1 = e
      BY <3>1, <1>1
    <3>2. CASE x + 1 # e
      <4>1. x + 1 \in 1 .. e - 1
        BY <3>2, <2>0, <2>1
      <4> QED BY <4>1, <1>1
    <3> QED BY <3>1, <3>2
  <2> QED BY <2>1, <2>2, <1>2, LeafStays
<1>7. x < e \/ x = e
  BY <1>1, <1>2
<1> QED BY <1>5, <1>6, <1>7

LEMMA LeafOpens ==
    ASSUME TreeTypeOK, SizesOK, FullNode, NEW e, e = End,
           NEW p \in Nat, LeafHolds(e, p), NEW q, q = p + Len(Line[e].recs)
    PROVE  q \in 0 .. Len(data) /\ LeafHolds(e + 1, q)'
<1>1. /\ Open /\ Open' /\ End' = e + 1 /\ e \in Nat \ {0, 1}
      /\ rest # <<>> /\ Head(rest) \in Rec /\ rest' = Tail(rest)
      /\ Line'[e + 1].recs = <<Head(rest)>>
  BY FullFields
<1>2. Top = e /\ Top' = e + 1 /\ data' = data
  BY <1>1, DataStays, TreeCases DEF Top
<1>3. /\ q \in Nat /\ q + 1 <= Len(data) /\ rest[1] = data[q + 1]
      /\ Len(rest') = Len(data) - (q + 1)
      /\ \A j \in DOMAIN rest' : rest'[j] = data[q + 1 + j]
  <2>2. Open /\ rest # <<>> /\ rest' = Tail(rest)
    BY <1>1
  <2> DEFINE r == p + Len(Line[End].recs)
  <2>4. LeafHolds(End, p) /\ q = r
    OBVIOUS
  <2>1. /\ r \in Nat /\ r + 1 <= Len(data) /\ rest[1] = data[r + 1]
        /\ Len(Tail(rest)) = Len(data) - (r + 1)
        /\ \A j \in DOMAIN Tail(rest) : Tail(rest)[j] = data[r + 1 + j]
    BY <2>2, <2>4, RestAtLeaf
  <2> HIDE DEF r
  <2> QED BY <2>1, <2>2, <2>4
<1>4. rest[1] = Head(rest) /\ Len(data) \in Nat
  BY <1>1, RestFields DEF TreeTypeOK
<1>5. /\ Len(Line'[e + 1].recs) = 1 /\ DOMAIN Line'[e + 1].recs = {1}
      /\ Line'[e + 1].recs[1] = data[q + 1]
  BY <1>1, <1>3, <1>4
<1>6. q + Len(Line'[e + 1].recs) = q + 1
  BY <1>5
<1>7. /\ q + Len(Line'[e + 1].recs) <= Len(data')
      /\ \A j \in DOMAIN Line'[e + 1].recs : Line'[e + 1].recs[j] = data'[q + j]
      /\ Len(rest') = Len(data') - (q + Len(Line'[e + 1].recs))
      /\ \A j \in DOMAIN rest' : rest'[j] = data'[q + Len(Line'[e + 1].recs) + j]
  BY <1>2, <1>3, <1>5, <1>6
<1>8. q \in 0 .. Len(data)
  BY <1>3, <1>4
<1> QED BY <1>1, <1>2, <1>7, <1>8 DEF LeafHolds

LEMMA LeafRaised ==
    ASSUME TreeTypeOK, RaiseLevel, LevelsOK,
           NEW x \in Nat, x \in 2 .. End, Line[x].height = 1, NEW p \in Nat, LeafHolds(x, p)
    PROVE  LeafHolds(x, p)'
<1> DEFINE e == End
<1>1. /\ Open /\ Open' /\ End' = e + 1 /\ e \in Nat \ {0, 1} /\ rest = <<>>
      /\ \A y \in 1 .. e : Line'[y] = Line[y]
      /\ Line'[e + 1].recs = <<>> /\ Line'[e + 1].height = Line[e].height + 1
  BY RaiseFields
<1>2. Top = e /\ Top' = e + 1 /\ data' = data /\ x \in 2 .. e
  BY <1>1, DataStays, TreeCases DEF Top
<1> HIDE DEF e
<1>3. Line'[x] = Line[x] /\ x # e + 1
  BY <1>1, <1>2
<1>4. CASE x = e
  <2>1. Line'[e + 1].height # 1
    BY <1>1, <1>4
  <2>2. Len(rest) = Len(data) - (p + Len(Line[e].recs)) /\ Len(rest) = 0
    BY <1>1, <1>2, <1>4 DEF LeafHolds
  <2>3. p + Len(Line[e].recs) = Len(data)
    <3>1. Line[e].recs \in Seq(Rec) /\ data \in Seq(Rec)
      BY <1>1, <1>2, LineOfNodes, NodeFields DEF TreeTypeOK, e
    <3>2. Len(Line[e].recs) \in Nat /\ Len(data) \in Nat
      BY <3>1
    <3> QED BY <2>2, <3>2
  <2> QED BY <2>1, <2>3, <1>1, <1>2, <1>3, <1>4 DEF LeafHolds
<1>5. CASE x # e
  <2>1. Line'[x + 1] = Line[x + 1]
    BY <1>1, <1>2, <1>5
  <2> QED BY <2>1, <1>2, <1>3, <1>5, LeafStays
<1> QED BY <1>4, <1>5

LEMMA LeafClosed ==
    ASSUME TreeTypeOK, CloseTree, LevelsOK,
           NEW x \in Nat, x \in 2 .. End, Line[x].height = 1, NEW p \in Nat, LeafHolds(x, p)
    PROVE  LeafHolds(x, p)'
<1> DEFINE e == End
<1>1. /\ Open /\ ~Open' /\ End' = e /\ rest = <<>>
      /\ \A y \in 1 .. e : Line'[y] = Line[y]
      /\ header'.root = e - 1 /\ e \in Nat \ {0}
  BY CloseShape, LineOfNodes
<1>2. Top = e /\ Top' = e /\ data' = data /\ x \in 2 .. e
  BY <1>1, DataStays, TreeCases DEF Top
<1> HIDE DEF e
<1>3. Line'[x] = Line[x]
  BY <1>1, <1>2
<1>4. CASE x = e
  <2>2. Len(rest) = Len(data) - (p + Len(Line[e].recs)) /\ Len(rest) = 0
    BY <1>1, <1>2, <1>4 DEF LeafHolds
  <2>3. p + Len(Line[e].recs) = Len(data)
    <3>1. Line[e].recs \in Seq(Rec) /\ data \in Seq(Rec)
      BY <1>1, <1>2, LineOfNodes, NodeFields DEF TreeTypeOK, e
    <3>2. Len(Line[e].recs) \in Nat /\ Len(data) \in Nat
      BY <3>1
    <3> QED BY <2>2, <3>2
  <2> QED BY <2>3, <1>1, <1>2, <1>3, <1>4 DEF LeafHolds
<1>5. CASE x # e
  <2>1. Line'[x + 1] = Line[x + 1]
    BY <1>1, <1>2, <1>5
  <2> QED BY <2>1, <1>2, <1>3, <1>5, LeafStays
<1> QED BY <1>4, <1>5

LEMMA LeafMapped ==
    ASSUME TreeTypeOK, SizesOK, AddMap, LevelsOK,
           NEW x \in Nat, x \in 2 .. Top, Line[x].height = 1, NEW p \in Nat, LeafHolds(x, p)
    PROVE  LeafHolds(x, p)'
<1> DEFINE e == End
           m == MapNode
<1>1. /\ ~Open /\ ~Open' /\ m \in {1, e} /\ header'.root = header.root /\ e \in Nat \ {0}
      /\ \A y \in 1 .. e : y # m => Line'[y] = Line[y]
      /\ Line'[m].recs = Line[m].recs /\ Line'[m].height = Line[m].height
  BY MapFields
<1>2. Top' = Top /\ data' = data /\ Top \in 1 .. e
  BY <1>1, DataStays, TreeCases DEF Top, LevelsOK
<1> HIDE DEF e, m
<1>3. \A y \in 1 .. e : Line'[y].recs = Line[y].recs /\ Line'[y].height = Line[y].height
  BY <1>1
<1>4. x \in 1 .. e /\ (x # Top => x + 1 \in 1 .. e)
  BY <1>1, <1>2
<1>5. CASE x = Top
  BY <1>1, <1>2, <1>3, <1>4, <1>5 DEF LeafHolds
<1>6. CASE x # Top
  BY <1>2, <1>3, <1>4, <1>6, LeafStays
<1> QED BY <1>5, <1>6

LEMMA LeafIsAt ==
    ASSUME NEW x \in 2 .. Top', NEW p \in 0 .. Len(data'), LeafHolds(x, p)'
    PROVE  x \in LeafAt'
BY Zenon DEF LeafAt, LeafHolds

LEMMA LeafWas ==
    ASSUME LeavesOK, TreeTypeOK, NEW x \in 2 .. Top, Line[x].height = 1
    PROVE  \E p \in 0 .. Len(data) : p \in Nat /\ LeafHolds(x, p)
<1>1. Len(data) \in Nat
  BY DEF TreeTypeOK
<1>2. 0 .. Len(data) \subseteq Nat
  BY <1>1
<1> QED BY <1>2, Zenon DEF LeavesOK, LeafAt

LEMMA LeavesStep ==
    ASSUME TreeTypeOK, SizesOK, LevelsOK, FilledOK, LeavesOK, IndicesOK, TreeNext
    PROVE  LeavesOK'
<1> DEFINE e == End
<1>1. e \in Nat \ {0} /\ Top \in 1 .. e /\ (Open => Top = e)
  BY LineOfNodes DEF LevelsOK, Top
<1>2. UNCHANGED data
  BY DataStays
<1>3. SUFFICES ASSUME NEW x \in 2 .. Top', Line'[x].height = 1
               PROVE  x \in LeafAt'
  BY DEF LeavesOK
<1>4. x \in Nat
  OBVIOUS
<1> HIDE DEF e
<1>5. CASE FillNode
  <2>1. /\ Open /\ Open' /\ End' = e /\ e \in Nat \ {0, 1}
        /\ \A y \in 1 .. e - 1 : Line'[y] = Line[y]
        /\ Line'[e].height = Line[e].height
    BY <1>5, FillFields DEF e
  <2>2. Top' = e
    BY <2>1 DEF Top
  <2>3. Line[x].height = 1
    BY <2>1, <2>2, <1>3, <1>4
  <2>4. PICK p \in 0 .. Len(data) : p \in Nat /\ LeafHolds(x, p)
    BY <2>1, <2>2, <2>3, <1>1, LeafWas
  <2>5. LeafHolds(x, p)'
    BY <2>1, <2>2, <2>3, <2>4, <1>4, <1>5, LeafFills DEF e
  <2> QED BY <2>5, <1>2, LeafIsAt
<1>6. CASE FullNode
  <2>1. /\ Open /\ Open' /\ End' = e + 1 /\ e \in Nat \ {0, 1}
        /\ \A y \in 1 .. e - 1 : Line'[y] = Line[y]
        /\ Line'[e].height = Line[e].height /\ Line'[e + 1].height = Line[e].height
    BY <1>6, FullFields DEF e
  <2>2. Top' = e + 1
    BY <2>1 DEF Top
  <2>3. CASE x <= e
    <3>1. Line[x].height = 1 /\ x \in 2 .. e
      BY <2>1, <2>2, <2>3, <1>3, <1>4
    <3>2. PICK p \in 0 .. Len(data) : p \in Nat /\ LeafHolds(x, p)
      BY <2>1, <3>1, <1>1, LeafWas
    <3>3. LeafHolds(x, p)'
      BY <3>1, <3>2, <1>4, <1>6, LeafFull DEF e
    <3> QED BY <3>3, <1>2, LeafIsAt
  <2>4. CASE x = e + 1
    <3>1. Line[e].height = 1 /\ e \in 2 .. e
      BY <2>1, <2>4, <1>3
    <3>2. PICK p \in 0 .. Len(data) : p \in Nat /\ LeafHolds(e, p)
      BY <2>1, <3>1, <1>1, LeafWas
    <3>4. PICK q : q = p + Len(Line[e].recs)
      OBVIOUS
    <3>5. PICK f : f = e
      OBVIOUS
    <3>6. f = End /\ LeafHolds(f, p) /\ q = p + Len(Line[f].recs) /\ p \in Nat
      BY <3>2, <3>4, <3>5 DEF e
    <3>3. q \in 0 .. Len(data) /\ LeafHolds(f + 1, q)'
      BY <3>6, <1>6, LeafOpens
    <3>7. f + 1 = x
      BY <2>4, <3>5
    <3> QED BY <3>3, <3>7, <1>2, LeafIsAt
  <2> QED BY <2>1, <2>2, <2>3, <2>4, <1>4
<1>7. CASE RaiseLevel
  <2>1. /\ Open /\ Open' /\ End' = e + 1 /\ e \in Nat \ {0, 1}
        /\ \A y \in 1 .. e : Line'[y] = Line[y]
        /\ Line'[e + 1].height = Line[e].height + 1
    BY <1>7, RaiseFields DEF e
  <2>2. Top' = e + 1
    BY <2>1 DEF Top
  <2>3. Line[x].height = 1 /\ x \in 2 .. e
    <3>1. Line[e].height # 0 /\ Line[e].height \in Nat
      BY <2>1, <1>1, LineOfNodes, NodeFields DEF e, LevelsOK
    <3> QED BY <3>1, <2>1, <2>2, <1>3, <1>4
  <2>4. PICK p \in 0 .. Len(data) : p \in Nat /\ LeafHolds(x, p)
    BY <2>1, <2>3, <1>1, LeafWas
  <2>5. LeafHolds(x, p)'
    BY <2>3, <2>4, <1>4, <1>7, LeafRaised DEF e
  <2> QED BY <2>5, <1>2, LeafIsAt
<1>8. CASE CloseTree
  <2>1. /\ Open /\ ~Open' /\ End' = e /\ header'.root = e - 1
        /\ \A y \in 1 .. e : Line'[y] = Line[y]
    BY <1>8, CloseShape DEF e
  <2>2. Top' = e
    BY <2>1, <1>1 DEF Top
  <2>3. Line[x].height = 1 /\ x \in 2 .. e
    BY <2>1, <2>2, <1>3, <1>4
  <2>4. PICK p \in 0 .. Len(data) : p \in Nat /\ LeafHolds(x, p)
    BY <2>1, <2>3, <1>1, LeafWas
  <2>5. LeafHolds(x, p)'
    BY <2>3, <2>4, <1>4, <1>8, LeafClosed DEF e
  <2> QED BY <2>5, <1>2, LeafIsAt
<1>9. CASE AddMap
  <2> DEFINE m == MapNode
  <2>1. /\ ~Open /\ ~Open' /\ m \in {1, e} /\ header'.root = header.root
        /\ \A y \in 1 .. e : y # m => Line'[y] = Line[y]
        /\ Line'[m].height = Line[m].height
    BY <1>9, MapFields DEF e
  <2> HIDE DEF m
  <2>2. Top' = Top
    BY <2>1 DEF Top
  <2>3. Line[x].height = 1 /\ x \in 2 .. Top
    BY <2>1, <2>2, <1>1, <1>3, <1>4
  <2>4. PICK p \in 0 .. Len(data) : p \in Nat /\ LeafHolds(x, p)
    BY <2>3, LeafWas
  <2>5. LeafHolds(x, p)'
    BY <2>3, <2>4, <1>4, <1>9, LeafMapped
  <2> QED BY <2>5, <1>2, LeafIsAt
<1> QED BY <1>5, <1>6, <1>7, <1>8, <1>9, TreeCases
-----------------------------------------------------------------------------
(***************************************************************************)
(* Pointers stay right while what they point to does, and one after the    *)
(* other they move from the rest of the level below into the nodes.        *)
(***************************************************************************)
SameFirst(new, line, y) == new[y].height = line[y].height /\ new[y].recs[1] = line[y].recs[1]

LEMMA PointsStay ==
    ASSUME NEW line, NEW new, NEW recs, NEW h, NEW x \in Nat, NEW z \in Nat, x <= z,
           \A y \in 1 .. x - 1 : SameFirst(new, line, y), Points(line, recs, h, x)
    PROVE  Points(new, recs, h, z)
<1> SUFFICES ASSUME NEW j \in DOMAIN recs
             PROVE  /\ recs[j].value \in 1 .. z - 2
                    /\ recs[j].value = recs[1].value + j - 1
                    /\ new[recs[j].value + 1].height = h
                    /\ recs[j].key = new[recs[j].value + 1].recs[1].key
  BY DEF Points
<1>1. /\ recs[j].value \in 1 .. x - 2
      /\ recs[j].value = recs[1].value + j - 1
      /\ line[recs[j].value + 1].height = h
      /\ recs[j].key = line[recs[j].value + 1].recs[1].key
  BY DEF Points
<1> DEFINE y == recs[j].value + 1
<1>2. y \in 1 .. x - 1 /\ recs[j].value \in 1 .. z - 2
  BY <1>1
<1>3. SameFirst(new, line, y)
  BY <1>2
<1> QED BY <1>1, <1>2, <1>3 DEF SameFirst

LEMMA PointsToLastStay ==
    ASSUME NEW line, NEW new, NEW recs \in Seq(Rec), NEW h, NEW x \in Nat, Points(line, recs, h, x),
           \A y \in 1 .. x : new[y].height = line[y].height, PointsToLast(line, recs, h)
    PROVE  PointsToLast(new, recs, h)
<1> SUFFICES ASSUME recs # <<>> PROVE new[recs[Len(recs)].value + 2].height = h + 1
  BY DEF PointsToLast
<1>1. Len(recs) \in DOMAIN recs
  OBVIOUS
<1>2. recs[Len(recs)].value \in 1 .. x - 2
  BY <1>1 DEF Points
<1>3. recs[Len(recs)].value + 2 \in 1 .. x
  BY <1>2
<1> QED BY <1>3 DEF PointsToLast

\* One more pointer, to the node after.
LEMMA PointsAppend ==
    ASSUME NEW line, NEW recs \in Seq(Rec), NEW rec \in Rec, NEW h, NEW x \in Nat,
           Points(line, recs, h, x),
           rec.value \in 1 .. x - 2, line[rec.value + 1].height = h,
           rec.key = line[rec.value + 1].recs[1].key,
           recs # <<>> => rec.value = recs[Len(recs)].value + 1
    PROVE  Points(line, Append(recs, rec), h, x)
<1> DEFINE l == Len(recs)
           all == Append(recs, rec)
<1>1. /\ l \in Nat /\ DOMAIN recs = 1 .. l /\ DOMAIN all = 1 .. l + 1
      /\ all[l + 1] = rec /\ \A j \in 1 .. l : all[j] = recs[j]
  BY AppendProperties
<1>2. recs # <<>> <=> l # 0
  OBVIOUS
<1>3. \A j \in 1 .. l :
        /\ recs[j].value \in 1 .. x - 2
        /\ recs[j].value = recs[1].value + j - 1
        /\ line[recs[j].value + 1].height = h
        /\ recs[j].key = line[recs[j].value + 1].recs[1].key
  BY <1>1 DEF Points
<1>4. l # 0 => rec.value = recs[l].value + 1
  BY <1>2
<1> HIDE DEF l, all
<1>5. \A j \in 1 .. l + 1 :
        /\ all[j].value \in 1 .. x - 2
        /\ all[j].value = all[1].value + j - 1
        /\ line[all[j].value + 1].height = h
        /\ all[j].key = line[all[j].value + 1].recs[1].key
  <2>1. CASE l = 0
    BY <2>1, <1>1
  <2>2. CASE l # 0
    <3>1. 1 \in 1 .. l /\ l \in 1 .. l /\ recs[1].value \in Nat
      BY <2>2, <1>1, <1>3
    <3>2. rec.value = all[1].value + (l + 1) - 1
      BY <3>1, <2>2, <1>1, <1>3, <1>4
    <3>3. \A j \in 1 .. l + 1 : j \in 1 .. l \/ j = l + 1
      BY <1>1
    <3> QED BY <3>1, <3>2, <3>3, <1>1, <1>3
  <2> QED BY <2>1, <2>2
<1> QED BY <1>1, <1>5 DEF Points, all

LEMMA PointsTail ==
    ASSUME NEW line, NEW recs \in Seq(Rec), recs # <<>>, NEW h, NEW x \in Nat, Points(line, recs, h, x)
    PROVE  /\ Points(line, Tail(recs), h, x)
           /\ recs[1].value \in 1 .. x - 2 /\ line[recs[1].value + 1].height = h
           /\ recs[1].key = line[recs[1].value + 1].recs[1].key
           /\ Tail(recs) # <<>> => Tail(recs)[1].value = recs[1].value + 1
           /\ Tail(recs) # <<>> => Tail(recs)[Len(Tail(recs))] = recs[Len(recs)]
           /\ Tail(recs) = <<>> => Len(recs) = 1
<1> DEFINE l == Len(recs)
           rem == Tail(recs)
<1>1. /\ l \in Nat \ {0} /\ DOMAIN recs = 1 .. l /\ Len(rem) = l - 1 /\ DOMAIN rem = 1 .. l - 1
      /\ \A j \in 1 .. l - 1 : rem[j] = recs[j + 1]
      /\ (rem = <<>>) <=> (l = 1)
  <2>1. rem \in Seq(Rec) /\ Len(rem) = l - 1 /\ l \in Nat \ {0}
    OBVIOUS
  <2>2. (rem = <<>>) <=> (Len(rem) = 0)
    BY <2>1
  <2>3. (rem = <<>>) <=> (l = 1)
    BY <2>1, <2>2
  <2>4. DOMAIN recs = 1 .. l /\ DOMAIN rem = 1 .. l - 1 /\ \A j \in 1 .. l - 1 : rem[j] = recs[j + 1]
    OBVIOUS
  <2> QED BY <2>1, <2>3, <2>4
<1>2. \A j \in 1 .. l :
        /\ recs[j].value \in 1 .. x - 2
        /\ recs[j].value = recs[1].value + j - 1
        /\ line[recs[j].value + 1].height = h
        /\ recs[j].key = line[recs[j].value + 1].recs[1].key
  BY <1>1 DEF Points
<1> HIDE DEF l, rem
<1>3. 1 \in 1 .. l /\ recs[1].value \in Nat
  BY <1>1, <1>2
<1>4. \A j \in 1 .. l - 1 : j \in Nat /\ j + 1 \in 1 .. l
  BY <1>1
<1>5. l # 1 => 1 \in 1 .. l - 1
  BY <1>1
<1>6. \A j \in 1 .. l - 1 :
        /\ rem[j].value \in 1 .. x - 2
        /\ rem[j].value = rem[1].value + j - 1
        /\ line[rem[j].value + 1].height = h
        /\ rem[j].key = line[rem[j].value + 1].recs[1].key
  <2> SUFFICES ASSUME NEW j \in 1 .. l - 1
               PROVE  /\ rem[j].value \in 1 .. x - 2
                      /\ rem[j].value = rem[1].value + j - 1
                      /\ line[rem[j].value + 1].height = h
                      /\ rem[j].key = line[rem[j].value + 1].recs[1].key
    OBVIOUS
  <2>1. rem[j] = recs[j + 1] /\ j + 1 \in 1 .. l /\ j \in Nat
    BY <1>1, <1>4
  <2>2. l # 1 /\ rem[1] = recs[2] /\ 2 \in 1 .. l
    BY <1>1, <1>4, <1>5
  <2>3. recs[j + 1].value = recs[1].value + (j + 1) - 1 /\ recs[2].value = recs[1].value + 2 - 1
    BY <2>1, <2>2, <1>2
  <2>4. rem[j].value = rem[1].value + j - 1
    <3>1. PICK v : v = recs[1].value
      OBVIOUS
    <3>2. v \in Nat /\ rem[j].value = v + (j + 1) - 1 /\ rem[1].value = v + 2 - 1
      BY <3>1, <2>1, <2>2, <2>3, <1>3
    <3>3. v + (j + 1) - 1 = v + 2 - 1 + j - 1
      BY <3>2, <2>1
    <3> QED BY <3>2, <3>3
  <2> QED BY <2>1, <2>4, <1>2
<1>7. Points(line, rem, h, x)
  BY <1>1, <1>6 DEF Points
<1>8. l # 1 => rem[1].value = recs[1].value + 1
  BY <1>1, <1>2, <1>3, <1>4, <1>5
<1>9. l # 1 => rem[l - 1] = recs[l]
  BY <1>1, <1>4
<1> QED BY <1>1, <1>2, <1>3, <1>7, <1>8, <1>9 DEF l, rem

LEMMA LineStays ==
    ASSUME TreeTypeOK, SizesOK, TreeNext
    PROVE  /\ End \in Nat \ {0}
           /\ \A y \in 1 .. End : Line'[y].height = Line[y].height
           /\ \A y \in 1 .. End - 1 : SameFirst(Line', Line, y)
           /\ Line[End].recs # <<>> \/ ~FillNode => SameFirst(Line', Line, End)
<1> DEFINE e == End
<1>1. e \in Nat \ {0} /\ \A y \in 1 .. e : Line[y].recs \in Seq(Rec)
  BY LineOfNodes, NodeFields
<1> HIDE DEF e
<1>2. CASE FillNode
  <2>1. /\ \A x \in 1 .. e - 1 : Line'[x] = Line[x]
        /\ Line'[e].recs = Append(Line[e].recs, Head(rest)) /\ Head(rest) \in Rec
        /\ Line'[e].height = Line[e].height
    BY <1>2, FillFields DEF e
  <2>2. Line[e].recs # <<>> => Line'[e].recs[1] = Line[e].recs[1]
    <3>1. Line[e].recs \in Seq(Rec)
      BY <1>1
    <3> QED BY <3>1, <2>1
  <2> QED BY <2>1, <2>2, <1>1, <1>2 DEF SameFirst, e
<1>3. CASE FullNode
  <2>1. /\ \A x \in 1 .. e - 1 : Line'[x] = Line[x]
        /\ Line'[e].recs = Line[e].recs /\ Line'[e].height = Line[e].height
    BY <1>3, FullFields DEF e
  <2> QED BY <2>1, <1>1 DEF SameFirst, e
<1>4. CASE RaiseLevel
  <2>1. \A x \in 1 .. e : Line'[x] = Line[x]
    BY <1>4, RaiseFields DEF e
  <2> QED BY <2>1, <1>1 DEF SameFirst, e
<1>5. CASE CloseTree
  <2>1. \A x \in 1 .. e : Line'[x] = Line[x]
    BY <1>5, CloseShape DEF e
  <2> QED BY <2>1, <1>1 DEF SameFirst, e
<1>6. CASE AddMap
  <2> DEFINE m == MapNode
  <2>1. /\ \A y \in 1 .. e : y # m => Line'[y] = Line[y]
        /\ Line'[m].height = Line[m].height /\ Line'[m].recs = Line[m].recs
    BY <1>6, MapFields DEF e
  <2> HIDE DEF m
  <2>2. \A y \in 1 .. e : Line'[y].recs = Line[y].recs /\ Line'[y].height = Line[y].height
    BY <2>1
  <2> QED BY <2>2, <1>1 DEF SameFirst, e
<1> QED BY <1>2, <1>3, <1>4, <1>5, <1>6, TreeCases

LEMMA PointerFields ==
    ASSUME NEW rec \in Rec, NEW n \in Nat
    PROVE  Pointer(rec, n) \in Rec /\ Pointer(rec, n).value = n /\ Pointer(rec, n).key = rec.key
BY PointerIsRec DEF Pointer

LEMMA IndicesStep ==
    ASSUME TreeTypeOK, SizesOK, LevelsOK, FilledOK, IndicesOK, TreeNext
    PROVE  IndicesOK'
<1> DEFINE e == End
<1>1. /\ e \in Nat \ {0} /\ (Open => Top = e /\ e = NodeCount + 1)
      /\ \A y \in 1 .. e : Line'[y].height = Line[y].height
      /\ \A y \in 1 .. e - 1 : SameFirst(Line', Line, y)
      /\ Line[e].recs # <<>> \/ ~FillNode => SameFirst(Line', Line, e)
      /\ data' = data /\ indices \in Seq(Rec)
  BY LineStays, LineOfNodes, DataStays DEF Top, TreeTypeOK
<1>2. Open =>
        /\ Points(Line, indices, Line[e].height, e + 1)
        /\ indices # <<>> =>
              /\ indices[Len(indices)].value = e - 1
              /\ Line[indices[1].value].height # Line[e].height
              /\ indices[1].key = data[1].key
        /\ indices = <<>> =>
              /\ Line[e - 1].height # Line[e].height
              /\ rest[1].key = data[1].key
  <2>1. Open => NodeCount = e - 1
    BY LineOfNodes
  <2> QED BY <2>1 DEF IndicesOK
<1>3. Open => (Line[e].recs = <<>> <=> indices = <<>>)
  BY <1>1 DEF FilledOK
<1>4. Open /\ indices # <<>> => indices[1].value \in 1 .. e - 1
  <2>1. indices # <<>> => 1 \in DOMAIN indices
    BY <1>1
  <2> QED BY <2>1, <1>1, <1>2 DEF Points
<1>10. Open /\ indices # <<>> => Line'[indices[1].value].height # Line[e].height
  <2> SUFFICES ASSUME Open, indices # <<>> PROVE Line'[indices[1].value].height # Line[e].height
    OBVIOUS
  <2>1. PICK v : v = indices[1].value
    OBVIOUS
  <2>2. v \in 1 .. e /\ Line[v].height # Line[e].height
    BY <2>1, <1>1, <1>2, <1>4
  <2>3. Line'[v].height = Line[v].height
    BY <2>2, <1>1
  <2> QED BY <2>1, <2>2, <2>3
<1>5. Open /\ Line[e].recs # <<>> => Points(Line', indices, Line[e].height, e + 1)
  <2> SUFFICES ASSUME Open, Line[e].recs # <<>>
               PROVE  Points(Line', indices, Line[e].height, e + 1)
    OBVIOUS
  <2>1. \A y \in 1 .. (e + 1) - 1 : SameFirst(Line', Line, y)
    BY <1>1
  <2>2. e + 1 \in Nat /\ e + 1 <= e + 1
    BY <1>1
  <2> QED BY <2>1, <2>2, <1>2, PointsStay
<1> HIDE DEF e
<1>6. CASE FillNode
  <2>1. /\ Open /\ Open' /\ End' = e /\ e \in Nat \ {0, 1} /\ NodeCount' = e - 1
        /\ Head(rest) \in Rec /\ Head(rest) = rest[1] /\ Line'[e].height = Line[e].height
        /\ Line'[e].recs = Append(Line[e].recs, Head(rest))
        /\ indices' = IF Line[e].recs = <<>> THEN Append(indices, Pointer(Head(rest), e - 1))
                      ELSE indices
    BY <1>6, FillFields, RestFields DEF e
  <2>2. CASE Line[e].recs # <<>>
    <3>1. indices' = indices /\ indices # <<>>
      BY <2>1, <2>2, <1>3
    <3>2. Line'[indices[1].value].height # Line'[e].height
      BY <3>1, <2>1, <1>10
    <3>3. Points(Line', indices', Line'[e].height, e + 1)
      BY <3>1, <2>1, <2>2, <1>1, <1>5
    <3> QED BY <3>1, <3>2, <3>3, <2>1, <1>1, <1>2 DEF IndicesOK
  <2>3. CASE Line[e].recs = <<>>
    <3> DEFINE ptr == Pointer(Head(rest), e - 1)
    <3>1. /\ indices = <<>> /\ indices' = <<ptr>> /\ Line'[e].recs = <<Head(rest)>>
          /\ ptr.value = e - 1 /\ ptr.key = rest[1].key /\ ptr \in Rec
      <4>1. e - 1 \in Nat
        BY <2>1
      <4>2. ptr.value = e - 1 /\ ptr.key = rest[1].key /\ ptr \in Rec
        <5>1. /\ Pointer(Head(rest), e - 1).value = e - 1
              /\ Pointer(Head(rest), e - 1).key = Head(rest).key
              /\ Pointer(Head(rest), e - 1) \in Rec
          BY <4>1, <2>1, PointerFields
        <5>2. Head(rest) = rest[1]
          BY <2>1
        <5> QED BY <5>1, <5>2
      <4>3. indices = <<>> /\ indices' = Append(indices, ptr)
        BY <2>1, <2>3, <1>3
      <4> HIDE DEF ptr
      <4> QED BY <4>2, <4>3, <2>1, <2>3
    <3> HIDE DEF ptr
    <3>2. Line'[e - 1].height # Line'[e].height /\ rest[1].key = data[1].key
      BY <3>1, <2>1, <1>1, <1>2
    <3>3. Points(Line', <<ptr>>, Line'[e].height, e + 1)
      <4>1. ptr.value \in 1 .. (e + 1) - 2 /\ ptr.value + 1 = e
        BY <3>1, <2>1
      <4>2. ptr.value = ptr.value + 1 - 1
        BY <3>1, <2>1
      <4>3. ptr.key = Line'[e].recs[1].key
        BY <3>1, <2>1
      <4> QED BY <4>1, <4>2, <4>3 DEF Points
    <3>4. Len(indices') = 1 /\ indices'[1] = ptr
      BY <3>1
    <3> QED BY <3>1, <3>2, <3>3, <3>4, <2>1, <1>1 DEF IndicesOK
  <2> QED BY <2>2, <2>3
<1>7. CASE FullNode
  <2>1. /\ Open /\ Open' /\ End' = e + 1 /\ e \in Nat \ {0, 1} /\ NodeCount' = e
        /\ Head(rest) \in Rec
        /\ Line'[e + 1].recs = <<Head(rest)>> /\ Line'[e + 1].height = Line[e].height
        /\ indices' = Append(indices, Pointer(Head(rest), e))
        /\ Line[e].recs # <<>>
    BY <1>7, FullFields, FullIsFilled DEF e
  <2> DEFINE ptr == Pointer(Head(rest), e)
             H == Line[e].height
  <2>2. /\ indices # <<>> /\ ptr.value = e /\ ptr.key = Head(rest).key /\ ptr \in Rec
    BY <2>1, <1>3, PointerFields
  <2> HIDE DEF ptr, H
  <2>3. Points(Line', indices, H, e + 2)
    <3>1. \A y \in 1 .. (e + 1) - 1 : SameFirst(Line', Line, y)
      BY <2>1, <1>1
    <3>2. Points(Line, indices, H, e + 1) /\ e + 1 \in Nat /\ e + 2 \in Nat /\ e + 1 <= e + 2
      BY <2>1, <1>2 DEF H
    <3> QED BY <3>1, <3>2, PointsStay
  <2>4. Points(Line', indices', H, e + 2)
    <3>1. /\ ptr.value \in 1 .. (e + 2) - 2 /\ ptr.value + 1 = e + 1
          /\ indices # <<>> => ptr.value = indices[Len(indices)].value + 1
      BY <2>1, <2>2, <1>2
    <3>2. Line'[ptr.value + 1].height = H /\ ptr.key = Line'[ptr.value + 1].recs[1].key
      BY <3>1, <2>1, <2>2 DEF H
    <3>3. e + 2 \in Nat
      BY <2>1
    <3> QED BY <3>1, <3>2, <3>3, <2>1, <2>2, <2>3, <1>1, PointsAppend DEF ptr
  <2>5. /\ Len(indices') \in DOMAIN indices' /\ indices'[Len(indices')] = ptr
        /\ indices'[1] = indices[1] /\ indices' # <<>>
    BY <2>1, <2>2, <1>1 DEF ptr
  <2>6. Line'[indices'[1].value].height # Line'[e + 1].height
    BY <2>1, <2>2, <2>5, <1>10
  <2>7. H = Line'[e + 1].height /\ e + 1 + 1 = e + 2
    BY <2>1 DEF H
  <2> QED BY <2>1, <2>2, <2>4, <2>5, <2>6, <2>7, <1>1, <1>2 DEF IndicesOK
<1>8. CASE RaiseLevel
  <2>1. /\ Open /\ Open' /\ End' = e + 1 /\ e \in Nat \ {0, 1}
        /\ rest' = indices /\ indices' = <<>> /\ Len(indices) > 1
        /\ \A y \in 1 .. e : Line'[y] = Line[y]
        /\ Line'[e + 1].height = Line[e].height + 1
    BY <1>8, RaiseFields DEF e
  <2>2. indices # <<>>
    BY <2>1
  <2>3. Line'[e].height # Line'[e + 1].height
    <3>1. Line[e].height \in Nat
      BY <2>1, LineOfNodes, NodeFields DEF e
    <3> QED BY <3>1, <2>1
  <2>4. (e + 1) - 1 = e
    BY <2>1
  <2>5. Points(Line', indices', Line'[e + 1].height, e + 2)
    BY <2>1 DEF Points
  <2> QED BY <2>1, <2>2, <2>3, <2>4, <2>5, <1>1, <1>2 DEF IndicesOK, Points
<1>9. CASE CloseTree \/ AddMap
  <2>1. ~Open'
    BY <1>9, CloseShape, MapFields
  <2> QED BY <2>1 DEF IndicesOK
<1> QED BY <1>6, <1>7, <1>8, <1>9, TreeCases

\* The nodes that an index node of the line points to are before it.
LEMMA PointsBelow ==
    ASSUME TreeTypeOK, SizesOK, TreeNext, NEW x \in 2 .. End, NEW h, NEW recs \in Seq(Rec),
           Points(Line, recs, h, x)
    PROVE  /\ Points(Line', recs, h, x)
           /\ PointsToLast(Line, recs, h) => PointsToLast(Line', recs, h)
<1>1. x \in Nat /\ x <= x
  BY LineStays
<1>2. \A y \in 1 .. x - 1 : SameFirst(Line', Line, y)
  BY LineStays
<1>3. \A y \in 1 .. x : Line'[y].height = Line[y].height
  BY LineStays
<1> QED BY <1>1, <1>2, <1>3, PointsStay, PointsToLastStay

LEMMA IndexStays ==
    ASSUME TreeTypeOK, SizesOK, TreeNext, NEW x \in 2 .. End, NEW h, IndexHolds(x, h),
           x # Top, x # Top', Line'[x].recs = Line[x].recs,
           Line'[x + 1].height = Line[x + 1].height,
           Line'[x + 1].height = h + 1 /\ Line'[x + 1].recs # <<>> =>
              Line[x + 1].recs # <<>> /\ Line'[x + 1].recs[1] = Line[x + 1].recs[1]
    PROVE  IndexHolds(x, h)'
<1>1. Line[x].recs \in Seq(Rec)
  BY LineOfNodes, NodeFields
<1>2. Points(Line, Line[x].recs, h, x)
  BY DEF IndexHolds
<1>3. Points(Line', Line'[x].recs, h, x)
  BY <1>1, <1>2, PointsBelow
<1>4. PointsToLast(Line, Line[x].recs, h) => PointsToLast(Line', Line'[x].recs, h)
  BY <1>1, <1>2, PointsBelow
<1> QED BY <1>3, <1>4 DEF IndexHolds

LEMMA IndexFills ==
    ASSUME TreeTypeOK, SizesOK, LevelsOK, FilledOK, IndicesOK, FillNode,
           NEW x \in 2 .. End, NEW h, Line[x].height = h + 1, IndexHolds(x, h)
    PROVE  IndexHolds(x, h)'
<1> DEFINE e == End
<1>0. TreeNext
  BY TreeCases
<1>1. /\ Open /\ Open' /\ End' = e /\ e \in Nat \ {0, 1}
      /\ rest # <<>> /\ Head(rest) \in Rec /\ rest' = Tail(rest)
      /\ \A y \in 1 .. e - 1 : Line'[y] = Line[y]
      /\ Line'[e].recs = Append(Line[e].recs, Head(rest))
      /\ Line'[e].height = Line[e].height
  BY FillFields
<1>2. Top = e /\ Top' = e /\ x \in 2 .. e /\ x \in Nat
  BY <1>1 DEF Top
<1>3. Line[e].recs = <<>> => Line[e - 1].height # Line[e].height
  BY <1>1, <1>2 DEF FilledOK, IndicesOK
<1>4. Line[e].recs \in Seq(Rec) /\ rest \in Seq(Rec)
  BY <1>1, LineOfNodes, NodeFields DEF TreeTypeOK
<1>5. Line[e].recs # <<>> => Line'[e].recs[1] = Line[e].recs[1]
  BY <1>1, <1>4
<1> HIDE DEF e
<1>6. CASE x < e - 1
  <2>1. x \in 1 .. e - 1 /\ x + 1 \in 1 .. e - 1
    BY <1>1, <1>2, <1>6
  <2>2. Line'[x] = Line[x] /\ Line'[x + 1] = Line[x + 1] /\ x # e
    BY <2>1, <1>1, <1>6
  <2> QED BY <2>2, <1>0, <1>2, IndexStays
<1>7. CASE x = e - 1
  <2>1. Line'[x] = Line[x] /\ x + 1 = e /\ x # e
    BY <1>1, <1>2, <1>7
  <2>2. Line'[e].height = h + 1 => Line[e].recs # <<>>
    BY <1>1, <1>3, <1>7
  <2> QED BY <2>1, <2>2, <1>0, <1>1, <1>2, <1>5, IndexStays
<1>8. CASE x = e
  <2>1. /\ Points(Line, Line[x].recs, h, x) /\ Points(Line, rest, h, x) /\ PointsToLast(Line, rest, h)
        /\ Line[x].recs # <<>> => rest[1].value = Line[x].recs[Len(Line[x].recs)].value + 1
    BY <1>1, <1>2, <1>8 DEF IndexHolds
  <2>2. /\ Points(Line', Line[x].recs, h, x) /\ Points(Line', rest, h, x)
        /\ PointsToLast(Line', rest, h)
    BY <2>1, <1>0, <1>4, <1>8, PointsBelow
  <2>3. /\ Points(Line', Tail(rest), h, x)
        /\ rest[1].value \in 1 .. x - 2 /\ Line'[rest[1].value + 1].height = h
        /\ rest[1].key = Line'[rest[1].value + 1].recs[1].key
        /\ Tail(rest) # <<>> => Tail(rest)[1].value = rest[1].value + 1
        /\ Tail(rest) # <<>> => Tail(rest)[Len(Tail(rest))] = rest[Len(rest)]
        /\ Tail(rest) = <<>> => Len(rest) = 1
    BY <2>2, <1>1, <1>2, <1>4, PointsTail
  <2>4. rest[1] = Head(rest) /\ rest[1] \in Rec
    BY <1>1, <1>4
  <2> DEFINE all == Append(Line[x].recs, rest[1])
  <2>5. Points(Line', all, h, x)
    BY <2>1, <2>2, <2>3, <2>4, <1>2, <1>4, <1>8, PointsAppend
  <2>6. all # <<>> /\ all[Len(all)] = rest[1]
    BY <2>4, <1>4, <1>8
  <2>7. Line'[x].recs = all
    BY <2>4, <1>1, <1>8
  <2> HIDE DEF all
  <2>8. Line'[rest[Len(rest)].value + 2].height = h + 1
    BY <2>2, <1>1 DEF PointsToLast
  <2>9. rest' = <<>> => PointsToLast(Line', all, h)
    BY <2>3, <2>6, <2>8, <1>1 DEF PointsToLast
  <2>10. rest' # <<>> => PointsToLast(Line', rest', h)
    BY <2>3, <2>8, <1>1 DEF PointsToLast
  <2>11. rest' # <<>> => rest'[1].value = all[Len(all)].value + 1
    BY <2>3, <2>6, <1>1
  <2>12. x = Top' /\ Open' /\ Points(Line', rest', h, x)
    BY <2>3, <1>1, <1>2, <1>8
  <2> QED BY <2>5, <2>7, <2>9, <2>10, <2>11, <2>12 DEF IndexHolds
<1> QED BY <1>1, <1>2, <1>6, <1>7, <1>8

LEMMA IndexFull ==
    ASSUME TreeTypeOK, SizesOK, FullNode,
           NEW x \in 2 .. End, NEW h, Line[x].height = h + 1, IndexHolds(x, h)
    PROVE  IndexHolds(x, h)'
<1> DEFINE e == End
<1>0. TreeNext
  BY TreeCases
<1>1. /\ Open /\ Open' /\ End' = e + 1 /\ e \in Nat \ {0, 1}
      /\ rest # <<>> /\ Head(rest) \in Rec /\ rest' = Tail(rest)
      /\ \A y \in 1 .. e - 1 : Line'[y] = Line[y]
      /\ Line'[e].recs = Line[e].recs /\ Line'[e].height = Line[e].height
      /\ Line'[e + 1].recs = <<Head(rest)>> /\ Line'[e + 1].height = Line[e].height
      /\ Line[e].recs # <<>>
  BY FullFields, FullIsFilled
<1>2. Top = e /\ Top' = e + 1 /\ x \in 2 .. e /\ x \in Nat
  BY <1>1 DEF Top
<1>3. Line[e].recs \in Seq(Rec) /\ rest \in Seq(Rec) /\ rest[1] = Head(rest)
  BY <1>1, LineOfNodes, NodeFields, RestFields DEF TreeTypeOK
<1> HIDE DEF e
<1>4. CASE x # e
  <2>1. Line'[x] = Line[x] /\ x # e + 1 /\ x + 1 \in 1 .. e
    <3>1. e \in Nat /\ x \in 2 .. e
      BY <1>1, <1>2
    <3>2. x \in 1 .. e - 1 /\ x # e + 1 /\ x + 1 \in 1 .. e
      BY <1>4, <3>1
    <3> QED BY <1>1, <3>2, Zenon
  <2>2. Line'[x + 1].height = Line[x + 1].height /\ Line'[x + 1].recs = Line[x + 1].recs
    <3>1. CASE x + 1 = e
      BY <3>1, <1>1
    <3>2. CASE x + 1 # e
      <4>1. x + 1 \in 1 .. e - 1
        BY <3>2, <2>1, <1>1
      <4> QED BY <4>1, <1>1
    <3> QED BY <3>1, <3>2
  <2> QED BY <2>1, <2>2, <1>0, <1>2, <1>4, IndexStays
<1>5. CASE x = e
  <2>1. /\ Points(Line, Line[x].recs, h, x)
        /\ rest[1].value = Line[x].recs[Len(Line[x].recs)].value + 1
    BY <1>1, <1>2, <1>5 DEF IndexHolds
  <2>2. Points(Line', Line[x].recs, h, x)
    BY <2>1, <1>0, <1>3, <1>5, PointsBelow
  <2>3. x # Top' /\ Line'[x].recs = Line[x].recs
    BY <1>1, <1>2, <1>5
  <2>4. /\ Line'[x + 1].height = h + 1
        /\ Line'[x + 1].recs[1].value = Line'[x].recs[Len(Line'[x].recs)].value + 1
    BY <2>1, <2>3, <1>1, <1>3, <1>5
  <2> QED BY <2>2, <2>3, <2>4 DEF IndexHolds
<1> QED BY <1>4, <1>5

LEMMA IndexOpens ==
    ASSUME TreeTypeOK, SizesOK, FullNode, NEW x, x = End, NEW h, IndexHolds(x, h)
    PROVE  IndexHolds(x + 1, h)'
<1>0. TreeNext
  BY TreeCases
<1>1. /\ Open /\ Open' /\ End' = x + 1 /\ x \in Nat \ {0, 1}
      /\ rest # <<>> /\ Head(rest) \in Rec /\ rest' = Tail(rest)
      /\ Line'[x + 1].recs = <<Head(rest)>>
  BY FullFields
<1>2. Top = x /\ Top' = x + 1
  BY <1>1 DEF Top
<1>3. rest \in Seq(Rec) /\ rest[1] = Head(rest)
  BY <1>1, RestFields DEF TreeTypeOK
<1>4. Points(Line, rest, h, x) /\ PointsToLast(Line, rest, h)
  BY <1>1, <1>2 DEF IndexHolds
<1>5. Points(Line', rest, h, x) /\ PointsToLast(Line', rest, h)
  <2>1. x \in 2 .. End
    BY <1>1
  <2> QED BY <2>1, <1>0, <1>3, <1>4, PointsBelow
<1>6. Points(Line', rest, h, x + 1)
  <2>1. \A y \in 1 .. x - 1 : SameFirst(Line', Line', y)
    BY DEF SameFirst
  <2>2. x \in Nat /\ x + 1 \in Nat /\ x <= x + 1
    BY <1>1
  <2> QED BY <2>1, <2>2, <1>5, PointsStay
<1>7. /\ Points(Line', Tail(rest), h, x + 1)
      /\ rest[1].value \in 1 .. x - 1 /\ Line'[rest[1].value + 1].height = h
      /\ rest[1].key = Line'[rest[1].value + 1].recs[1].key
      /\ Tail(rest) # <<>> => Tail(rest)[1].value = rest[1].value + 1
      /\ Tail(rest) # <<>> => Tail(rest)[Len(Tail(rest))] = rest[Len(rest)]
      /\ Tail(rest) = <<>> => Len(rest) = 1
  <2>1. PICK z : z = x + 1
    OBVIOUS
  <2>2. z \in Nat /\ z - 2 = x - 1 /\ Points(Line', rest, h, z)
    BY <2>1, <1>1, <1>6
  <2>3. /\ Points(Line', Tail(rest), h, z)
        /\ rest[1].value \in 1 .. z - 2 /\ Line'[rest[1].value + 1].height = h
        /\ rest[1].key = Line'[rest[1].value + 1].recs[1].key
        /\ Tail(rest) # <<>> => Tail(rest)[1].value = rest[1].value + 1
        /\ Tail(rest) # <<>> => Tail(rest)[Len(Tail(rest))] = rest[Len(rest)]
        /\ Tail(rest) = <<>> => Len(rest) = 1
    BY <2>2, <1>1, <1>3, PointsTail
  <2> QED BY <2>1, <2>2, <2>3
<1> DEFINE one == <<rest[1]>>
<1>8. Points(Line', one, h, x + 1)
  <2>1. DOMAIN one = {1} /\ one[1] = rest[1] /\ rest[1].value \in Nat
    BY <1>1, <1>7
  <2>2. rest[1].value = rest[1].value + 1 - 1
    BY <2>1
  <2>3. rest[1].value \in 1 .. (x + 1) - 2
    BY <1>1, <1>7
  <2> HIDE DEF one
  <2> QED BY <2>1, <2>2, <2>3, <1>7 DEF Points
<1>9. Line'[x + 1].recs = one /\ one # <<>> /\ Len(one) = 1 /\ one[Len(one)] = rest[1]
  BY <1>1, <1>3
<1> HIDE DEF one
<1>10. Line'[rest[Len(rest)].value + 2].height = h + 1
  BY <1>5, <1>1 DEF PointsToLast
<1>11. rest' = <<>> => PointsToLast(Line', one, h)
  BY <1>7, <1>9, <1>10, <1>1 DEF PointsToLast
<1>12. rest' # <<>> => PointsToLast(Line', rest', h)
  BY <1>7, <1>10, <1>1 DEF PointsToLast
<1>13. rest' # <<>> => rest'[1].value = one[Len(one)].value + 1
  BY <1>7, <1>9, <1>1
<1> QED BY <1>1, <1>2, <1>7, <1>8, <1>9, <1>11, <1>12, <1>13 DEF IndexHolds

LEMMA IndexRaised ==
    ASSUME TreeTypeOK, SizesOK, RaiseLevel,
           NEW x \in 2 .. End, NEW h \in Nat, Line[x].height = h + 1, IndexHolds(x, h)
    PROVE  IndexHolds(x, h)'
<1> DEFINE e == End
<1>0. TreeNext
  BY TreeCases
<1>1. /\ Open /\ Open' /\ End' = e + 1 /\ e \in Nat \ {0, 1} /\ rest = <<>>
      /\ \A y \in 1 .. e : Line'[y] = Line[y]
      /\ Line'[e + 1].recs = <<>> /\ Line'[e + 1].height = Line[e].height + 1
  BY RaiseFields
<1>2. Top = e /\ Top' = e + 1 /\ x \in 2 .. e /\ x \in Nat /\ Line[x].recs \in Seq(Rec)
  BY <1>1, LineOfNodes, NodeFields DEF Top
<1> HIDE DEF e
<1>3. Line'[x] = Line[x] /\ x # e + 1
  BY <1>1, <1>2
<1>4. CASE x = e
  <2>1. Line'[x + 1].height # h + 1
    BY <1>1, <1>4
  <2>2. Points(Line, Line[x].recs, h, x) /\ PointsToLast(Line, Line[x].recs, h)
    BY <1>1, <1>2, <1>4 DEF IndexHolds
  <2>3. Points(Line', Line'[x].recs, h, x) /\ PointsToLast(Line', Line'[x].recs, h)
    BY <2>2, <1>0, <1>2, <1>3, PointsBelow
  <2> QED BY <2>1, <2>3, <1>2, <1>3 DEF IndexHolds
<1>5. CASE x # e
  <2>1. x + 1 \in 1 .. e
    BY <1>1, <1>2, <1>5
  <2>2. Line'[x + 1] = Line[x + 1]
    BY <2>1, <1>1
  <2> QED BY <2>2, <1>0, <1>2, <1>3, <1>5, IndexStays
<1> QED BY <1>4, <1>5

\* The index node that opens a level takes over the pointers to the one below.
LEMMA IndexOver ==
    ASSUME TreeTypeOK, SizesOK, RaiseLevel, IndicesOK, NEW x, x = End, NEW h, h = Line[x].height
    PROVE  IndexHolds(x + 1, h)'
<1>0. TreeNext
  BY TreeCases
<1>1. /\ Open /\ Open' /\ End' = x + 1 /\ x \in Nat \ {0, 1} /\ NodeCount = x - 1
      /\ rest' = indices /\ Len(indices) > 1
      /\ \A y \in 1 .. x : Line'[y] = Line[y]
      /\ Line'[x + 1].recs = <<>> /\ Line'[x + 1].height = h + 1
  BY RaiseFields
<1>2. Top' = x + 1 /\ indices # <<>> /\ indices \in Seq(Rec)
  BY <1>1 DEF Top, TreeTypeOK
<1>3. Points(Line, indices, h, x + 1) /\ indices[Len(indices)].value = x - 1
  BY <1>1, <1>2 DEF IndicesOK
<1>4. Points(Line', indices, h, x + 1)
  <2>1. PICK z : z = x + 1
    OBVIOUS
  <2>2. \A y \in 1 .. z - 1 : SameFirst(Line', Line, y)
    BY <2>1, <1>1 DEF SameFirst
  <2>3. z \in Nat /\ z <= z /\ Points(Line, indices, h, z)
    BY <2>1, <1>1, <1>3
  <2>4. Points(Line', indices, h, z)
    BY <2>2, <2>3, PointsStay
  <2> QED BY <2>1, <2>4
<1>5. PointsToLast(Line', indices, h)
  <2>1. indices[Len(indices)].value + 2 = x + 1
    BY <1>1, <1>3
  <2> QED BY <2>1, <1>1 DEF PointsToLast
<1>6. Points(Line', Line'[x + 1].recs, h, x + 1)
  BY <1>1 DEF Points
<1> QED BY <1>1, <1>2, <1>4, <1>5, <1>6 DEF IndexHolds

LEMMA IndexClosed ==
    ASSUME TreeTypeOK, SizesOK, CloseTree,
           NEW x \in 2 .. End, NEW h \in Nat, Line[x].height = h + 1, IndexHolds(x, h)
    PROVE  IndexHolds(x, h)'
<1> DEFINE e == End
<1>0. TreeNext
  BY TreeCases
<1>1. /\ Open /\ ~Open' /\ End' = e /\ rest = <<>>
      /\ \A y \in 1 .. e : Line'[y] = Line[y]
      /\ header'.root = e - 1 /\ e \in Nat \ {0}
  BY CloseShape, LineOfNodes
<1>2. Top = e /\ Top' = e /\ x \in 2 .. e /\ x \in Nat /\ Line[x].recs \in Seq(Rec)
  BY <1>1, LineOfNodes, NodeFields DEF Top
<1> HIDE DEF e
<1>3. Line'[x] = Line[x]
  BY <1>1, <1>2
<1>4. CASE x = e
  <2>2. Points(Line, Line[x].recs, h, x) /\ PointsToLast(Line, Line[x].recs, h)
    BY <1>1, <1>2, <1>4 DEF IndexHolds
  <2>3. Points(Line', Line'[x].recs, h, x) /\ PointsToLast(Line', Line'[x].recs, h)
    BY <2>2, <1>0, <1>2, <1>3, PointsBelow
  <2> QED BY <2>3, <1>1, <1>2, <1>3, <1>4 DEF IndexHolds
<1>5. CASE x # e
  <2>1. x + 1 \in 1 .. e
    BY <1>1, <1>2, <1>5
  <2>2. Line'[x + 1] = Line[x + 1]
    BY <2>1, <1>1
  <2> QED BY <2>2, <1>0, <1>2, <1>3, <1>5, IndexStays
<1> QED BY <1>4, <1>5

LEMMA IndexMapped ==
    ASSUME TreeTypeOK, SizesOK, AddMap, LevelsOK,
           NEW x \in 2 .. Top, NEW h \in Nat, Line[x].height = h + 1, IndexHolds(x, h)
    PROVE  IndexHolds(x, h)'
<1> DEFINE e == End
           m == MapNode
<1>0. TreeNext
  BY TreeCases
<1>1. /\ ~Open /\ ~Open' /\ m \in {1, e} /\ header'.root = header.root /\ e \in Nat \ {0}
      /\ \A y \in 1 .. e : y # m => Line'[y] = Line[y]
      /\ Line'[m].recs = Line[m].recs /\ Line'[m].height = Line[m].height
  BY MapFields
<1>2. Top' = Top /\ Top \in 1 .. e /\ x \in 2 .. e /\ x \in Nat
  BY <1>1 DEF Top, LevelsOK
<1>3. Line[x].recs \in Seq(Rec)
  BY <1>2, LineOfNodes, NodeFields
<1> HIDE DEF e, m
<1>4. \A y \in 1 .. e : Line'[y].recs = Line[y].recs /\ Line'[y].height = Line[y].height
  BY <1>1
<1>5. x \in 1 .. e /\ (x # Top => x + 1 \in 1 .. e)
  BY <1>1, <1>2
<1>6. CASE x = Top
  <2>2. Points(Line, Line[x].recs, h, x) /\ PointsToLast(Line, Line[x].recs, h)
    BY <1>1, <1>6 DEF IndexHolds
  <2>3. Points(Line', Line[x].recs, h, x) /\ PointsToLast(Line', Line[x].recs, h)
    BY <2>2, <1>0, <1>2, <1>3, PointsBelow DEF e
  <2> QED BY <2>3, <1>1, <1>2, <1>4, <1>5, <1>6 DEF IndexHolds
<1>7. CASE x # Top
  BY <1>0, <1>2, <1>4, <1>5, <1>7, IndexStays DEF e
<1> QED BY <1>6, <1>7

LEMMA IndexIsAt ==
    ASSUME NEW x \in 2 .. Top', NEW h, h = Line'[x].height - 1, IndexHolds(x, h)'
    PROVE  x \in IndexAt'
BY DEF IndexAt, IndexHolds

LEMMA IndexWas ==
    ASSUME IndexesOK, NEW x \in 2 .. Top, Line[x].height > 1, NEW h, h = Line[x].height - 1
    PROVE  IndexHolds(x, h)
BY DEF IndexesOK, IndexAt, IndexHolds

LEMMA IndexesStep ==
    ASSUME TreeTypeOK, SizesOK, LevelsOK, FilledOK, IndexesOK, IndicesOK, TreeNext
    PROVE  IndexesOK'
<1> DEFINE e == End
<1>1. e \in Nat \ {0} /\ Top \in 1 .. e /\ (Open => Top = e)
  BY LineOfNodes DEF LevelsOK, Top
<1>2. \A y \in 1 .. e : Line[y].height \in Nat /\ Line'[y].height = Line[y].height
  BY LineOfNodes, NodeFields, LineStays
<1>3. SUFFICES ASSUME NEW x \in 2 .. Top', Line'[x].height > 1
               PROVE  x \in IndexAt'
  BY DEF IndexesOK
<1>4. x \in Nat
  OBVIOUS
<1>5. PICK h : h = Line'[x].height - 1
  OBVIOUS
<1>6. SUFFICES IndexHolds(x, h)'
  BY <1>5, IndexIsAt
<1> HIDE DEF e
<1>7. x \in 2 .. Top => h \in Nat /\ Line[x].height = h + 1 /\ IndexHolds(x, h) /\ x \in 2 .. e
  <2> SUFFICES ASSUME x \in 2 .. Top
               PROVE  h \in Nat /\ Line[x].height = h + 1 /\ IndexHolds(x, h) /\ x \in 2 .. e
    OBVIOUS
  <2>1. x \in 2 .. e /\ x \in 1 .. e
    BY <1>1, <1>4
  <2>2. Line[x].height \in Nat /\ Line'[x].height = Line[x].height
    BY <2>1, <1>2
  <2>3. h \in Nat /\ Line[x].height = h + 1 /\ h = Line[x].height - 1 /\ Line[x].height > 1
    BY <2>2, <1>3, <1>5
  <2> QED BY <2>1, <2>3, IndexWas
<1>8. CASE FillNode
  <2>1. Open /\ Open' /\ End' = e
    BY <1>8, FillFields DEF e
  <2>2. x \in 2 .. Top
    BY <2>1, <1>1 DEF Top
  <2> QED BY <2>2, <1>7, <1>8, IndexFills DEF e
<1>9. CASE FullNode
  <2>1. /\ Open /\ Open' /\ End' = e + 1 /\ e \in Nat \ {0, 1}
        /\ Line'[e + 1].height = Line[e].height
    BY <1>9, FullFields DEF e
  <2>2. Top' = e + 1
    BY <2>1 DEF Top
  <2>3. CASE x <= e
    <3>1. x \in 2 .. Top
      BY <2>1, <2>2, <2>3, <1>1, <1>4
    <3> QED BY <3>1, <1>7, <1>9, IndexFull DEF e
  <2>4. CASE x = e + 1
    <3>1. e \in 2 .. Top /\ Line[e].height > 1 /\ h = Line[e].height - 1
      BY <2>1, <2>4, <1>1, <1>3, <1>5
    <3>2. IndexHolds(e, h)
      BY <3>1, IndexWas
    <3>3. PICK f : f = e
      OBVIOUS
    <3>4. f = End /\ IndexHolds(f, h) /\ x = f + 1
      BY <3>2, <3>3, <2>4 DEF e
    <3>5. IndexHolds(f + 1, h)'
      BY <3>4, <1>9, IndexOpens
    <3> QED BY <3>4, <3>5
  <2> QED BY <2>1, <2>2, <2>3, <2>4, <1>4
<1>10. CASE RaiseLevel
  <2>1. /\ Open /\ Open' /\ End' = e + 1 /\ e \in Nat \ {0, 1}
        /\ Line'[e + 1].height = Line[e].height + 1
    BY <1>10, RaiseFields DEF e
  <2>2. Top' = e + 1
    BY <2>1 DEF Top
  <2>3. CASE x <= e
    <3>1. x \in 2 .. Top
      BY <2>1, <2>2, <2>3, <1>1, <1>4
    <3> QED BY <3>1, <1>7, <1>10, IndexRaised DEF e
  <2>4. CASE x = e + 1
    <3>1. h = Line[e].height
      <4>1. Line[e].height \in Nat
        BY <1>1, <1>2
      <4> QED BY <4>1, <2>1, <2>4, <1>5
    <3>3. PICK f : f = e
      OBVIOUS
    <3>4. f = End /\ h = Line[f].height /\ x = f + 1
      BY <3>1, <3>3, <2>4 DEF e
    <3>5. IndexHolds(f + 1, h)'
      BY <3>4, <1>10, IndexOver
    <3> QED BY <3>4, <3>5
  <2> QED BY <2>1, <2>2, <2>3, <2>4, <1>4
<1>11. CASE CloseTree
  <2>1. Open /\ ~Open' /\ End' = e /\ header'.root = e - 1
    BY <1>11, CloseShape DEF e
  <2>2. Top' = Top
    BY <2>1, <1>1 DEF Top
  <2>3. x \in 2 .. Top
    BY <2>2
  <2> QED BY <2>3, <1>7, <1>11, IndexClosed DEF e
<1>12. CASE AddMap
  <2>1. ~Open /\ ~Open' /\ header'.root = header.root
    BY <1>12, MapFields DEF e
  <2>2. Top' = Top
    BY <2>1 DEF Top
  <2>3. x \in 2 .. Top
    BY <2>2
  <2> QED BY <2>3, <1>7, <1>12, IndexMapped DEF e
<1> QED BY <1>8, <1>9, <1>10, <1>11, <1>12, TreeCases

LEMMA RootStep ==
    ASSUME TreeTypeOK, SizesOK, LevelsOK, FilledOK, IndicesOK, RootOK, TreeNext
    PROVE  RootOK'
<1> DEFINE e == End
<1>1. CASE FillNode \/ FullNode \/ RaiseLevel
  <2>1. Open'
    BY <1>1, FillFields, FullFields, RaiseFields
  <2> QED BY <2>1 DEF RootOK
<1>2. CASE CloseTree
  <2>1. /\ Open /\ ~Open' /\ End' = e /\ rest = <<>> /\ e \in Nat \ {0} /\ NodeCount = e - 1
        /\ Len(indices) \in {0, 1}
        /\ \A y \in 1 .. e : Line'[y] = Line[y]
        /\ header'.root = e - 1
    BY <1>2, CloseShape, LineOfNodes
  <2>2. Top' = e /\ Top = e /\ data' = data /\ indices \in Seq(Rec)
    BY <2>1, <1>2, DataStays, TreeCases DEF Top, TreeTypeOK
  <2>3. indices # <<>>
    BY <2>1, <2>2 DEF FilledOK
  <2>4. Len(indices) = 1 /\ 1 \in DOMAIN indices
    BY <2>1, <2>2, <2>3
  <2>5. indices[1].value = e - 1 /\ indices[1].key = data[1].key
    BY <2>1, <2>3, <2>4 DEF IndicesOK
  <2>6. indices[1].key = Line[indices[1].value + 1].recs[1].key
    BY <2>1, <2>4 DEF IndicesOK, Points
  <2> HIDE DEF e
  <2>7. indices[1].value + 1 = e
    BY <2>1, <2>5
  <2>8. Line'[e].recs[1].key = data[1].key
    BY <2>1, <2>5, <2>6, <2>7
  <2> QED BY <2>2, <2>8 DEF RootOK
<1>3. CASE AddMap
  <2> DEFINE m == MapNode
  <2>1. /\ ~Open /\ ~Open' /\ m \in {1, e} /\ header'.root = header.root
        /\ \A y \in 1 .. e : y # m => Line'[y] = Line[y]
        /\ Line'[m].recs = Line[m].recs
    BY <1>3, MapFields
  <2>2. Top' = Top /\ data' = data /\ Top \in 1 .. e
    BY <2>1, <1>3, DataStays, TreeCases DEF Top, LevelsOK
  <2> HIDE DEF m, e
  <2>3. Line'[Top].recs = Line[Top].recs
    BY <2>1, <2>2
  <2> QED BY <2>1, <2>2, <2>3 DEF RootOK
<1> QED BY <1>1, <1>2, <1>3, TreeCases

\* So many bytes have that many bits.
LEMMA BitsOfBytes ==
    ASSUME NEW n \in Nat, NEW c \in Nat, c >= ByteCount(n)
    PROVE  c * BitsPerByte >= n
<1> DEFINE a == n + BitsPerByte - 1
           d == a \div BitsPerByte
<1>1. BitsPerByte \in Nat \ {0} /\ a \in Nat
  BY BitsAssumption
<1>2. d \in Nat /\ a < BitsPerByte * d + BitsPerByte
  <2> HIDE DEF a
  <2>1. a = BitsPerByte * (a \div BitsPerByte) + (a % BitsPerByte) /\ a \div BitsPerByte \in Int
    BY <1>1
  <2>2. a % BitsPerByte \in 0 .. BitsPerByte - 1
    BY <1>1
  <2>3. d \in Int /\ a < BitsPerByte * d + BitsPerByte
    BY <2>1, <2>2, <1>1
  <2>4. d >= 0
    BY <2>3, <1>1
  <2> QED BY <2>3, <2>4
<1>3. BitsPerByte * d >= n
  <2> HIDE DEF d
  <2> QED BY <1>1, <1>2
<1>4. c >= d
  BY DEF ByteCount
<1> HIDE DEF d
<1>5. c * BitsPerByte >= BitsPerByte * d
  BY <1>1, <1>2, <1>4
<1>6. c * BitsPerByte \in Nat /\ BitsPerByte * d \in Nat
  BY <1>1, <1>2
<1> QED BY <1>3, <1>5, <1>6

\* The bitmap is large enough when the loop over it ends, and stays so.
LEMMA MappedStep ==
    ASSUME TreeTypeOK, SizesOK, TreeNext
    PROVE  NodesMapped'
<1> DEFINE e == End
<1>1. CASE FillNode \/ FullNode \/ RaiseLevel \/ CloseTree
  <2>1. building' # "built"
    BY <1>1, CloseShape DEF FillNode, FullNode, RaiseLevel, EndLevel
  <2> QED BY <2>1 DEF NodesMapped
<1>2. CASE AddMap
  <2>1. /\ ~Open' /\ End \in Nat \ {0}
        /\ building' = "map" \/ (building' = "built" /\ End' = e /\ mapDone' >= ByteCount(e))
    BY <1>2, MapFields
  <2>2. NodeCount' = End' /\ TreeTypeOK'
    BY <2>1, <1>2, TypeStep, TreeCases DEF End
  <2>3. mapDone' \in Nat
    BY <2>2 DEF TreeTypeOK
  <2>4. building' = "built" => mapDone' * BitsPerByte >= NodeCount'
    <3> SUFFICES ASSUME building' = "built" PROVE mapDone' * BitsPerByte >= NodeCount'
      OBVIOUS
    <3>1. NodeCount' = e /\ mapDone' >= ByteCount(e) /\ e \in Nat
      BY <2>1, <2>2
    <3> QED BY <3>1, <2>3, BitsOfBytes
  <2> QED BY <2>4 DEF NodesMapped
<1> QED BY <1>1, <1>2, TreeCases
-----------------------------------------------------------------------------
LEMMA InitInv == TreeInit => TreeInv
<1> SUFFICES ASSUME TreeInit PROVE TreeInv
  OBVIOUS
<1>1. PICK m \in Maps :
        /\ data = m.recs /\ nodeSize = m.nodeSize
        /\ nodes = <<HeaderNode>> /\ mapDone = 0
        /\ building = IF m.recs = <<>> THEN "map" ELSE "level"
        /\ header = IF m.recs = <<>> THEN NoHeader ELSE [NoHeader EXCEPT !.first = 1]
        /\ next = IF m.recs = <<>> THEN <<>> ELSE <<NewNode("leaf", 1)>>
        /\ rest = m.recs /\ indices = <<>>
  BY DEF TreeInit
<1>2. TreeTypeOK
  BY InitType
<1>3. /\ NodeCount = 1 /\ rest = data /\ (Open <=> data # <<>>)
      /\ End = IF Open THEN 2 ELSE 1
      /\ Line[1] = HeaderNode
      /\ Open => Line[2] = NewNode("leaf", 1)
      /\ Top = End
  <2>1. NodeCount = 1 /\ (Open <=> data # <<>>) /\ rest = data
    BY <1>1 DEF NodeCount, Open
  <2>2. End = IF Open THEN 2 ELSE 1
    BY <2>1 DEF End
  <2>3. nodes[1] = HeaderNode /\ (Open => next[1] = NewNode("leaf", 1))
    BY <1>1 DEF Open
  <2>4. Line[1] = nodes[1] /\ (Open => Line[2] = next[1])
    BY <2>1, <2>2 DEF Line
  <2>5. ~Open => header.root = 0
    BY <1>1 DEF NoHeader, Open
  <2> QED BY <2>1, <2>2, <2>3, <2>4, <2>5 DEF Top
<1>4. /\ HeaderNode.kind = "header" /\ HeaderNode.height = 0 /\ HeaderNode.size = HeadSize
  BY DEF HeaderNode, NewNode
<1>5. LET leaf == NewNode("leaf", 1)
      IN  /\ leaf.kind = "leaf" /\ leaf.height = 1 /\ leaf.recs = <<>> /\ leaf.fLink = 0
          /\ leaf.size = DescSize + OffSize
  BY DEF NewNode
<1>6. {DescSize, OffSize, HeadSize, PointerSize} \subseteq Nat /\ DescSize + OffSize <= HeadSize
      /\ nodeSize \in Nat /\ RoomForRecords(data, nodeSize) /\ data \in Seq(Rec)
  BY <1>2, TreeAssumption DEF TreeTypeOK
<1>7. SizesOK
  <2>1. HeadSize + OffSize <= nodeSize
    BY <1>6 DEF RoomForRecords
  <2>2. \A i \in DOMAIN data : Roomy(data[i], nodeSize)
    <3> SUFFICES ASSUME NEW i \in DOMAIN data PROVE Roomy(data[i], nodeSize)
      OBVIOUS
    <3>1. /\ DescSize + 2 * OffSize + RecordSize(data[i]) <= nodeSize
          /\ DescSize + OffSize + 3 * (data[i].klen + PointerSize + OffSize) <= nodeSize
      BY <1>6 DEF RoomForRecords
    <3>2. data[i].klen \in Nat
      BY <1>6, RecFields
    <3>3. PICK k : k = data[i].klen
      OBVIOUS
    <3>4. DescSize + 2 * OffSize + k + PointerSize <= nodeSize
      <4>1. /\ k \in Nat /\ DescSize \in Nat /\ OffSize \in Nat /\ PointerSize \in Nat /\ nodeSize \in Nat
            /\ DescSize + OffSize + 3 * (k + PointerSize + OffSize) <= nodeSize
        BY <3>1, <3>2, <3>3, <1>6
      <4> QED BY <4>1
    <3> QED BY <3>1, <3>3, <3>4 DEF Roomy
  <2>3. \A x \in 1 .. End : Line[x].size <= nodeSize
    BY <2>1, <1>3, <1>4, <1>5, <1>6
  <2>4. DescSize + 2 * OffSize <= nodeSize
    BY <2>1, <1>6
  <2>5. building = "map" => MapNode = 1
    BY <1>1, <1>3, <1>4 DEF MapNode
  <2>6. Line[1].size + OffSize <= nodeSize
    BY <2>1, <1>3, <1>4
  <2>7. \A i \in DOMAIN indices : Roomy(indices[i], nodeSize)
    BY <1>1
  <2>8. Open => Line[End].size = DescSize + OffSize
    BY <1>3, <1>5
  <2> QED BY <2>2, <2>3, <2>4, <2>5, <2>6, <2>7, <2>8, <1>3 DEF SizesOK
<1>8. LinksOK
  BY <1>3, <1>5 DEF LinksOK
<1>9. LevelsOK
  <2>1. ~Open => header.depth = 0
    BY <1>1, <1>3 DEF NoHeader, Open
  <2> QED BY <2>1, <1>3, <1>4, <1>5 DEF LevelsOK
<1>10. FilledOK
  BY <1>1, <1>3, <1>5 DEF FilledOK
<1>11. LeavesOK
  <2> SUFFICES ASSUME NEW x \in 2 .. Top, Line[x].height = 1 PROVE x \in LeafAt
    BY DEF LeavesOK
  <2>1. x = 2 /\ Open /\ Top = 2 /\ Line[2].recs = <<>>
    BY <1>3, <1>5
  <2>2. Len(data) \in Nat /\ DOMAIN data = 1 .. Len(data)
    BY <1>6
  <2>3. LeafHolds(2, 0)
    BY <2>1, <2>2, <1>3 DEF LeafHolds
  <2>4. 0 \in 0 .. Len(data)
    BY <2>2
  <2> QED BY <2>1, <2>3, <2>4 DEF LeafAt
<1>12. IndexesOK
  BY <1>3, <1>5 DEF IndexesOK
<1>13. IndicesOK
  BY <1>1, <1>3, <1>4, <1>5 DEF IndicesOK, Points
<1>14. RootOK /\ NodesMapped
  BY <1>1, <1>3 DEF RootOK, NodesMapped
<1> QED BY <1>2, <1>7, <1>8, <1>9, <1>10, <1>11, <1>12, <1>13, <1>14 DEF TreeInv

LEMMA NextInv == TreeInv /\ [TreeNext]_treeVars => TreeInv'
<1> SUFFICES ASSUME TreeInv, [TreeNext]_treeVars PROVE TreeInv'
  OBVIOUS
<1>1. CASE TreeNext
  <2>1. TreeTypeOK' /\ SizesOK' /\ LinksOK' /\ LevelsOK' /\ FilledOK'
    BY <1>1, TypeStep, SizesStep, LinksStep, LevelsStep, FilledStep DEF TreeInv
  <2>2. LeavesOK' /\ IndexesOK' /\ IndicesOK' /\ RootOK' /\ NodesMapped'
    BY <1>1, LeavesStep, IndexesStep, IndicesStep, RootStep, MappedStep DEF TreeInv
  <2> QED BY <2>1, <2>2 DEF TreeInv
<1>2. CASE UNCHANGED treeVars
  <2>0. /\ data' = data /\ nodeSize' = nodeSize /\ building' = building /\ nodes' = nodes
        /\ next' = next /\ rest' = rest /\ indices' = indices /\ header' = header
        /\ mapDone' = mapDone
    BY <1>2 DEF treeVars
  <2>1. Values' = Values /\ Open' = Open /\ End' = End /\ NodeCount' = NodeCount
    BY <2>0 DEF Values, Open, End, NodeCount
  <2>2. Line' = Line /\ Top' = Top /\ MapNode' = MapNode
    BY <2>0, <2>1 DEF Line, Top, MapNode
  <2>3. TreeTypeOK'
    BY <2>0, <2>1 DEF TreeInv, TreeTypeOK, Rec, Node
  <2>4. SizesOK' /\ LinksOK' /\ LevelsOK' /\ FilledOK' /\ IndicesOK' /\ RootOK' /\ NodesMapped'
    BY <2>0, <2>1, <2>2 DEF TreeInv, SizesOK, LinksOK, Linked, LevelsOK, FilledOK, IndicesOK, RootOK,
       NodesMapped
  <2>5. LeavesOK'
    <3>1. SUFFICES ASSUME NEW x \in 2 .. Top', Line'[x].height = 1 PROVE x \in LeafAt'
      BY DEF LeavesOK
    <3>2. PICK p \in 0 .. Len(data) : LeafHolds(x, p)
      BY <2>2, <3>1, LeafWas DEF TreeInv
    <3>3. LeafHolds(x, p)'
      BY <3>2, <2>0, <2>1, <2>2 DEF LeafHolds
    <3> QED BY <3>2, <3>3, <2>0, LeafIsAt
  <2>6. IndexAt' = IndexAt
    BY <2>0, <2>1, <2>2, Zenon DEF IndexAt, IndexHolds
  <2>7. LeavesOK' /\ IndexesOK'
    BY <2>2, <2>5, <2>6 DEF TreeInv, IndexesOK
  <2> QED BY <2>3, <2>4, <2>7 DEF TreeInv
<1> QED BY <1>1, <1>2

\* While a tree is built its nodes are levels of records, in order and linked.
THEOREM TreeInvariant == TreeSpec => []TreeInv
BY InitInv, NextInv, PTL DEF TreeSpec

(***************************************************************************)
(* No node of any tree holds more than its size.                           *)
(***************************************************************************)
LEMMA InvFits == TreeInv => NodesFit
<1> SUFFICES ASSUME TreeInv PROVE NodesFit
  OBVIOUS
<1>1. \A x \in 1 .. End : Line[x].size <= nodeSize
  BY DEF TreeInv, SizesOK
<1>2. TreeTypeOK
  BY DEF TreeInv
<1>3. \A n \in DOMAIN nodes : nodes[n].size <= nodeSize
  <2>1. \A n \in 1 .. NodeCount : Line[n] = nodes[n] /\ n \in 1 .. End
    BY <1>2, LineOfNodes DEF End
  <2>2. DOMAIN nodes = 1 .. NodeCount
    BY <1>2 DEF TreeTypeOK, NodeCount
  <2> QED BY <2>1, <2>2, <1>1
<1>4. \A n \in DOMAIN next : next[n].size <= nodeSize
  <2>1. DOMAIN next = IF Open THEN {1} ELSE {}
    BY <1>2 DEF TreeTypeOK, Open
  <2>2. Open => Line[End] = next[1] /\ End \in 1 .. End
    BY <1>2, LineOfNodes
  <2> QED BY <2>1, <2>2, <1>1
<1> QED BY <1>3, <1>4 DEF NodesFit

\* No node holds more than its size, whatever the records.
THEOREM Fits == TreeSpec => []NodesFit
BY TreeInvariant, InvFits, PTL

(***************************************************************************)
(* Siblings are linked both ways, as the list grows.                       *)
(***************************************************************************)
LEMMA InvLinked == TreeInv => SiblingsLinked
<1> SUFFICES ASSUME TreeInv PROVE SiblingsLinked
  OBVIOUS
<1>1. TreeTypeOK /\ \A x \in 2 .. End - 1 : Linked(x)
  BY DEF TreeInv, LinksOK
<1>2. /\ NodeCount \in Nat /\ NodeCount <= End /\ End \in Nat
      /\ \A x \in 1 .. NodeCount : Line[x] = nodes[x]
  BY <1>1, LineOfNodes DEF End
<1> SUFFICES ASSUME NEW n \in 2 .. NodeCount - 1
             PROVE  /\ nodes[n].fLink \in {0, n}
                    /\ nodes[n].fLink = n =>
                          nodes[n+1].bLink = n - 1 /\ nodes[n+1].height = nodes[n].height
                    /\ nodes[n].fLink = 0 => nodes[n+1].height # nodes[n].height
  BY DEF SiblingsLinked
<1>3. n \in 2 .. End - 1 /\ n \in 1 .. NodeCount /\ n + 1 \in 1 .. NodeCount
  BY <1>2
<1>4. Linked(n) /\ Line[n] = nodes[n] /\ Line[n + 1] = nodes[n + 1]
  BY <1>1, <1>2, <1>3
<1> QED BY <1>4 DEF Linked

\* The siblings of every level lead to each other.
THEOREM Linking == TreeSpec => []SiblingsLinked
BY TreeInvariant, InvLinked, PTL

(***************************************************************************)
(* The bitmap of the nodes has a bit for every node.                       *)
(***************************************************************************)
THEOREM Mapping == TreeSpec => []NodesMapped
<1>1. TreeInv => NodesMapped
  BY DEF TreeInv
<1> QED BY <1>1, TreeInvariant, PTL
-----------------------------------------------------------------------------
\* A set of positions has a last one.
LEMMA LastOf ==
    ASSUME NEW n \in Nat, NEW S \in SUBSET (1 .. n), S # {}
    PROVE  \E i \in S : \A j \in S : j <= i
<1> DEFINE T == {m \in Nat : \A U \in SUBSET (1 .. m) : U # {} => \E i \in U : \A j \in U : j <= i}
<1>1. 0 \in T
  <2>1. 1 .. 0 = {}
    OBVIOUS
  <2>2. \A U \in SUBSET (1 .. 0) : U = {}
    BY <2>1
  <2> QED BY <2>2
<1>2. ASSUME NEW m \in T PROVE m + 1 \in T
  <2> SUFFICES ASSUME NEW U \in SUBSET (1 .. m + 1), U # {}
               PROVE  \E i \in U : \A j \in U : j <= i
    OBVIOUS
  <2>1. CASE m + 1 \in U
    BY <2>1
  <2>2. CASE m + 1 \notin U
    <3>1. U \in SUBSET (1 .. m)
      BY <2>2
    <3> QED BY <3>1
  <2> QED BY <2>1, <2>2
<1>3. T = Nat
  <2>1. T \in SUBSET Nat
    OBVIOUS
  <2> HIDE DEF T
  <2> QED BY <2>1, <1>1, <1>2, NatSetInduction
<1> QED BY <1>3

\* The record a reader follows is the last one whose key is not above its own.
LEMMA FollowedIs ==
    ASSUME NEW node, NEW key, node.recs \in Seq(Rec), node.recs # <<>>,
           ~KeyLess(key, node.recs[1].key), NEW f, f = Followed(node, key)
    PROVE  /\ f \in 1 .. Len(node.recs) /\ ~KeyLess(key, node.recs[f].key)
           /\ f < Len(node.recs) => KeyLess(key, node.recs[f + 1].key)
<1> DEFINE l == Len(node.recs)
           upTo == {i \in DOMAIN node.recs : ~KeyLess(key, node.recs[i].key)}
<1>1. l \in Nat \ {0} /\ DOMAIN node.recs = 1 .. l
  OBVIOUS
<1>2. 1 \in upTo
  BY <1>1
<1>3. f = CHOOSE i \in upTo : \A j \in upTo : j <= i
  BY <1>2 DEF Followed
<1>4. upTo \in SUBSET (1 .. l) /\ upTo # {}
  BY <1>1, <1>2
<1>5. \E i \in upTo : \A j \in upTo : j <= i
  <2> HIDE DEF upTo, l
  <2> QED BY <1>1, <1>4, LastOf
<1>6. f \in upTo /\ \A j \in upTo : j <= f
  <2> HIDE DEF upTo
  <2> QED BY <1>3, <1>5
<1>7. f \in 1 .. l /\ ~KeyLess(key, node.recs[f].key)
  BY <1>6, <1>1
<1>8. f < l => KeyLess(key, node.recs[f + 1].key)
  <2> SUFFICES ASSUME f < l, ~KeyLess(key, node.recs[f + 1].key) PROVE FALSE
    OBVIOUS
  <2>1. f + 1 \in 1 .. l
    BY <1>1, <1>7
  <2>2. f + 1 \in upTo
    BY <2>1, <1>1
  <2> HIDE DEF upTo
  <2> QED BY <2>2, <1>6, <1>7
<1> QED BY <1>7, <1>8

\* There is a node of each level on the way down.
LEMMA DescentIs ==
    ASSUME NEW ns, NEW head, NEW key, head.depth \in Nat, NEW path, path = Descent(ns, head, key)
    PROVE  path = [l \in 1 .. head.depth |->
                     IF l = 1 THEN ns[head.root + 1]
                     ELSE ns[path[l-1].recs[Followed(path[l-1], key)].value + 1]]
<1> DEFINE Step(node) == ns[node.recs[Followed(node, key)].value + 1]
           T == {n \in Nat : \E f : f = [l \in 1 .. n |-> IF l = 1 THEN ns[head.root + 1]
                                                          ELSE Step(f[l-1])]}
<1>1. 0 \in T
  <2> DEFINE g == [l \in 1 .. 0 |-> 0]
  <2>1. g = [l \in 1 .. 0 |-> IF l = 1 THEN ns[head.root + 1] ELSE Step(g[l-1])]
    OBVIOUS
  <2> QED BY <2>1
<1>2. ASSUME NEW n \in T PROVE n + 1 \in T
  <2>1. PICK f : f = [l \in 1 .. n |-> IF l = 1 THEN ns[head.root + 1] ELSE Step(f[l-1])]
    OBVIOUS
  <2> DEFINE g == [l \in 1 .. n + 1 |-> IF l = n + 1
                                        THEN IF n = 0 THEN ns[head.root + 1] ELSE Step(f[n])
                                        ELSE f[l]]
  <2>2. \A l \in 1 .. n + 1 : g[l] = IF l = 1 THEN ns[head.root + 1] ELSE Step(g[l-1])
    <3> SUFFICES ASSUME NEW l \in 1 .. n + 1
                 PROVE  g[l] = IF l = 1 THEN ns[head.root + 1] ELSE Step(g[l-1])
      OBVIOUS
    <3> HIDE DEF Step
    <3>1. CASE l = n + 1 /\ n = 0
      BY <3>1
    <3>2. CASE l = n + 1 /\ n # 0
      <4>1. g[l] = Step(f[n]) /\ l # 1 /\ l - 1 = n /\ n \in 1 .. n + 1 /\ n # n + 1
        BY <3>2
      <4>2. g[n] = f[n]
        BY <4>1
      <4> QED BY <4>1, <4>2
    <3>3. CASE l # n + 1
      <4>1. l \in 1 .. n /\ g[l] = f[l]
        BY <3>3
      <4>2. f[l] = IF l = 1 THEN ns[head.root + 1] ELSE Step(f[l-1])
        BY <2>1, <4>1
      <4>3. l # 1 => l - 1 \in 1 .. n + 1 /\ l - 1 # n + 1
        BY <4>1
      <4>4. l # 1 => g[l-1] = f[l-1]
        BY <4>3
      <4> QED BY <4>1, <4>2, <4>4
    <3> QED BY <3>1, <3>2, <3>3
  <2>3. g = [l \in 1 .. n + 1 |-> IF l = 1 THEN ns[head.root + 1] ELSE Step(g[l-1])]
    BY <2>2
  <2> HIDE DEF g, Step
  <2> QED BY <2>3
<1>3. T = Nat
  <2>1. T \in SUBSET Nat
    OBVIOUS
  <2> HIDE DEF T
  <2> QED BY <2>1, <1>1, <1>2, NatSetInduction
<1>4. \E f : f = [l \in 1 .. head.depth |-> IF l = 1 THEN ns[head.root + 1] ELSE Step(f[l-1])]
  BY <1>3
<1>5. path = CHOOSE f : f = [l \in 1 .. head.depth |-> IF l = 1 THEN ns[head.root + 1] ELSE Step(f[l-1])]
  BY DEF Descent
<1> QED BY <1>4, <1>5
-----------------------------------------------------------------------------
(***************************************************************************)
(* A search in a finished tree.  The node it has reached begins with a key *)
(* that is not above the one looked for, and the next one of that level    *)
(* with one that is.                                                       *)
(***************************************************************************)
Reaches(x, l, key) ==
    /\ x \in 2 .. Top
    /\ Line[x].height = header.depth - l + 1
    /\ ~KeyLess(key, Line[x].recs[1].key)
    /\ x # Top /\ Line[x + 1].height = Line[x].height => KeyLess(key, Line[x + 1].recs[1].key)

\* The order of the keys is the order of the records.
LEMMA KeyOrder ==
    ASSUME TreeTypeOK, NEW i \in DOMAIN data, NEW j \in DOMAIN data
    PROVE  KeyLess(data[i].key, data[j].key) <=> i < j
<1>1. SortedKeys(data) /\ data \in Seq(Rec)
  BY DEF TreeTypeOK, IsMap
<1>2. data[i].key \in Int \X Int /\ data[j].key \in Int \X Int /\ i \in Int /\ j \in Int
  BY <1>1, RecFields
<1>3. i < j => KeyLess(data[i].key, data[j].key)
  BY <1>1 DEF SortedKeys
<1>4. j < i => KeyLess(data[j].key, data[i].key)
  BY <1>1 DEF SortedKeys
<1>5. PICK a, b : a = data[i].key /\ b = data[j].key
  OBVIOUS
<1>6. ~KeyLess(a, a) /\ ~(KeyLess(a, b) /\ KeyLess(b, a))
  BY <1>2, <1>5 DEF KeyLess
<1>7. i < j \/ j < i \/ i = j
  BY <1>2
<1> QED BY <1>3, <1>4, <1>5, <1>6, <1>7

\* What a finished tree is like.
LEMMA FinishedTree ==
    ASSUME TreeInv, building = "built"
    PROVE  /\ ~Open /\ Top \in Nat /\ Top <= End /\ Top = header.root + 1 /\ header.depth = Line[Top].height
           /\ \A x \in 1 .. End : Line[x] = nodes[x] /\ Line[x].recs \in Seq(Rec) /\ Line[x].height \in Nat
           /\ \A x \in 2 .. Top : Line[x].recs # <<>> /\ Line[x].height > 0
<1>1. ~Open /\ TreeTypeOK /\ LevelsOK /\ FilledOK
  BY DEF TreeInv, Open
<1>2. End = NodeCount /\ Top = header.root + 1
  BY <1>1 DEF End, Top
<1>3. \A x \in 1 .. End : Line[x] = nodes[x] /\ Line[x].recs \in Seq(Rec) /\ Line[x].height \in Nat
  BY <1>1, <1>2, LineOfNodes, NodeFields
<1>4. Top \in 1 .. End /\ header.depth = Line[Top].height /\ \A x \in 2 .. Top : Line[x].height > 0
  BY <1>1 DEF LevelsOK
<1>5. \A x \in 2 .. Top : Line[x].recs # <<>>
  BY <1>1 DEF FilledOK
<1>6. Top \in Nat /\ Top <= End
  <2>1. End \in Nat
    BY <1>1, LineOfNodes
  <2> QED BY <2>1, <1>4
<1> QED BY <1>1, <1>2, <1>3, <1>4, <1>5, <1>6

\* From an index node the search goes on in the right node below.
LEMMA ReachesBelow ==
    ASSUME TreeInv, building = "built", NEW key, NEW l \in Nat \ {0}, l + 1 <= header.depth,
           NEW x, Reaches(x, l, key), NEW f, f = Followed(Line[x], key)
    PROVE  LET y == Line[x].recs[f].value + 1
           IN  y \in 1 .. End /\ Reaches(y, l + 1, key)
<1> DEFINE recs == Line[x].recs
           y == recs[f].value + 1
<1>1. /\ ~Open /\ Top \in Nat /\ Top <= End /\ header.depth = Line[Top].height
      /\ \A z \in 1 .. End : Line[z] = nodes[z] /\ Line[z].recs \in Seq(Rec) /\ Line[z].height \in Nat
      /\ \A z \in 2 .. Top : Line[z].recs # <<>> /\ Line[z].height > 0
      /\ End \in Nat
  BY FinishedTree, LineOfNodes DEF TreeInv
<1>2. /\ x \in 2 .. Top /\ x \in Nat
      /\ Line[x].height = header.depth - l + 1
      /\ ~KeyLess(key, recs[1].key)
      /\ x # Top /\ Line[x + 1].height = Line[x].height => KeyLess(key, Line[x + 1].recs[1].key)
  BY <1>1 DEF Reaches
<1>3. PICK h : h = Line[x].height - 1
  OBVIOUS
<1>4. header.depth \in Nat
  BY DEF TreeInv, TreeTypeOK
<1>5. h \in Nat \ {0} /\ Line[x].height = h + 1 /\ Line[x].height > 1 /\ h = header.depth - (l + 1) + 1
  BY <1>2, <1>3, <1>4
<1>6. IndexHolds(x, h)
  BY <1>2, <1>3, <1>5, IndexWas DEF TreeInv
<1>7. recs \in Seq(Rec) /\ recs # <<>> /\ Len(recs) \in Nat /\ DOMAIN recs = 1 .. Len(recs)
  BY <1>1, <1>2
<1>8. /\ f \in 1 .. Len(recs) /\ ~KeyLess(key, recs[f].key)
      /\ f < Len(recs) => KeyLess(key, recs[f + 1].key)
  BY <1>2, <1>7, FollowedIs
<1>9. /\ Points(Line, recs, h, x)
      /\ x # Top /\ Line[x + 1].height = h + 1 /\ Line[x + 1].recs # <<>> =>
            Line[x + 1].recs[1].value = recs[Len(recs)].value + 1
      /\ x # Top /\ Line[x + 1].height # h + 1 => PointsToLast(Line, recs, h)
      /\ x = Top => PointsToLast(Line, recs, h)
  BY <1>1, <1>6 DEF IndexHolds
<1> HIDE DEF recs
<1>10. \A j \in 1 .. Len(recs) :
        /\ recs[j].value \in 1 .. x - 2
        /\ recs[j].value = recs[1].value + j - 1
        /\ Line[recs[j].value + 1].height = h
        /\ recs[j].key = Line[recs[j].value + 1].recs[1].key
  BY <1>7, <1>9 DEF Points
<1>11. PICK v : v = recs[f].value
  OBVIOUS
<1>12. /\ v \in 1 .. x - 2 /\ v = recs[1].value + f - 1 /\ Line[v + 1].height = h
       /\ recs[f].key = Line[v + 1].recs[1].key
  BY <1>8, <1>10, <1>11
<1>13. v + 1 \in 2 .. Top /\ v + 1 \in 1 .. End /\ v + 1 # Top
  <2>1. v \in Nat \ {0} /\ v + 2 <= x /\ x <= Top /\ Top <= End /\ x \in Nat /\ Top \in Nat /\ End \in Nat
    BY <1>1, <1>2, <1>12, SMTT(30)
  <2> QED BY <2>1
<1>14. ASSUME Line[v + 2].height = h PROVE KeyLess(key, Line[v + 2].recs[1].key)
  <2>1. CASE f < Len(recs)
    <3>1. f + 1 \in 1 .. Len(recs) /\ 1 \in 1 .. Len(recs)
      BY <2>1, <1>7, <1>8
    <3>2. PICK w, u : w = recs[f + 1].value /\ u = recs[1].value
      OBVIOUS
    <3>3. w = u + (f + 1) - 1 /\ v = u + f - 1 /\ u \in Nat /\ f \in Nat
      <4>1. f \in Nat
        BY <1>7, <1>8
      <4>2. u \in 1 .. x - 2
        BY <3>1, <3>2, <1>10
      <4>3. w = u + (f + 1) - 1
        BY <3>1, <3>2, <1>10
      <4> QED BY <4>1, <4>2, <4>3, <3>2, <1>12
    <3>4. w + 1 = v + 2
      BY <3>3
    <3>5. recs[f + 1].key = Line[w + 1].recs[1].key
      BY <3>1, <3>2, <1>10
    <3> QED BY <3>4, <3>5, <2>1, <1>8
  <2>2. CASE f = Len(recs)
    <3>1. ~PointsToLast(Line, recs, h)
      BY <2>2, <1>5, <1>7, <1>11, <1>14 DEF PointsToLast
    <3>2. x # Top /\ Line[x + 1].height = h + 1
      BY <3>1, <1>9
    <3>3. x + 1 \in 2 .. Top /\ x + 1 \in 1 .. End
      BY <3>2, <1>1, <1>2
    <3>4. KeyLess(key, Line[x + 1].recs[1].key)
      BY <3>2, <1>2, <1>5
    <3>5. Line[x + 1].recs # <<>> /\ Line[x + 1].recs \in Seq(Rec)
      BY <3>3, <1>1
    <3>6. Line[x + 1].recs[1].value = v + 1
      BY <3>2, <3>5, <2>2, <1>9, <1>11
    <3>7. IndexHolds(x + 1, h)
      <4>1. Line[x + 1].height > 1 /\ h = Line[x + 1].height - 1
        BY <3>2, <1>5
      <4> QED BY <4>1, <3>3, IndexWas DEF TreeInv
    <3>8. Points(Line, Line[x + 1].recs, h, x + 1)
      BY <3>7 DEF IndexHolds
    <3>9. 1 \in DOMAIN Line[x + 1].recs
      BY <3>5
    <3>10. Line[x + 1].recs[1].key = Line[Line[x + 1].recs[1].value + 1].recs[1].key
      BY <3>8, <3>9 DEF Points
    <3>11. v + 1 + 1 = v + 2
      BY <1>12
    <3> QED BY <3>4, <3>6, <3>10, <3>11
  <2> QED BY <2>1, <2>2, <1>7, <1>8
<1>15. v + 1 + 1 = v + 2
  BY <1>12
<1>16. Reaches(v + 1, l + 1, key)
  BY <1>5, <1>8, <1>12, <1>13, <1>14, <1>15 DEF Reaches
<1> QED BY <1>11, <1>13, <1>16 DEF recs

\* In a leaf it finds the record.
LEMMA FoundInLeaf ==
    ASSUME TreeInv, building = "built", NEW i \in DOMAIN data,
           NEW x, Reaches(x, header.depth, data[i].key), NEW f, f = Followed(Line[x], data[i].key)
    PROVE  Line[x].kind = "leaf" /\ Line[x].recs[f] = data[i]
<1> DEFINE recs == Line[x].recs
           key == data[i].key
<1>1. /\ ~Open /\ Top \in Nat /\ Top <= End
      /\ \A z \in 1 .. End : Line[z] = nodes[z] /\ Line[z].recs \in Seq(Rec) /\ Line[z].height \in Nat
      /\ \A z \in 2 .. Top : Line[z].recs # <<>> /\ Line[z].height > 0
      /\ TreeTypeOK /\ header.depth \in Nat /\ data \in Seq(Rec)
  BY FinishedTree DEF TreeInv, TreeTypeOK
<1>2. /\ x \in 2 .. Top /\ x \in Nat /\ x \in 1 .. End
      /\ Line[x].height = 1
      /\ ~KeyLess(key, recs[1].key)
      /\ x # Top /\ Line[x + 1].height = 1 => KeyLess(key, Line[x + 1].recs[1].key)
  <2>1. header.depth - header.depth + 1 = 1
    BY <1>1
  <2>2. x \in 2 .. Top /\ Line[x].height = 1
    BY <2>1 DEF Reaches
  <2>3. x \in Nat /\ x \in 1 .. End
    <3>1. End \in Nat
      BY <1>1, LineOfNodes
    <3> QED BY <3>1, <2>2, <1>1
  <2> QED BY <2>2, <2>3 DEF Reaches
<1>3. Line[x].kind = "leaf"
  BY <1>2 DEF TreeInv, LevelsOK
<1>4. recs \in Seq(Rec) /\ recs # <<>> /\ Len(recs) \in Nat /\ DOMAIN recs = 1 .. Len(recs)
  BY <1>1, <1>2
<1>5. /\ f \in 1 .. Len(recs) /\ ~KeyLess(key, recs[f].key)
      /\ f < Len(recs) => KeyLess(key, recs[f + 1].key)
  BY <1>2, <1>4, FollowedIs
<1>6. PICK p \in 0 .. Len(data) : p \in Nat /\ LeafHolds(x, p)
  BY <1>1, <1>2, LeafWas DEF TreeInv
<1>7. /\ p + Len(recs) <= Len(data)
      /\ \A j \in 1 .. Len(recs) : recs[j] = data[p + j]
      /\ x # Top /\ Line[x + 1].height = 1 /\ Line[x + 1].recs # <<>> =>
            /\ p + Len(recs) < Len(data)
            /\ Line[x + 1].recs[1] = data[p + Len(recs) + 1]
      /\ x # Top /\ Line[x + 1].height # 1 => p + Len(recs) = Len(data)
      /\ x = Top => p + Len(recs) = Len(data)
  BY <1>1, <1>4, <1>6 DEF LeafHolds
<1>8. Len(data) \in Nat /\ DOMAIN data = 1 .. Len(data) /\ i \in 1 .. Len(data)
  BY <1>1
<1>9. x # Top => Line[x + 1].recs # <<>>
  BY <1>1, <1>2
<1> HIDE DEF recs
<1>10. p + f <= i
  <2>1. p + f \in DOMAIN data /\ recs[f] = data[p + f]
    <3>1. f \in Nat \ {0} /\ f <= Len(recs) /\ p + Len(recs) <= Len(data)
      BY <1>4, <1>5, <1>7
    <3>2. p + f \in 1 .. Len(data)
      BY <3>1, <1>4, <1>6, <1>8
    <3> QED BY <3>2, <1>5, <1>7, <1>8
  <2>2. ~(i < p + f)
    BY <2>1, <1>1, <1>5, KeyOrder
  <2> QED BY <2>1, <2>2, <1>8
<1>11. i < p + f + 1
  <2>1. CASE f < Len(recs)
    <3>1. p + (f + 1) \in DOMAIN data /\ f + 1 \in 1 .. Len(recs)
      <4>1. f \in Nat /\ f + 1 <= Len(recs) /\ p + Len(recs) <= Len(data)
        BY <2>1, <1>4, <1>5, <1>7
      <4>2. p + (f + 1) \in 1 .. Len(data)
        BY <4>1, <1>4, <1>6, <1>8
      <4> QED BY <4>1, <4>2, <1>4, <1>8
    <3>2. recs[f + 1] = data[p + (f + 1)] /\ KeyLess(key, recs[f + 1].key)
      BY <3>1, <2>1, <1>5, <1>7
    <3>3. i < p + (f + 1)
      BY <3>1, <3>2, <1>1, KeyOrder
    <3> QED BY <3>3, <1>5, <1>6
  <2>2. CASE f = Len(recs) /\ p + Len(recs) = Len(data)
    BY <2>2, <1>4, <1>6, <1>8
  <2>3. CASE f = Len(recs) /\ p + Len(recs) # Len(data)
    <3>1. x # Top /\ Line[x + 1].height = 1
      BY <2>3, <1>7
    <3>2. /\ p + Len(recs) < Len(data) /\ Line[x + 1].recs[1] = data[p + Len(recs) + 1]
          /\ KeyLess(key, Line[x + 1].recs[1].key)
      BY <3>1, <1>2, <1>7, <1>9
    <3>3. p + Len(recs) + 1 \in DOMAIN data
      BY <3>2, <1>4, <1>6, <1>8
    <3>4. i < p + Len(recs) + 1
      BY <3>2, <3>3, <1>1, KeyOrder
    <3> QED BY <3>4, <2>3
  <2> QED BY <2>1, <2>2, <2>3, <1>4, <1>5
<1>12. i = p + f
  BY <1>5, <1>6, <1>8, <1>10, <1>11
<1>13. recs[f] = data[i]
  BY <1>5, <1>7, <1>12
<1> QED BY <1>3, <1>13 DEF recs

(***************************************************************************)
(* The finished tree answers for every key.                                *)
(***************************************************************************)
LEMMA InvFound == TreeInv => KeysFound
<1> SUFFICES ASSUME TreeInv, building = "built", NEW i \in DOMAIN data
             PROVE  Find(nodes, header, data[i].key) = <<data[i].value>>
  BY DEF KeysFound
<1> DEFINE key == data[i].key
           d == header.depth
           path == Descent(nodes, header, key)
           T == {l \in Nat : l + 1 <= d => \E x \in 2 .. Top : path[l + 1] = nodes[x] /\ Reaches(x, l + 1, key)}
<1>1. /\ ~Open /\ Top \in Nat /\ Top <= End /\ Top = header.root + 1 /\ d = Line[Top].height
      /\ \A z \in 1 .. End : Line[z] = nodes[z] /\ Line[z].recs \in Seq(Rec) /\ Line[z].height \in Nat
      /\ \A z \in 2 .. Top : Line[z].recs # <<>> /\ Line[z].height > 0
      /\ TreeTypeOK /\ d \in Nat /\ data \in Seq(Rec) /\ data # <<>>
  BY FinishedTree DEF TreeInv, TreeTypeOK
<1>2. Top > 1 /\ Top \in 2 .. Top
  <2>1. Top > 1
    BY <1>1 DEF TreeInv, LevelsOK
  <2> QED BY <2>1, <1>1
<1>3. d \in Nat \ {0}
  BY <1>1, <1>2
<1>4. path = [l \in 1 .. d |->
                IF l = 1 THEN nodes[header.root + 1]
                ELSE nodes[path[l-1].recs[Followed(path[l-1], key)].value + 1]]
  <2>1. header.depth \in Nat /\ path = Descent(nodes, header, key)
    BY <1>3
  <2> HIDE DEF path, key
  <2> QED BY <2>1, DescentIs
<1> HIDE DEF path
<1>5. 0 \in T
  <2>1. path[1] = nodes[Top]
    BY <1>1, <1>3, <1>4
  <2>2. Line[Top].recs[1].key = data[1].key
    BY <1>1 DEF TreeInv, RootOK
  <2>3. ~KeyLess(key, data[1].key)
    <3>1. 1 \in DOMAIN data /\ i \in Nat /\ ~(i < 1)
      BY <1>1
    <3> QED BY <3>1, <1>1, KeyOrder
  <2>4. Line[Top].height = d - 1 + 1
    BY <1>1
  <2>5. Reaches(Top, 1, key)
    BY <2>2, <2>3, <2>4, <1>2 DEF Reaches
  <2>6. 0 + 1 = 1
    OBVIOUS
  <2> HIDE DEF d, key
  <2> QED BY <2>1, <2>5, <2>6, <1>2
<1>6. ASSUME NEW n \in T PROVE n + 1 \in T
  <2>1. n \in Nat
    OBVIOUS
  <2>2. SUFFICES ASSUME n + 1 + 1 <= d
                 PROVE  \E x \in 2 .. Top : path[n + 1 + 1] = nodes[x] /\ Reaches(x, n + 1 + 1, key)
    BY <2>1
  <2>3. n + 1 <= d
    BY <2>1, <2>2, <1>3
  <2>4. PICK x \in 2 .. Top : path[n + 1] = nodes[x] /\ Reaches(x, n + 1, key)
    BY <2>3
  <2>5. PICK l : l = n + 1
    OBVIOUS
  <2>6. l \in Nat \ {0} /\ l + 1 <= d /\ path[l] = nodes[x] /\ Reaches(x, l, key)
    BY <2>1, <2>2, <2>4, <2>5
  <2>7. nodes[x] = Line[x]
    <3>1. x \in 1 .. End
      <4>1. End \in Nat
        BY <1>1, LineOfNodes
      <4> QED BY <4>1, <1>1
    <3> QED BY <3>1, <1>1
  <2> HIDE DEF T
  <2>8. PICK f : f = Followed(Line[x], key)
    OBVIOUS
  <2>9. PICK y : y = Line[x].recs[f].value + 1
    OBVIOUS
  <2>10. y \in 1 .. End /\ Reaches(y, l + 1, key)
    BY <2>6, <2>8, <2>9, ReachesBelow
  <2>11. y \in 2 .. Top
    BY <2>10 DEF Reaches
  <2>12. path[l + 1] = nodes[y]
    <3>1. l + 1 \in 1 .. d /\ l + 1 # 1 /\ (l + 1) - 1 = l
      BY <2>6, <1>3
    <3>2. path[l + 1] = nodes[path[l].recs[Followed(path[l], key)].value + 1]
      BY <3>1, <1>4
    <3> QED BY <3>2, <2>6, <2>7, <2>8, <2>9
  <2> QED BY <2>5, <2>10, <2>11, <2>12
<1>7. T = Nat
  <2>1. T \in SUBSET Nat
    OBVIOUS
  <2> HIDE DEF T
  <2> QED BY <2>1, <1>5, <1>6, NatSetInduction
<1>8. PICK x \in 2 .. Top : path[d] = nodes[x] /\ Reaches(x, d, key)
  <2>1. d - 1 \in T /\ (d - 1) + 1 = d
    BY <1>3, <1>7
  <2> HIDE DEF d
  <2> QED BY <2>1, <1>3
<1>9. nodes[x] = Line[x]
  <2>1. x \in 1 .. End
    <3>1. End \in Nat
      BY <1>1, LineOfNodes
    <3> QED BY <3>1, <1>1
  <2> QED BY <2>1, <1>1
<1>10. PICK f : f = Followed(Line[x], key)
  OBVIOUS
<1>11. Line[x].kind = "leaf" /\ Line[x].recs[f] = data[i]
  BY <1>8, <1>10, FoundInLeaf
<1>12. Search(nodes, header, key) = <<data[i]>>
  BY <1>3, <1>8, <1>9, <1>10, <1>11 DEF Search, path
<1> HIDE DEF key
<1>13. Find(nodes, header, key) = <<data[i].value>>
  <2>1. <<data[i]>> # <<>> /\ <<data[i]>>[1] = data[i]
    OBVIOUS
  <2> QED BY <2>1, <1>12 DEF Find, key
<1> QED BY <1>13 DEF key

\* Each key of the map is found from the root of the finished tree.
THEOREM Finding == TreeSpec => []KeysFound
BY TreeInvariant, InvFound, PTL
-----------------------------------------------------------------------------
\* Quotient and remainder.
LEMMA NatDivision ==
    ASSUME NEW a \in Nat, NEW b \in Nat \ {0}
    PROVE  a \div b \in Nat /\ a % b \in 0 .. b - 1 /\ a = b * (a \div b) + (a % b)
OBVIOUS

\* A quotient is the number whose multiples enclose the dividend.
LEMMA Quotient ==
    ASSUME NEW a \in Nat, NEW b \in Nat \ {0}, NEW q \in Nat,
           b * q <= a, a < b * q + b
    PROVE  a \div b = q
<1>1. a \div b \in Nat /\ b * (a \div b) <= a /\ a < b * (a \div b) + b
  BY NatDivision
<1> DEFINE p == a \div b
<1>2. p \in Nat /\ b * p <= a /\ a < b * p + b
  BY <1>1
<1> HIDE DEF p
<1>3. ~(p < q)
  <2> SUFFICES ASSUME p < q PROVE FALSE
    OBVIOUS
  <2>1. p + 1 <= q
    BY <1>2
  <2>2. b * (p + 1) <= b * q
    BY <2>1, <1>2
  <2>3. b * (p + 1) = b * p + b
    BY <1>2
  <2> QED BY <2>2, <2>3, <1>2
<1>4. ~(q < p)
  <2> SUFFICES ASSUME q < p PROVE FALSE
    OBVIOUS
  <2>1. q + 1 <= p
    BY <1>2
  <2>2. b * (q + 1) <= b * p
    BY <2>1, <1>2
  <2>3. b * (q + 1) = b * q + b
    OBVIOUS
  <2> QED BY <2>2, <2>3, <1>2
<1> QED BY <1>2, <1>3, <1>4 DEF p

(***************************************************************************)
(* A volume of n blocks needs one block of estimate for every width - 1 of     *)
(* them, and one more: k and r are their quotient and remainder.           *)
(***************************************************************************)
LEMMA EstimateIs ==
    ASSUME NEW blk \in Nat \ {0}, NEW n \in Nat, NEW k \in Nat, NEW r \in Nat,
           n = k * (blk * BitsPerByte - 1) + r,
           r < blk * BitsPerByte - 1
    PROVE  Estimate(n * blk, blk) = n + k + 2
<1> DEFINE w == blk * BitsPerByte
<1>1. w \in Nat \ {0, 1}
  BY BitsAssumption
<1>2. n * blk * BitsPerByte = n * w
  BY BitsAssumption
<1> HIDE DEF w
<1>3. n * w = (w - 1) * n + n
  BY <1>1
<1>4. (n * w) \div (w - 1) = n + k
  <2>1. (w - 1) * (n + k) = (w - 1) * n + k * (w - 1)
    BY <1>1
  <2>2. (w - 1) * (n + k) <= n * w
    BY <2>1, <1>1, <1>3 DEF w
  <2>3. n * w < (w - 1) * (n + k) + (w - 1)
    BY <2>1, <1>1, <1>3 DEF w
  <2>4. n * w \in Nat /\ w - 1 \in Nat \ {0} /\ n + k \in Nat
    BY <1>1
  <2> QED BY <2>2, <2>3, <2>4, Quotient
<1> QED BY <1>2, <1>4 DEF Estimate, w

\* The bitmap of a volume takes one block for every width of estimate begun.
LEMMA BitmapLenIs ==
    ASSUME NEW blk \in Nat \ {0}, NEW k \in Nat, NEW s \in Nat \ {0},
           s <= blk * BitsPerByte
    PROVE  BitmapLen(k * (blk * BitsPerByte) + s, blk) = (k + 1) * blk
<1> DEFINE K == BitsPerByte
           e == k * (blk * K) + s
           c == (e + K - 1) \div K
           t == (s + K - 1) \div K
<1>1. K \in Nat \ {0}
  BY BitsAssumption
<1>2. t \in Nat /\ K * t <= s + K - 1 /\ s + K - 1 < K * t + K
  <2>1. s + K - 1 \in Nat
    BY <1>1
  <2>2. /\ t \in Nat
        /\ (s + K - 1) % K \in 0 .. K - 1
        /\ s + K - 1 = K * t + ((s + K - 1) % K)
    <3> HIDE DEF K
    <3> QED BY <1>1, <2>1, NatDivision
  <2> HIDE DEF t, K
  <2> QED BY <1>1, <2>2
<1>3. 1 <= t /\ t <= blk
  <2> HIDE DEF t, K
  <2>1. t # 0
    BY <1>1, <1>2
  <2>2. ~(blk + 1 <= t)
    <3> SUFFICES ASSUME blk + 1 <= t PROVE FALSE
      OBVIOUS
    <3>1. K * (blk + 1) <= K * t
      BY <1>1, <1>2
    <3>2. K * (blk + 1) = blk * K + K
      BY <1>1
    <3>3. s <= blk * K
      BY DEF K
    <3> QED BY <3>1, <3>2, <3>3, <1>1, <1>2
  <2> QED BY <2>1, <2>2, <1>2
<1>4. c = k * blk + t
  <2> HIDE DEF t, K
  <2>1. K * (k * blk + t) = k * (blk * K) + K * t
    BY <1>1, <1>2
  <2>2. e + K - 1 \in Nat /\ k * blk + t \in Nat
    BY <1>1, <1>2
  <2>3. K * (k * blk + t) <= e + K - 1
    BY <2>1, <1>2, <1>1
  <2>4. e + K - 1 < K * (k * blk + t) + K
    BY <2>1, <1>2, <1>1
  <2> HIDE DEF e
  <2> QED BY <2>2, <2>3, <2>4, <1>1, Quotient
<1>5. (c + blk - 1) \div blk = k + 1
  <2> HIDE DEF t, c
  <2>1. c + blk - 1 \in Nat /\ k + 1 \in Nat
    BY <1>2, <1>3, <1>4
  <2>2. blk * (k + 1) <= c + blk - 1
    BY <1>2, <1>3, <1>4
  <2>3. c + blk - 1 < blk * (k + 1) + blk
    BY <1>2, <1>3, <1>4
  <2> QED BY <2>1, <2>2, <2>3, Quotient
<1> QED BY <1>5 DEF BitmapLen, RoundedUp, ByteCount

\* The bitmap has a block more than it fills, of w bits each.
LEMMA BitmapIs ==
    ASSUME NEW blk \in Nat, blk * BitsPerByte > 1, NEW n \in Nat
    PROVE  LET w == blk * BitsPerByte
               estimate == Estimate(n * blk, blk)
               len == BitmapLen(estimate, blk)
           IN  \E k \in Nat : /\ len = (k + 1) * blk /\ estimate = n + k + 2
                              /\ k * w <= estimate /\ estimate <= k * w + w
<1> DEFINE w == blk * BitsPerByte
           k == n \div (w - 1)
           r == n % (w - 1)
           estimate == Estimate(n * blk, blk)
           len == BitmapLen(estimate, blk)
<1>1. blk \in Nat \ {0} /\ BitsPerByte \in Nat \ {0} /\ w \in Nat \ {0, 1}
  BY BitsAssumption
<1>2. k \in Nat /\ r \in Nat /\ r < w - 1 /\ n = k * (w - 1) + r
  <2> HIDE DEF w
  <2>1. w - 1 \in Nat \ {0}
    BY <1>1
  <2>2. k \in Nat /\ r \in 0 .. (w - 1) - 1 /\ n = (w - 1) * k + r
    BY <2>1, NatDivision
  <2> HIDE DEF k, r
  <2> QED BY <2>1, <2>2
<1> HIDE DEF k, r
<1>3. estimate = n + k + 2
  BY <1>1, <1>2, EstimateIs DEF w
<1>4. estimate = k * w + (r + 2)
  <2> HIDE DEF w, estimate
  <2>1. k * (w - 1) = k * w - k
    BY <1>1, <1>2
  <2> QED BY <1>1, <1>2, <1>3, <2>1
<1>5. len = (k + 1) * blk
  <2>1. r + 2 \in Nat \ {0} /\ r + 2 <= w
    BY <1>1, <1>2
  <2> HIDE DEF estimate
  <2> QED BY <1>1, <1>2, <1>4, <2>1, BitmapLenIs DEF w
<1>6. k * w <= estimate /\ estimate <= k * w + w
  <2>1. k * w \in Nat
    BY <1>1, <1>2
  <2> HIDE DEF w, estimate
  <2> QED BY <1>1, <1>2, <1>4, <2>1
<1> HIDE DEF w, estimate, len
<1> QED BY <1>2, <1>3, <1>5, <1>6 DEF w, estimate, len

(***************************************************************************)
(* The allocation file of impl/hfplus.cpp covers the volume it is a part   *)
(* of, for every block size and every number n of blocks before it: the    *)
(* volume ends where it was estimated to end, with the block of the header *)
(* copy after the bitmap, and each of its blocks has a bit.                *)
(***************************************************************************)
THEOREM BitmapCoversItself ==
    ASSUME NEW blk \in Nat, blk * BitsPerByte > 1, NEW n \in Nat
    PROVE  LET estimate == Estimate(n * blk, blk)
               len == BitmapLen(estimate, blk)
               curb == (n * blk + len) \div blk
           IN  /\ curb + 1 = estimate
               /\ TotalBlocks(curb, estimate, 1) = estimate
               /\ estimate <= len * BitsPerByte
<1> DEFINE w == blk * BitsPerByte
           estimate == Estimate(n * blk, blk)
           len == BitmapLen(estimate, blk)
           curb == (n * blk + len) \div blk
<1>1. blk \in Nat \ {0} /\ BitsPerByte \in Nat \ {0} /\ w \in Nat
  BY BitsAssumption
<1>2. PICK k \in Nat : len = (k + 1) * blk /\ estimate = n + k + 2 /\ estimate <= k * w + w
  BY BitmapIs
<1> HIDE DEF estimate, len
<1>3. curb = n + k + 1
  <2>1. n * blk + len = blk * (n + k + 1)
    BY <1>1, <1>2
  <2>2. n * blk + len \in Nat /\ n + k + 1 \in Nat
    BY <1>1, <1>2
  <2> QED BY <2>1, <2>2, <1>1, Quotient
<1>4. estimate <= len * BitsPerByte
  <2>1. len * BitsPerByte = (k + 1) * w
    BY <1>1, <1>2
  <2>2. (k + 1) * w = k * w + w
    BY <1>1, <1>2
  <2> QED BY <2>1, <2>2, <1>1, <1>2
<1> HIDE DEF curb
<1> QED BY <1>2, <1>3, <1>4 DEF TotalBlocks, estimate, len, curb
-----------------------------------------------------------------------------
(***************************************************************************)
(* The catalog.  Records are keyed by parents and names, threads by inode  *)
(* numbers, which the code takes as they are but for the root and for what *)
(* does not fit a CNID.  The catalog is consistent when no two entries     *)
(* share a number and none but the root has one that HFS+ reserves, and    *)
(* when no directory has one name composed and decomposed.  The code sees  *)
(* to neither (HfsLinks.cfg shows two links, and its variants the rest).   *)
(***************************************************************************)
Entries == Files \cup Dirs

Numbered ==
    \A n \in Inodes :
        /\ \A e, f \in Entries : n[e] % CnidMod = n[f] % CnidMod => e = f
        /\ \A e \in Entries \ {Root} : n[e] % CnidMod \notin {RootParent, RootFolder}

SpeltApart == \A e, f \in DOMAIN Parent : Parent[e] = Parent[f] /\ Name[e] = Name[f] => e = f

Key(e) == <<ParentId(e), Name[e]>>

Thread(e) == <<Renum(e), 0>>

SubDirs(d) == Children(d) \cap Dirs

\* The last n directories.
LastDirs(n) == {PathTable[i] : i \in Len(PathTable) - n + 1 .. Len(PathTable)}

\* The folders are noted from the last to the first, then the files.
FoldersFirst ==
    \/ Dirs \subseteq noted
    \/ /\ Cardinality(noted) < Len(PathTable)
       /\ noted = LastDirs(Cardinality(noted))

Recorded(e) ==
    /\ catalog[Key(e)].id = Renum(e)
    /\ catalog[Key(e)].kind = IF e \in Dirs THEN "folder" ELSE "file"
    /\ e \in Dirs => /\ catalog[Key(e)].valence = Cardinality(Children(e))
                     /\ catalog[Key(e)].folders = Cardinality(SubDirs(e))

Threaded(e) == catalog[Thread(e)] = [kind |-> "thread", id |-> ParentId(e), name |-> Name[e]]

Keyed ==
    /\ DOMAIN catalog = {Key(e) : e \in noted} \cup {Thread(e) : e \in noted}
    /\ \A e \in noted : Recorded(e) /\ Threaded(e)

CatalogInv ==
    /\ ino \in Inodes
    /\ noted \subseteq Entries /\ IsFiniteSet(noted)
    /\ FoldersFirst
    /\ subFolders = [d \in Dirs |-> Cardinality(SubDirs(d) \cap noted)]
    /\ Keyed

LEMMA PathTableIs ==
    /\ Len(PathTable) \in Nat \ {0} /\ DOMAIN PathTable = 1 .. Len(PathTable)
    /\ Dirs = {PathTable[i] : i \in 1 .. Len(PathTable)}
    /\ Root = PathTable[1] /\ Root \in Dirs
    /\ \A i, j \in 1 .. Len(PathTable) : PathTable[i] = PathTable[j] => i = j
<1>1. PathTable \in Seq(Dirs) /\ PathTable # <<>>
  BY HfsAssumption
<1>2. Len(PathTable) \in Nat \ {0} /\ DOMAIN PathTable = 1 .. Len(PathTable)
  BY <1>1, EmptySeq, LenProperties
<1>3. Root = PathTable[1]
  BY <1>1 DEF Root
<1>4. Dirs = {PathTable[i] : i \in 1 .. Len(PathTable)}
  BY <1>2 DEF Dirs, ToSet
<1>5. \A i, j \in 1 .. Len(PathTable) : PathTable[i] = PathTable[j] => i = j
  BY <1>2, HfsAssumption DEF IsInjective
<1> QED BY <1>2, <1>3, <1>4, <1>5

LEMMA ParentIs ==
    /\ DOMAIN Parent = Entries \ {Root}
    /\ \A e \in Entries \ {Root} : Parent[e] \in Dirs
    /\ \A d \in Dirs : Children(d) \subseteq Entries \ {Root}
BY HfsAssumption DEF Entries, Children

LEMMA KeysApart ==
    ASSUME Numbered, SpeltApart, ino \in Inodes
    PROVE  /\ \A e, f \in Entries : Renum(e) = Renum(f) => e = f
           /\ \A e \in Entries : Renum(e) # RootParent
           /\ \A e, f \in Entries : Key(e) = Key(f) => e = f
           /\ \A e, f \in Entries : Thread(e) = Thread(f) => e = f
           /\ \A e, f \in Entries : Key(e) # Thread(f)
<1>0. Root \in Entries
  BY PathTableIs DEF Entries
<1>1. \A e, f \in Entries : Renum(e) = Renum(f) => e = f
  BY <1>0 DEF Numbered, Renum
<1>2. \A e \in Entries : Renum(e) # RootParent
  BY <1>0 DEF Numbered, Renum, RootParent, RootFolder
<1>3. ASSUME NEW e \in Entries, NEW f \in Entries, Key(e) = Key(f) PROVE e = f
  <2>1. ParentId(e) = ParentId(f) /\ Name[e] = Name[f]
    BY <1>3 DEF Key
  <2>2. CASE e = Root \/ f = Root
    BY <2>1, <2>2, <1>2, ParentIs DEF ParentId, Entries
  <2>3. CASE e # Root /\ f # Root
    <3>1. Renum(Parent[e]) = Renum(Parent[f])
      BY <2>1, <2>3 DEF ParentId
    <3>2. Parent[e] = Parent[f]
      BY <3>1, <2>3, <1>1, ParentIs DEF Entries
    <3> QED BY <3>2, <2>1, <2>3, ParentIs DEF SpeltApart
  <2> QED BY <2>2, <2>3
<1>4. \A e, f \in Entries : Thread(e) = Thread(f) => e = f
  BY <1>1 DEF Thread
<1>5. \A e, f \in Entries : Key(e) # Thread(f)
  BY HfsAssumption DEF Key, Thread, Entries
<1> QED BY <1>1, <1>2, <1>3, <1>4, <1>5

\* An entry that is noted gets its record and its thread.
LEMMA KeyedStep ==
    ASSUME Numbered, SpeltApart, ino \in Inodes, noted \subseteq Entries, Keyed, UNCHANGED ino,
           NEW e \in Entries, e \notin noted, noted' = noted \cup {e},
           NEW rec, catalog' = OnEntry(catalog, e, rec),
           rec.id = Renum(e), rec.kind = IF e \in Dirs THEN "folder" ELSE "file",
           e \in Dirs => /\ rec.valence = Cardinality(Children(e))
                         /\ rec.folders = Cardinality(SubDirs(e))
    PROVE  Keyed'
<1> DEFINE thread == [kind |-> "thread", id |-> ParentId(e), name |-> Name[e]]
           cat == Put(catalog, Key(e), rec)
<1>1. \A x : Key(x)' = Key(x) /\ Thread(x)' = Thread(x) /\ ParentId(x)' = ParentId(x)
             /\ Renum(x)' = Renum(x)
  BY DEF Key, Thread, ParentId, Renum
<1>2. \A x \in noted : Key(x) # Key(e) /\ Thread(x) # Key(e) /\ Key(x) # Thread(e)
                       /\ Thread(x) # Thread(e)
  BY KeysApart
<1>3. Key(e) # Thread(e)
  BY KeysApart
<1>4. Key(e) \notin DOMAIN catalog /\ Thread(e) \notin DOMAIN catalog
  BY <1>2 DEF Keyed
<1>5. catalog' = Inserted(Inserted(catalog, Key(e), rec), Thread(e), thread)
  BY DEF OnEntry, Key, Thread
<1>6. Inserted(catalog, Key(e), rec) = cat
  BY <1>4 DEF Inserted
<1>7. DOMAIN cat = DOMAIN catalog \cup {Key(e)}
  BY DEF Put
<1>8. catalog' = Put(cat, Thread(e), thread)
  BY <1>3, <1>4, <1>5, <1>6, <1>7 DEF Inserted
<1>9. /\ DOMAIN catalog' = DOMAIN catalog \cup {Key(e), Thread(e)}
      /\ catalog'[Key(e)] = rec /\ catalog'[Thread(e)] = thread
      /\ \A k \in DOMAIN catalog : catalog'[k] = catalog[k]
  BY <1>3, <1>4, <1>7, <1>8 DEF Put
<1>10. (DOMAIN catalog)' = {Key(x)' : x \in noted'} \cup {Thread(x)' : x \in noted'}
  BY <1>1, <1>9 DEF Keyed
<1>11. ASSUME NEW x \in noted PROVE (Recorded(x) /\ Threaded(x))'
  <2>1. catalog'[Key(x)] = catalog[Key(x)] /\ catalog'[Thread(x)] = catalog[Thread(x)]
    BY <1>9 DEF Keyed
  <2>2. Recorded(x) /\ Threaded(x)
    BY DEF Keyed
  <2> QED BY <1>1, <2>1, <2>2 DEF Recorded, Threaded
<1>12. (Recorded(e) /\ Threaded(e))'
  BY <1>1, <1>9 DEF Recorded, Threaded
<1> QED BY <1>10, <1>11, <1>12 DEF Keyed

\* All the folders in a folder are behind it in the path table.
LEMMA FoldersBehind ==
    ASSUME NEW n \in 0 .. Len(PathTable) - 1
    PROVE  /\ SubDirs(PathTable[Len(PathTable) - n]) \subseteq LastDirs(n)
           /\ PathTable[Len(PathTable) - n] \in Dirs \ LastDirs(n)
           /\ LastDirs(n + 1) = LastDirs(n) \cup {PathTable[Len(PathTable) - n]}
<1> DEFINE last == Len(PathTable)
<1>1. last \in Nat \ {0} /\ last - n \in 1 .. last
  BY PathTableIs
<1>2. ASSUME NEW i \in 1 .. last, PathTable[i] \in SubDirs(PathTable[last - n])
      PROVE  i \in last - n + 1 .. last
  <2>1. PathTable[i] # Root /\ Parent[PathTable[i]] = PathTable[last - n]
    BY <1>1, <1>2, ParentIs, PathTableIs DEF SubDirs, Children
  <2>2. PICK j \in 1 .. i - 1 : PathTable[j] = Parent[PathTable[i]]
    BY <2>1, PathTableIs, HfsAssumption
  <2>3. j \in 1 .. last /\ PathTable[j] = PathTable[last - n]
    BY <1>1, <2>1, <2>2
  <2>4. j = last - n
    BY <1>1, <2>3, PathTableIs
  <2> QED BY <1>1, <2>2, <2>4
<1>3. SubDirs(PathTable[last - n]) \subseteq LastDirs(n)
  BY <1>2, PathTableIs DEF SubDirs, LastDirs
<1>4. PathTable[last - n] \in Dirs
  BY <1>1, PathTableIs
<1>5. PathTable[last - n] \notin LastDirs(n)
  BY <1>1, PathTableIs DEF LastDirs
<1>6. last - (n + 1) + 1 .. last = (last - n + 1 .. last) \cup {last - n}
  BY <1>1
<1>7. LastDirs(n + 1) = LastDirs(n) \cup {PathTable[last - n]}
  BY <1>6 DEF LastDirs
<1> QED BY <1>3, <1>4, <1>5, <1>7

-----------------------------------------------------------------------------
LEMMA CatalogInit == HfsInit => CatalogInv
<1> SUFFICES ASSUME HfsInit PROVE CatalogInv
  OBVIOUS
<1>1. /\ ino \in Inodes /\ noted = {} /\ subFolders = [d \in Dirs |-> 0] /\ catalog = <<>>
  BY DEF HfsInit
<1>2. IsFiniteSet({}) /\ Cardinality({}) = 0
  BY FS_EmptySet
<1>3. FoldersFirst
  <2>1. LastDirs(0) = {}
    BY PathTableIs DEF LastDirs
  <2> QED BY <1>1, <1>2, <2>1, PathTableIs DEF FoldersFirst
<1>4. \A d \in Dirs : SubDirs(d) \cap noted = {}
  BY <1>1
<1>5. subFolders = [d \in Dirs |-> Cardinality(SubDirs(d) \cap noted)]
  BY <1>1, <1>2, <1>4
<1>6. Keyed
  BY <1>1 DEF Keyed
<1> QED BY <1>1, <1>2, <1>3, <1>5, <1>6 DEF CatalogInv

\* Only two actions touch the catalog.
LEMMA CatalogSteps ==
    ASSUME [HfsNext]_allVars
    PROVE  \/ OnFolder
           \/ \E f \in Files : OnFile(f)
           \/ UNCHANGED <<ino, noted, subFolders, catalog>>
<1>1. CASE Layout /\ UNCHANGED <<treeVars, hfsVars>>
  BY <1>1 DEF hfsVars, given, maps
<1>2. CASE CompactCatalog
  BY <1>2 DEF CompactCatalog, given, maps
<1>3. CASE TreeStep
  BY <1>3 DEF TreeStep, hfsVars, given, maps
<1>4. CASE CompactOverflow
  BY <1>4 DEF CompactOverflow, given, maps
<1>5. CASE TreesBuilt
  BY <1>5 DEF TreesBuilt, given, maps
<1>6. CASE \E t \in Trees : WriteTree(t)
  BY <1>6 DEF WriteTree, given, maps
<1>7. CASE WriteBitmap
  BY <1>7 DEF WriteBitmap, given, maps
<1>8. CASE RunOff
  BY <1>8 DEF RunOff, given, maps
<1>9. CASE WriteAllocation
  BY <1>9 DEF WriteAllocation, given, maps
<1>10. CASE ReadVolume
  BY <1>10 DEF ReadVolume, maps
<1>11. CASE UNCHANGED allVars
  BY <1>11 DEF allVars, hfsVars, given, maps
<1> QED BY <1>1, <1>2, <1>3, <1>4, <1>5, <1>6, <1>7, <1>8, <1>9, <1>10, <1>11 DEF HfsNext

LEMMA OnFolderInv ==
    ASSUME Numbered, SpeltApart, CatalogInv, OnFolder
    PROVE  CatalogInv'
<1> DEFINE n == Cardinality(noted)
           d == PathTable[Len(PathTable) - n]
           rec == [kind |-> "folder", id |-> Renum(d),
                   valence |-> Cardinality(Children(d)), folders |-> subFolders[d]]
<1>1. /\ ino' = ino /\ noted' = noted \cup {d}
      /\ catalog' = OnEntry(catalog, d, rec)
      /\ subFolders' = IF d = Root THEN subFolders ELSE [subFolders EXCEPT ![Parent[d]] = @ + 1]
      /\ Dirs \ noted # {}
  BY DEF OnFolder, given
<1>2. n \in 0 .. Len(PathTable) - 1 /\ noted = LastDirs(n)
  BY <1>1, FS_CardinalityType, PathTableIs DEF CatalogInv, FoldersFirst
<1>3. /\ SubDirs(d) \subseteq noted /\ d \in Dirs /\ d \notin noted
      /\ LastDirs(n + 1) = noted'
  BY <1>1, <1>2, FoldersBehind
<1> HIDE DEF d
<1>4. IsFiniteSet(noted') /\ Cardinality(noted') = n + 1
  BY <1>1, <1>3, FS_AddElement DEF CatalogInv
<1>5. noted' \subseteq Entries
  BY <1>1, <1>3 DEF CatalogInv, Entries
<1>6. FoldersFirst'
  <2>1. CASE n + 1 < Len(PathTable)
    BY <1>3, <1>4, <2>1 DEF FoldersFirst
  <2>2. CASE n + 1 = Len(PathTable)
    <3>1. LastDirs(Len(PathTable)) = Dirs
      BY PathTableIs DEF LastDirs
    <3> QED BY <1>3, <2>2, <3>1 DEF FoldersFirst
  <2> QED BY <1>2, <2>1, <2>2, PathTableIs
<1>7. subFolders' = [x \in Dirs |-> Cardinality(SubDirs(x) \cap noted')]
  <2>1. ASSUME NEW x \in Dirs, d # Root, Parent[d] = x
        PROVE  Cardinality(SubDirs(x) \cap noted') = subFolders[x] + 1
    <3>1. d \in SubDirs(x)
      BY <1>3, <2>1, ParentIs DEF SubDirs, Children, Entries
    <3>2. SubDirs(x) \cap noted' = (SubDirs(x) \cap noted) \cup {d}
      BY <1>1, <3>1
    <3>3. IsFiniteSet(SubDirs(x) \cap noted)
      BY FS_Intersection DEF CatalogInv
    <3> QED BY <1>3, <3>2, <3>3, FS_AddElement DEF CatalogInv
  <2>2. ASSUME NEW x \in Dirs, d = Root \/ Parent[d] # x
        PROVE  Cardinality(SubDirs(x) \cap noted') = subFolders[x]
    <3>1. d \notin SubDirs(x)
      BY <2>2, ParentIs DEF SubDirs, Children
    <3>2. SubDirs(x) \cap noted' = SubDirs(x) \cap noted
      BY <1>1, <3>1
    <3> QED BY <3>2 DEF CatalogInv
  <2>3. subFolders = [x \in Dirs |-> subFolders[x]]
    BY DEF CatalogInv
  <2>4. d # Root => Parent[d] \in Dirs
    BY <1>3, ParentIs DEF Entries
  <2> QED BY <1>1, <2>1, <2>2, <2>3, <2>4
<1>8. Keyed'
  <2>1. SubDirs(d) \cap noted = SubDirs(d)
    BY <1>3
  <2>2. subFolders[d] = Cardinality(SubDirs(d))
    BY <1>3, <2>1 DEF CatalogInv
  <2>3. d \in Entries
    BY <1>3 DEF Entries
  <2> QED BY <1>1, <1>3, <2>2, <2>3, KeyedStep DEF CatalogInv
<1> QED BY <1>1, <1>4, <1>5, <1>6, <1>7, <1>8 DEF CatalogInv

LEMMA OnFileInv ==
    ASSUME Numbered, SpeltApart, CatalogInv, NEW f \in Files, OnFile(f)
    PROVE  CatalogInv'
<1> DEFINE rec == [kind |-> "file", id |-> Renum(f), size |-> Len(Content(f)),
                   blocks |-> Fork(f).blk, extents |-> Fork(f).recs[InlineKey]]
<1>1. /\ ino' = ino /\ noted' = noted \cup {f} /\ f \notin noted /\ Dirs \subseteq noted
      /\ catalog' = OnEntry(catalog, f, rec)
      /\ subFolders' = subFolders
  BY DEF OnFile, given
<1>2. f \in Entries /\ f \notin Dirs
  BY HfsAssumption DEF Entries
<1>3. IsFiniteSet(noted') /\ noted' \subseteq Entries
  BY <1>1, <1>2, FS_AddElement DEF CatalogInv
<1>4. FoldersFirst'
  BY <1>1 DEF FoldersFirst
<1>5. subFolders' = [d \in Dirs |-> Cardinality(SubDirs(d) \cap noted')]
  <2>1. \A d \in Dirs : SubDirs(d) \cap noted' = SubDirs(d) \cap noted
    BY <1>1, <1>2 DEF SubDirs
  <2> QED BY <1>1, <2>1 DEF CatalogInv
<1>6. Keyed'
  <2>1. rec.id = Renum(f) /\ rec.kind = "file"
    OBVIOUS
  <2> HIDE DEF rec
  <2> QED BY <1>1, <1>2, <2>1, KeyedStep DEF CatalogInv
<1> QED BY <1>1, <1>3, <1>4, <1>5, <1>6 DEF CatalogInv

LEMMA CatalogStays ==
    ASSUME CatalogInv, UNCHANGED <<ino, noted, subFolders, catalog>>
    PROVE  CatalogInv'
<1>1. \A e : Renum(e)' = Renum(e)
  BY DEF Renum
<1>2. \A e : Key(e)' = Key(e) /\ Thread(e)' = Thread(e) /\ ParentId(e)' = ParentId(e)
  BY <1>1 DEF Key, Thread, ParentId
<1>3. noted' = noted /\ catalog' = catalog
  OBVIOUS
<1>4. \A e : (Recorded(e)' <=> Recorded(e)) /\ (Threaded(e)' <=> Threaded(e))
  BY <1>1, <1>2, <1>3 DEF Recorded, Threaded
<1>5. Keyed'
  <2>1. {Key(e)' : e \in noted'} = {Key(e) : e \in noted}
    BY <1>2, <1>3
  <2>2. {Thread(e)' : e \in noted'} = {Thread(e) : e \in noted}
    BY <1>2, <1>3
  <2> QED BY <1>3, <1>4, <2>1, <2>2 DEF CatalogInv, Keyed
<1> QED BY <1>5 DEF CatalogInv, FoldersFirst

\* A folder has as many records inside as it has children.
LEMMA InsideIs ==
    ASSUME Numbered, SpeltApart, CatalogInv, noted = Entries, NEW d \in Dirs
    PROVE  /\ {k \in DOMAIN catalog : k[1] = Renum(d) /\ k[2] # 0} = {Key(e) : e \in Children(d)}
           /\ {Key(e) : e \in SubDirs(d)} =
                  {k \in {Key(e) : e \in Children(d)} : catalog[k].kind = "folder"}
<1>1. d \in Entries /\ Children(d) \subseteq Entries \ {Root}
  BY ParentIs DEF Entries
<1>2. ASSUME NEW e \in Entries
      PROVE  ParentId(e) = Renum(d) <=> e \in Children(d)
  <2>1. CASE e = Root
    BY <1>1, <2>1, KeysApart DEF ParentId, CatalogInv
  <2>2. CASE e # Root
    <3>1. ParentId(e) = Renum(Parent[e]) /\ Parent[e] \in Entries
      BY <2>2, ParentIs DEF ParentId, Entries
    <3>2. Renum(Parent[e]) = Renum(d) <=> Parent[e] = d
      BY <1>1, <3>1, KeysApart DEF CatalogInv
    <3> QED BY <2>2, <3>1, <3>2, ParentIs DEF Children
  <2> QED BY <2>1, <2>2
<1>3. \A e \in Entries : Key(e)[1] = ParentId(e) /\ Key(e)[2] # 0 /\ Thread(e)[2] = 0
  BY HfsAssumption DEF Key, Thread, Entries
<1>4. DOMAIN catalog = {Key(e) : e \in Entries} \cup {Thread(e) : e \in Entries}
  BY DEF CatalogInv, Keyed
<1>5. {k \in DOMAIN catalog : k[1] = Renum(d) /\ k[2] # 0} = {Key(e) : e \in Children(d)}
  BY <1>1, <1>2, <1>3, <1>4
<1>6. \A e \in Children(d) : catalog[Key(e)].kind = "folder" <=> e \in SubDirs(d)
  BY <1>1 DEF CatalogInv, Keyed, Recorded, SubDirs
<1> QED BY <1>5, <1>6 DEF SubDirs

LEMMA AsManyKeys ==
    ASSUME Numbered, SpeltApart, ino \in Inodes, NEW S \in SUBSET Entries, IsFiniteSet(S)
    PROVE  Cardinality({Key(e) : e \in S}) = Cardinality(S)
<1> DEFINE T == {Key(e) : e \in S}
           key == [e \in S |-> Key(e)]
<1>1. key \in Bijection(S, T)
  <2>1. key \in [S -> T] /\ \A k \in T : \E e \in S : key[e] = k
    OBVIOUS
  <2>2. \A e, f \in S : key[e] = key[f] => e = f
    BY KeysApart
  <2> QED BY <2>1, <2>2 DEF Bijection, Injection, Surjection, IsInjective
<1>2. ExistsBijection(S, T)
  BY <1>1 DEF ExistsBijection
<1> QED BY <1>2, FS_Bijection

LEMMA InvCatalog == ASSUME Numbered, SpeltApart, CatalogInv PROVE CatalogConsistent
<1> SUFFICES ASSUME noted = Entries, NEW key \in DOMAIN catalog
             PROVE  /\ catalog[key].kind # "thread" => LeadsBack(key)
                    /\ catalog[key].kind = "folder" => CountsRight(key)
  BY DEF CatalogConsistent, Entries
<1>1. CASE \E e \in Entries : key = Thread(e)
  <2>1. PICK e \in Entries : key = Thread(e)
    BY <1>1
  <2>2. Threaded(e)
    BY DEF CatalogInv, Keyed
  <2> QED BY <2>1, <2>2 DEF Threaded
<1>2. ASSUME NEW e \in Entries, key = Key(e)
      PROVE  /\ LeadsBack(key)
             /\ catalog[key].kind = "folder" => CountsRight(key)
  <2>1. Recorded(e) /\ Threaded(e)
    BY DEF CatalogInv, Keyed
  <2>2. LeadsBack(key)
    <3>1. <<catalog[key].id, 0>> = Thread(e) /\ Thread(e) \in DOMAIN catalog
      BY <1>2, <2>1 DEF Recorded, Thread, CatalogInv, Keyed
    <3> QED BY <1>2, <2>1, <3>1 DEF LeadsBack, Threaded, Key
  <2>3. ASSUME e \in Dirs PROVE CountsRight(key)
    <3>1. IsFiniteSet(Entries) /\ Children(e) \subseteq Entries /\ SubDirs(e) \subseteq Entries
      BY <2>3, ParentIs DEF CatalogInv, SubDirs
    <3>2. IsFiniteSet(Children(e)) /\ IsFiniteSet(SubDirs(e))
      BY <3>1, FS_Subset
    <3>3. /\ Cardinality({Key(x) : x \in Children(e)}) = Cardinality(Children(e))
          /\ Cardinality({Key(x) : x \in SubDirs(e)}) = Cardinality(SubDirs(e))
      BY <3>1, <3>2, AsManyKeys DEF CatalogInv
    <3>4. {k \in DOMAIN catalog : k[1] = catalog[key].id /\ k[2] # 0}
              = {Key(x) : x \in Children(e)}
      BY <1>2, <2>1, <2>3, InsideIs DEF Recorded
    <3>5. {Key(x) : x \in SubDirs(e)} =
              {k \in {Key(x) : x \in Children(e)} : catalog[k].kind = "folder"}
      BY <2>3, InsideIs
    <3> QED BY <1>2, <2>1, <2>3, <3>3, <3>4, <3>5 DEF CountsRight, Recorded
  <2>4. catalog[key].kind = "folder" => e \in Dirs
    BY <1>2, <2>1 DEF Recorded
  <2> QED BY <2>2, <2>3, <2>4
<1> QED BY <1>1, <1>2 DEF CatalogInv, Keyed

(***************************************************************************)
(* In the finished catalog of impl/hfplus.cpp each thread leads back to    *)
(* its one record and each folder counts what is in it, for every tree of  *)
(* entries and every file area, when the inode numbers tell the entries    *)
(* apart in 32 bits, and the names those of a directory when decomposed.   *)
(***************************************************************************)
THEOREM Cataloguing ==
    ASSUME Numbered, SpeltApart
    PROVE  HfsSpec => []CatalogConsistent
<1>1. HfsInit => CatalogInv
  BY CatalogInit
<1>2. CatalogInv /\ [HfsNext]_allVars => CatalogInv'
  BY CatalogSteps, OnFolderInv, OnFileInv, CatalogStays
<1>3. CatalogInv => CatalogConsistent
  BY InvCatalog
<1> QED BY <1>1, <1>2, <1>3, PTL DEF HfsSpec
-----------------------------------------------------------------------------
(***************************************************************************)
(* The blocks of the volume.                                               *)
(***************************************************************************)
\* The blocks of the temporary storage divide those of the volume.  The copy
\* of the header has to begin a block of both, and more padding between the
\* allocation file and it than was estimated aborts.
Fitting == \A b \in SizeRange : b % TmpBlock = 0

LEMMA RoundedUpIs ==
    ASSUME NEW n \in Nat, NEW size \in Nat \ {0}
    PROVE  /\ RoundedUp(n, size) \in Nat /\ n <= RoundedUp(n, size)
           /\ RoundedUp(n, size) % size = 0
           /\ n % size = 0 => RoundedUp(n, size) = n
<1> DEFINE q == (n + size - 1) \div size
           r == (n + size - 1) % size
<1>1. n + size - 1 \in Nat
  OBVIOUS
<1>2. q \in Nat /\ r \in 0 .. size - 1 /\ n + size - 1 = size * q + r
  BY <1>1, NatDivision
<1>3. RoundedUp(n, size) = q * size
  BY DEF RoundedUp
<1> HIDE DEF q, r
<1>4. q * size = size * q /\ size * q \in Nat
  BY <1>2
<1>5. n <= size * q
  BY <1>2, <1>4
<1>6. (size * q) % size = 0
  <2>1. q \in Int
    BY <1>2
  <2> QED BY <2>1, MultipleIs
<1>7. ASSUME n % size = 0 PROVE size * q = n
  <2> DEFINE p == n \div size
  <2>1. p \in Nat /\ n = size * p
    BY <1>7, NatDivision
  <2> HIDE DEF p
  <2>2. size * p <= n + size - 1 /\ n + size - 1 < size * p + size
    BY <2>1
  <2>3. q = p
    <3> DEFINE a == n + size - 1
    <3>1. a \in Nat /\ size * p <= a /\ a < size * p + size
      BY <1>1, <2>2
    <3>2. q = a \div size
      BY DEF q
    <3> HIDE DEF a
    <3> QED BY <2>1, <3>1, <3>2, Quotient
  <2> QED BY <2>1, <2>3
<1> QED BY <1>3, <1>4, <1>5, <1>6, <1>7

\* At a multiple there is nothing to pad.
LEMMA PadToNone ==
    ASSUME NEW s, NEW b \in Nat \ {0}, Offset(s) % b = 0
    PROVE  PadTo(s, b) = s
<1>1. (b * 1) % b = 0 /\ b * 1 = b
  BY MultipleIs
<1>2. (b - 0) % b = 0
  BY <1>1
<1> QED BY <1>2 DEF PadTo, Appended, Extent

\* Both sizes, when the block of the volume is one of those allowed.
LEMMA SizesAre ==
    ASSUME Fitting, blkSz \in SizeRange
    PROVE  /\ blkSz \in Nat \ {0} /\ TmpSize \in Nat \ {0} /\ blkSz % TmpSize = 0
           /\ TmpSize <= blkSz /\ Max({blkSz, TmpSize}) = blkSz
<1>1. blkSz \in Nat \ {0}
  BY GeometryAssumption
<1>2. TmpSize \in Nat \ {0} /\ blkSz % TmpSize = 0
  BY <1>1, HfsAssumption DEF Fitting, TmpSize
<1> HIDE DEF TmpSize
<1>3. TmpSize <= blkSz
  <2> DEFINE q == blkSz \div TmpSize
  <2>1. q \in Nat /\ blkSz = TmpSize * q
    BY <1>1, <1>2, NatDivision
  <2> HIDE DEF q
  <2>2. q >= 1
    BY <1>1, <1>2, <2>1
  <2>3. TmpSize * q >= TmpSize * 1
    BY <1>2, <2>1, <2>2
  <2> QED BY <1>1, <1>2, <2>1, <2>3
<1>4. Max({blkSz, TmpSize}) = blkSz
  <2>1. blkSz \in {blkSz, TmpSize} /\ \A y \in {blkSz, TmpSize} : blkSz >= y
    BY <1>1, <1>2, <1>3
  <2>2. \A x \in {blkSz, TmpSize} : (\A y \in {blkSz, TmpSize} : x >= y) => x = blkSz
    BY <1>1, <1>2, <1>3
  <2> QED BY <2>1, <2>2 DEF Max
<1> QED BY <1>1, <1>2, <1>3, <1>4

\* The planner of the volume, behind the file area.
Aligned == out \in Seq(Extents) /\ Offset(out) \in Nat /\ Offset(out) % blkSz = 0

TmpAligned == tmpOff \in Nat /\ tmpOff % TmpSize = 0

LEMMA WrapStep ==
    ASSUME Fitting, blkSz \in SizeRange, Aligned, TmpAligned, UNCHANGED <<blkSz, mapped>>,
           NEW t, NEW len \in Nat, WrapToGo(t, len)
    PROVE  /\ Aligned' /\ TmpAligned' /\ Extends(out', out)
           /\ place' = Put(place, t, place'[t])
           /\ len % blkSz = 0 => /\ Offset(out') = Offset(out) + len
                                 /\ place'[t].count = BlockCount(len)
<1> DEFINE to == RoundedUp(tmpOff + len, TmpSize)
           wrapped == to - tmpOff
           x == Extent(Tmp, tmpOff, wrapped)
           mid == Appended(out, x)
<1>1. /\ blkSz \in Nat \ {0} /\ TmpSize \in Nat \ {0} /\ blkSz % TmpSize = 0
      /\ tmpOff \in Nat /\ tmpOff % TmpSize = 0
      /\ out \in Seq(Extents) /\ Offset(out) \in Nat /\ Offset(out) % blkSz = 0
  BY SizesAre DEF Aligned, TmpAligned
<1>2. /\ tmpOff' = tmpOff + wrapped /\ out' = PadTo(mid, blkSz)
      /\ place' = Put(place, t, [start |-> Offset(out) \div blkSz,
                                 count |-> BlockCount(Offset(out') - Offset(out)),
                                 tmp |-> tmpOff, len |-> len])
  BY DEF WrapToGo
<1>3. to \in Nat /\ tmpOff + len <= to /\ to % TmpSize = 0
      /\ ((tmpOff + len) % TmpSize = 0 => to = tmpOff + len)
  <2>1. tmpOff + len \in Nat
    BY <1>1
  <2> QED BY <1>1, <2>1, RoundedUpIs
<1> HIDE DEF to
<1>4. wrapped \in Nat /\ tmpOff + wrapped = to
  BY <1>1, <1>3
<1>5. TmpAligned'
  BY <1>2, <1>3, <1>4 DEF TmpAligned, TmpSize
<1>6. x \in Extents /\ x.len = wrapped
  BY <1>1, <1>4, HfsAssumption, GeometryAssumption DEF Extent, Extents
<1> HIDE DEF x
<1>7. mid \in Seq(Extents) /\ Offset(mid) = Offset(out) + wrapped /\ Extends(mid, out)
  <2>1. IsList(out)
    BY <1>1 DEF IsList
  <2> QED BY <1>1, <1>6, <2>1, AppendedIs, AppendedKeeps
<1> HIDE DEF mid
<1>8. /\ out' \in Seq(Extents) /\ Offset(out') \in Nat /\ Offset(out') % blkSz = 0
      /\ Extends(out', out)
  <2>1. /\ out' \in Seq(Extents) /\ Offset(out') \in Nat /\ Offset(out') % blkSz = 0
        /\ \A y, at : PlacedAt(mid, y, at) => PlacedAt(out', y, at)
    BY <1>1, <1>2, <1>7, PadToIs
  <2> QED BY <1>7, <2>1 DEF Extends, IsList
<1>9. Aligned'
  <2>1. Offset(out)' = Offset(out')
    BY DEF Offset
  <2> QED BY <1>8, <2>1 DEF Aligned
<1>10. t \in DOMAIN place' /\ place' = Put(place, t, place'[t])
       /\ place'[t].count = BlockCount(Offset(out') - Offset(out))
  BY <1>2 DEF Put
<1>11. ASSUME len % blkSz = 0
       PROVE  Offset(out') = Offset(out) + len /\ Offset(out') - Offset(out) = len
  <2>2. (tmpOff + len) % TmpSize = 0
    <3> DEFINE u == TmpSize
    <3>1. /\ u \in Nat \ {0} /\ blkSz % u = 0 /\ tmpOff \in Int /\ len \in Int
          /\ tmpOff % u = 0
      BY <1>1
    <3> HIDE DEF u
    <3>2. len % u = 0
      BY <1>1, <1>11, <3>1, MultipleOfMultiple
    <3>3. (tmpOff + len) % u = 0
      BY <3>1, <3>2, SumOfMultiples
    <3> QED BY <3>3 DEF u
  <2>3. wrapped = len
    BY <1>1, <1>3, <2>2
  <2>4. (Offset(out) + len) % blkSz = 0
    <3> DEFINE o == Offset(out)
    <3>1. o \in Int /\ o % blkSz = 0 /\ len \in Int
      BY <1>1
    <3> HIDE DEF o
    <3>2. (o + len) % blkSz = 0
      BY <1>1, <1>11, <3>1, SumOfMultiples
    <3> QED BY <3>2 DEF o
  <2>5. Offset(mid) % blkSz = 0
    BY <1>7, <2>3, <2>4
  <2>6. out' = mid
    BY <1>1, <1>2, <2>5, PadToNone
  <2> HIDE DEF wrapped
  <2> QED BY <1>1, <1>7, <2>3, <2>6
<1> QED BY <1>5, <1>8, <1>9, <1>10, <1>11

\* What the allocation file is when it is written, behind n blocks.
Counted ==
    \E n \in Nat :
        /\ blks = Estimate(n * blkSz, blkSz) /\ allocLen = BitmapLen(blks, blkSz)
        /\ Offset(out) = n * blkSz + allocLen
        /\ place["allocation"].count * blkSz >= allocLen

Covered ==
    /\ blks \in Nat /\ allocLen \in Nat
    /\ \E m \in Nat \ {0} : allocLen = m * blkSz /\ (m - 1) * (blkSz * BitsPerByte) <= blks
    /\ Offset(out) = blks * blkSz
    /\ blks <= allocLen * BitsPerByte
    /\ place["allocation"].count * blkSz >= allocLen

LEMMA BitmapStep ==
    ASSUME Fitting, blkSz \in SizeRange, Aligned, TmpAligned, WriteBitmap
    PROVE  Aligned' /\ TmpAligned' /\ Extends(out', out) /\ Counted'
<1>1. blkSz \in Nat \ {0} /\ Offset(out) \in Nat /\ Offset(out) % blkSz = 0 /\ blkSz * BitsPerByte > 1
  BY SizesAre, HfsAssumption DEF Aligned
<1>2. /\ blks' = Estimate(Offset(out), blkSz) /\ allocLen' = BitmapLen(blks', blkSz)
      /\ WrapToGo("allocation", allocLen') /\ blkSz' = blkSz /\ mapped' = mapped
  BY DEF WriteBitmap, laid, config
<1> DEFINE o == Offset(out)
           n == o \div blkSz
           k == allocLen'
<1>3. n \in Nat /\ o = n * blkSz
  <2> DEFINE r == o % blkSz
  <2>1. o \in Nat /\ blkSz \in Nat \ {0} /\ r = 0
    BY <1>1
  <2> HIDE DEF o
  <2>2. n \in Nat /\ o = blkSz * n + r
    BY <2>1, NatDivision
  <2> HIDE DEF n, r
  <2>3. o = blkSz * n
    BY <2>1, <2>2
  <2> QED BY <2>1, <2>2, <2>3
<1> HIDE DEF n
<1>4. PICK m \in Nat : k = m * blkSz
  <2>1. PICK i \in Nat : BitmapLen(Estimate(n * blkSz, blkSz), blkSz) = (i + 1) * blkSz
    BY <1>1, <1>3, BitmapIs
  <2>2. i + 1 \in Nat /\ k = (i + 1) * blkSz
    BY <1>2, <1>3, <2>1
  <2> QED BY <2>2
<1>5. k \in Nat /\ k % blkSz = 0
  <2>1. (blkSz * m) % blkSz = 0 /\ blkSz * m = m * blkSz /\ m * blkSz \in Nat
    BY <1>1, MultipleIs
  <2> QED BY <1>4, <2>1
<1> HIDE DEF k
<1>6. /\ Aligned' /\ TmpAligned' /\ Extends(out', out)
      /\ Offset(out') = Offset(out) + k /\ place'["allocation"].count = BlockCount(k)
  BY <1>2, <1>5, WrapStep DEF k
<1>7. BlockCount(k) = m
  <2>1. RoundedUp(k, blkSz) = k
    BY <1>1, <1>5, RoundedUpIs
  <2>2. blkSz * m <= k /\ k < blkSz * m + blkSz
    BY <1>1, <1>4
  <2>3. k \div blkSz = m
    BY <1>1, <1>5, <2>2, Quotient
  <2> QED BY <2>1, <2>3 DEF BlockCount
<1>8. place'["allocation"].count * blkSz' >= k
  BY <1>1, <1>2, <1>4, <1>6, <1>7
<1>9. Offset(out)' = n * blkSz' + k
  <2>1. Offset(out)' = Offset(out')
    BY DEF Offset
  <2> QED BY <1>2, <1>3, <1>6, <2>1
<1>10. blks' = Estimate(n * blkSz', blkSz')
  BY <1>2, <1>3
<1>11. allocLen' = BitmapLen(blks', blkSz') /\ allocLen' = k
  BY <1>2 DEF k
<1>12. Counted'
  <2>1. Estimate(n * blkSz, blkSz)' = Estimate(n' * blkSz', blkSz')
    BY DEF Estimate
  <2> QED BY <1>3, <1>8, <1>9, <1>10, <1>11 DEF Counted
<1> QED BY <1>6, <1>12

LEMMA RunOffStep ==
    ASSUME Fitting, blkSz \in SizeRange, Aligned, TmpAligned, Counted, RunOff
    PROVE  Aligned' /\ Extends(out', out) /\ stage' = stage /\ phase' = "commit" /\ Covered'
<1>1. /\ blkSz \in Nat \ {0} /\ TmpSize \in Nat \ {0} /\ blkSz % TmpSize = 0
      /\ blkSz * BitsPerByte > 1 /\ TailLen <= blkSz /\ TailLen \in Nat
      /\ Max({blkSz, TmpSize}) = blkSz
      /\ out \in Seq(Extents) /\ Offset(out) \in Nat /\ Offset(out) % blkSz = 0
      /\ tmpOff \in Nat
  BY SizesAre, HfsAssumption DEF Aligned, TmpAligned
<1>2. PICK n \in Nat :
        /\ blks = Estimate(n * blkSz, blkSz) /\ allocLen = BitmapLen(blks, blkSz)
        /\ Offset(out) = n * blkSz + allocLen
        /\ place["allocation"].count * blkSz >= allocLen
  BY DEF Counted
<1>3. PICK m \in Nat : /\ allocLen = m * blkSz /\ blks = n + m + 1 /\ m > 0
                       /\ (m - 1) * (blkSz * BitsPerByte) <= blks
  <2>1. PICK i \in Nat : /\ allocLen = (i + 1) * blkSz /\ blks = n + i + 2
                         /\ i * (blkSz * BitsPerByte) <= blks
    BY <1>1, <1>2, BitmapIs
  <2> DEFINE m == i + 1
  <2>2. m \in Nat /\ m > 0 /\ m - 1 = i /\ blks = n + m + 1
    BY <2>1
  <2> QED BY <2>1, <2>2
<1>4. Offset(out) = (n + m) * blkSz
  <2>1. n * blkSz + m * blkSz = (n + m) * blkSz
    BY <1>1
  <2>2. allocLen = m * blkSz
    BY <1>3
  <2> QED BY <1>2, <2>1, <2>2
<1> DEFINE q == n + m
           o == Offset(out)
           curOff == RoundedUp(o, Max({blkSz, TmpSize}))
           curb == curOff \div blkSz
           total == TotalBlocks(curb, blks, Max({1, Max({blkSz, TmpSize}) \div blkSz}))
           runOff == total * blkSz - curOff
<1>5. curOff = o /\ curb = q
  <2>1. RoundedUp(o, blkSz) = o
    BY <1>1, RoundedUpIs
  <2>2. q \in Nat /\ blkSz * q <= o /\ o < blkSz * q + blkSz
    BY <1>1, <1>4
  <2> HIDE DEF q, o
  <2>3. o \div blkSz = q
    BY <1>1, <2>2, Quotient DEF o
  <2> QED BY <1>1, <2>1, <2>3
<1>6. Max({1, Max({blkSz, TmpSize}) \div blkSz}) = 1
  <2>1. blkSz \div blkSz = 1
    BY <1>1
  <2>2. Max({1, 1}) = 1
    BY DEF Max
  <2> QED BY <1>1, <2>1, <2>2
<1>7. total = blks /\ total = q + 1
  BY <1>3, <1>5, <1>6 DEF TotalBlocks
<1>8. runOff = blkSz
  <2>1. (q + 1) * blkSz = q * blkSz + blkSz
    BY <1>1
  <2> QED BY <1>1, <1>4, <1>5, <1>7, <2>1
<1>9. ~(runOff < TailLen)
  BY <1>1, <1>8
<1>10. /\ out' = Appended(PadTo(out, blkSz),
                          Extent(Tmp, RoundedUp(tmpOff, blkSz), RoundedUp(runOff, TmpSize)))
       /\ blks' = total /\ phase' = "commit" /\ stage' = stage
       /\ UNCHANGED <<blkSz, place, allocLen>>
  BY <1>1, <1>9 DEF RunOff, laid
<1> HIDE DEF q, curOff, curb, total, runOff
<1> DEFINE x == Extent(Tmp, RoundedUp(tmpOff, blkSz), blkSz)
<1>11. out' = Appended(out, x)
  <2>1. PadTo(out, blkSz) = out
    BY <1>1, PadToNone
  <2>2. RoundedUp(blkSz, TmpSize) = blkSz
    BY <1>1, RoundedUpIs
  <2> QED BY <1>8, <1>10, <2>1, <2>2
<1>12. x \in Extents /\ x.len = blkSz
  <2>1. RoundedUp(tmpOff, blkSz) \in Nat
    BY <1>1, RoundedUpIs
  <2> QED BY <1>1, <2>1, HfsAssumption, GeometryAssumption DEF Extent, Extents
<1> HIDE DEF x
<1>13. out' \in Seq(Extents) /\ Offset(out') = Offset(out) + blkSz /\ Extends(out', out)
  <2>1. IsList(out)
    BY <1>1 DEF IsList
  <2> QED BY <1>1, <1>11, <1>12, <2>1, AppendedIs, AppendedKeeps
<1>14. Offset(out') = blks' * blkSz
  <2>1. (n + m + 1) * blkSz = (n + m) * blkSz + blkSz
    BY <1>1
  <2> QED BY <1>1, <1>3, <1>4, <1>7, <1>10, <1>13, <2>1
<1>15. blks <= allocLen * BitsPerByte
  BY <1>1, <1>2, BitmapCoversItself
<1>16. Offset(out)' = Offset(out')
  BY DEF Offset
<1>17. Aligned'
  <2> DEFINE p == Offset(out)
  <2>1. p \in Int /\ p % blkSz = 0 /\ blkSz \in Int /\ blkSz % blkSz = 0
    BY <1>1
  <2> HIDE DEF p
  <2>2. (p + blkSz) % blkSz = 0
    BY <1>1, <2>1, SumOfMultiples
  <2>3. Offset(out') \in Nat /\ Offset(out') % blkSz = 0
    BY <1>1, <1>13, <2>2 DEF p
  <2> QED BY <1>10, <1>13, <1>16, <2>3 DEF Aligned
<1>18. Covered'
  <2>1. blks \in Nat /\ blks' = blks /\ allocLen' = allocLen
    BY <1>3, <1>7, <1>10
  <2>2. allocLen \in Nat
    <3>1. allocLen = m * blkSz
      BY <1>3
    <3> QED BY <1>1, <3>1
  <2> QED BY <1>2, <1>3, <1>10, <1>14, <1>15, <1>16, <2>1, <2>2 DEF Covered
<1> QED BY <1>10, <1>13, <1>17, <1>18
-----------------------------------------------------------------------------
(***************************************************************************)
(* The invariant.  Nothing is noted before the files are written, a volume *)
(* that is given up stays where it is, and the planner is at a block from  *)
(* then on.                                                                *)
(***************************************************************************)
Begun ==
    /\ phase # "files" \/ noted # {} => stage \in {"planned", "burnt", "aborted"}
    /\ stage = "burnt" => phase = "commit"
    /\ stage = "aborted" =>
          (phase = "files" /\ noted = {}) \/ (phase = "write" /\ tmpOff % Sector # 0)

\* The nodes are lists, so that a tree has a length.
Listed ==
    /\ IsList(nodes)
    /\ \A t \in DOMAIN finished : IsList(finished[t].nodes)
    /\ finished # <<>> => "catalog" \in DOMAIN finished
    /\ phase = "write" => Trees \subseteq DOMAIN finished

BlocksRight ==
    /\ stage \in {"planned", "burnt"} => Aligned
    /\ phase # "commit" => TmpAligned
    /\ phase = "runoff" => Counted
    /\ phase = "commit" => Covered

BlocksInv == GeoInv /\ Begun /\ Listed /\ BlocksRight

LEMMA BlocksInit == Fitting /\ HfsInit => BlocksInv
<1> SUFFICES ASSUME Fitting, HfsInit PROVE BlocksInv
  OBVIOUS
<1>1. GeoInv
  BY InitGeoInv DEF HfsInit
<1>2. Begun
  BY DEF HfsInit, Init, Begun
<1>3. Listed
  <2>1. nodes \in Seq({})
    BY DEF HfsInit
  <2> QED BY <2>1 DEF HfsInit, Listed, IsList
<1>4. BlocksRight
  <2>1. TmpSize \in Nat \ {0}
    BY HfsAssumption DEF TmpSize
  <2>2. TmpAligned
    BY <2>1, RoundedUpIs, GeometryAssumption DEF HfsInit, TmpAligned
  <2> QED BY <2>2 DEF HfsInit, Init, BlocksRight
<1> QED BY <1>1, <1>2, <1>3, <1>4 DEF BlocksInv

LEMMA ListedAppend == ASSUME NEW s, IsList(s), NEW x PROVE IsList(Append(s, x))
BY AppendKeeps DEF Extends

LEMMA ListedExcept == ASSUME NEW s, IsList(s), NEW n, NEW x PROVE IsList([s EXCEPT ![n] = x])
<1> DEFINE t == [s EXCEPT ![n] = x]
           S == {t[i] : i \in DOMAIN t}
<1>1. Len(s) \in Nat /\ DOMAIN t = 1 .. Len(s) /\ t = [i \in DOMAIN t |-> t[i]]
  BY DEF IsList
<1> HIDE DEF t
<1>2. t \in Seq(S)
  BY <1>1
<1> QED BY <1>2 DEF IsList, t

LEMMA MapFull == ASSUME IsList(nodes) PROVE IsList([nodes EXCEPT ![MapNode].size = nodeSize])
BY ListedExcept

LEMMA MapMore ==
    ASSUME IsList(nodes)
    PROVE  IsList([[nodes EXCEPT ![MapNode].size = nodeSize] EXCEPT ![MapNode].fLink = NodeCount])
BY MapFull, ListedExcept

\* The trees are built list by list.
LEMMA TreeListed == ASSUME IsList(nodes), TreeNext PROVE IsList(nodes')
<1>1. CASE FillNode
  BY <1>1 DEF FillNode
<1>2. CASE FullNode
  BY <1>2, ListedAppend DEF FullNode
<1>3. CASE EndLevel
  BY <1>3, ListedAppend DEF EndLevel
<1>4. CASE AddMap
  <2> DEFINE full == [nodes EXCEPT ![MapNode].size = nodeSize]
             more == [full EXCEPT ![MapNode].fLink = NodeCount]
             fresh == [NewNode("map", 0) EXCEPT !.bLink = IF MapNode = 1 THEN 0 ELSE NodeCount - 1]
  <2>1. nodes' \in {full, Append(more, fresh)}
    BY <1>4 DEF AddMap
  <2>2. IsList(full) /\ IsList(more)
    BY MapFull, MapMore
  <2> HIDE DEF full, more, fresh
  <2> QED BY <2>1, <2>2, ListedAppend
<1> QED BY <1>1, <1>2, <1>3, <1>4 DEF TreeNext

LEMMA BeginListed == ASSUME NEW recs, NEW size, BeginTree(recs, size) PROVE IsList(nodes')
<1>1. nodes' \in Seq({HeaderNode})
  BY DEF BeginTree
<1> QED BY <1>1 DEF IsList

LEMMA ListedStep == ASSUME Listed, [HfsNext]_allVars PROVE Listed'
<1>1. CASE Layout /\ UNCHANGED <<treeVars, hfsVars>>
  BY <1>1 DEF Listed, treeVars, hfsVars, IsList
<1>2. CASE OnFolder \/ (\E f \in Files : OnFile(f))
  BY <1>2 DEF OnFolder, OnFile, Listed, treeVars, IsList
<1>3. CASE CompactCatalog
  <2>1. phase' = "trees" /\ finished' = finished
        /\ BeginTree(Sorted(catalog, CatalogRecord), Capacity["catalog"])
    BY <1>3 DEF CompactCatalog
  <2>2. IsList(nodes')
    BY <2>1, BeginListed
  <2> QED BY <2>1, <2>2 DEF Listed
<1>4. CASE TreeStep
  BY <1>4, TreeListed DEF TreeStep, Listed, hfsVars
<1>5. CASE CompactOverflow
  <2>1. /\ phase' = "trees" /\ finished' = Put(finished, "catalog", Built)
        /\ BeginTree(Sorted(overflow, OverflowRecord), Capacity["overflow"])
    BY <1>5 DEF CompactOverflow
  <2>2. IsList(nodes')
    BY <2>1, BeginListed
  <2>3. "catalog" \in DOMAIN finished' /\ \A t \in DOMAIN finished' : IsList(finished'[t].nodes)
    BY <2>1 DEF Put, Built, Listed
  <2> QED BY <2>1, <2>2, <2>3 DEF Listed
<1>6. CASE TreesBuilt
  <2>1. finished # <<>> /\ finished' = Put(finished, "overflow", Built) /\ nodes' = nodes
    BY <1>6 DEF TreesBuilt, treeVars
  <2>2. "catalog" \in DOMAIN finished' /\ "overflow" \in DOMAIN finished'
        /\ \A t \in DOMAIN finished' : IsList(finished'[t].nodes)
    BY <2>1 DEF Put, Built, Listed
  <2> QED BY <2>1, <2>2 DEF Listed, Trees
<1>7. CASE (\E t \in Trees : WriteTree(t)) \/ WriteBitmap \/ RunOff
  <2>1. UNCHANGED <<nodes, finished>> /\ (phase' = "write" => phase = "write")
    BY <1>7 DEF WriteTree, WriteBitmap, RunOff, treeVars
  <2> QED BY <2>1 DEF Listed
<1>8. CASE WriteAllocation \/ ReadVolume
  BY <1>8 DEF WriteAllocation, ReadVolume, Listed, treeVars
<1>9. CASE UNCHANGED allVars
  BY <1>9 DEF allVars, treeVars, hfsVars, Listed
<1> QED BY <1>1, <1>2, <1>3, <1>4, <1>5, <1>6, <1>7, <1>8, <1>9 DEF HfsNext

\* What is before the trees are written leaves the volume as it is.
LEMMA BlocksKept ==
    ASSUME BlocksRight, UNCHANGED <<vars, tmpOff, place, allocLen, blks>>,
           phase' = phase \/ (phase \notin {"runoff", "commit"} /\ phase' \notin {"runoff", "commit"})
    PROVE  BlocksRight'
<1>1. UNCHANGED <<stage, out, blkSz, mapped>>
  BY DEF vars, config
<1>2. Aligned' = Aligned /\ TmpAligned' = TmpAligned /\ Counted' = Counted /\ Covered' = Covered
  BY <1>1 DEF Aligned, TmpAligned, TmpSize, Counted, Covered
<1> QED BY <1>1, <1>2 DEF BlocksRight

LEMMA LayoutBlocks ==
    ASSUME BlocksInv, Layout, UNCHANGED <<treeVars, hfsVars>>
    PROVE  GeoInv' /\ Begun' /\ BlocksRight'
<1>1. Next
  BY DEF Layout, Next
<1>2. GeoInv'
  BY <1>1, LayoutGeoInv DEF BlocksInv
<1>3. UNCHANGED <<phase, noted, tmpOff, place, allocLen, blks>>
  BY DEF hfsVars, maps, bits
<1>4. CASE phase = "commit" /\ (CommitMapped \/ CommitCopied)
  <2>1. stage = "planned" /\ stage' = "burnt" /\ UNCHANGED <<out, blkSz>>
    BY <1>4 DEF CommitMapped, CommitCopied, config
  <2>2. Begun'
    BY <1>3, <1>4, <2>1 DEF Begun
  <2>3. Aligned /\ Covered
    BY <1>4, <2>1 DEF BlocksInv, BlocksRight
  <2>4. Aligned' /\ Covered'
    BY <1>3, <2>1, <2>3 DEF Aligned, Covered
  <2> QED BY <1>2, <1>3, <1>4, <2>2, <2>4 DEF BlocksRight
<1>5. CASE (\E f \in Files : OnFileFd(f)) \/ Adjust \/ Optimize \/ WriteRange
  <2>1. stage \in {"crawl", "adjusted", "optimized"} /\ mapped' = mapped
        /\ stage' \in {"crawl", "adjusted", "optimized", "aborted"}
    BY <1>5 DEF OnFileFd, Adjust, Optimize, OptimizeBehind, WriteRange, config
  <2>2. phase = "files" /\ noted = {}
    BY <2>1 DEF BlocksInv, Begun
  <2>3. TmpAligned'
    BY <1>3, <2>1, <2>2 DEF BlocksInv, BlocksRight, TmpAligned, TmpSize
  <2> QED BY <1>2, <1>3, <2>1, <2>2, <2>3 DEF Begun, BlocksRight
<1>6. CASE Planned
  <2>1. stage = "optimized" /\ stage' = "planned" /\ UNCHANGED <<out, blkSz, mapped>>
    BY <1>6 DEF Planned, config
  <2>2. phase = "files"
    BY <2>1 DEF BlocksInv, Begun
  <2>3. Aligned'
    BY <2>1 DEF BlocksInv, GeoInv, Cursor, Aligned
  <2>4. TmpAligned'
    BY <1>3, <2>1, <2>2 DEF BlocksInv, BlocksRight, TmpAligned, TmpSize
  <2> QED BY <1>2, <1>3, <2>1, <2>2, <2>3, <2>4 DEF Begun, BlocksRight
<1> QED BY <1>4, <1>5, <1>6 DEF Layout

LEMMA FormBlocks ==
    ASSUME BlocksInv,
           OnFolder \/ (\E f \in Files : OnFile(f)) \/ CompactCatalog \/ TreeStep
              \/ CompactOverflow \/ TreesBuilt
    PROVE  GeoInv' /\ Begun' /\ BlocksRight'
<1>1. UNCHANGED <<vars, tmpOff, place, allocLen, blks>>
  BY DEF OnFolder, OnFile, CompactCatalog, TreeStep, CompactOverflow, TreesBuilt, bits, hfsVars
<1>2. GeoInv'
  BY <1>1, StutterGeoInv DEF BlocksInv
<1>3. phase' = phase \/ (phase \notin {"runoff", "commit"} /\ phase' \notin {"runoff", "commit"})
  BY DEF OnFolder, OnFile, CompactCatalog, TreeStep, CompactOverflow, TreesBuilt, hfsVars
<1>4. BlocksRight'
  BY <1>1, <1>3, BlocksKept DEF BlocksInv
<1>5. stage' = stage /\ tmpOff' = tmpOff
  BY <1>1 DEF vars
<1>6. CASE OnFolder \/ \E f \in Files : OnFile(f)
  <2>1. stage = "planned"
    BY <1>6 DEF OnFolder, OnFile
  <2> QED BY <1>2, <1>4, <1>5, <2>1 DEF Begun
<1>7. CASE CompactCatalog
  <2>1. Root \in noted /\ phase = "files"
    BY <1>7, HfsAssumption DEF CompactCatalog, Root, Dirs, ToSet
  <2>2. stage = "planned"
    BY <2>1 DEF BlocksInv, Begun
  <2> QED BY <1>2, <1>4, <1>5, <2>2 DEF Begun
<1>8. CASE TreeStep \/ CompactOverflow \/ TreesBuilt
  <2>1. phase = "trees"
    BY <1>8 DEF TreeStep, CompactOverflow, TreesBuilt
  <2>2. stage = "planned"
    BY <2>1 DEF BlocksInv, Begun
  <2> QED BY <1>2, <1>4, <1>5, <2>2 DEF Begun
<1> QED BY <1>6, <1>7, <1>8

LEMMA LaidKept == ASSUME UNCHANGED laid PROVE Kept
BY DEF laid, config, Kept

LEMMA PlannedSize == ASSUME GeoInv, stage = "planned" PROVE blkSz \in SizeRange
BY DEF GeoInv, Sized, Laid

LEMMA TreeBlocks ==
    ASSUME Fitting, BlocksInv, NEW t \in Trees, WriteTree(t)
    PROVE  GeoInv' /\ Begun' /\ BlocksRight'
<1>1. phase = "write" /\ UNCHANGED laid /\ UNCHANGED <<noted, allocLen, blks, blkSz, mapped>>
  BY DEF WriteTree, laid, config, maps, bits
<1>2. CASE tmpOff % Sector # 0
  <2>1. stage' = "aborted" /\ UNCHANGED <<out, tmpOff, place, phase>>
    BY <1>2 DEF WriteTree
  <2>2. stage \in {"planned", "aborted"}
    BY <1>1 DEF BlocksInv, Begun
  <2>3. Kept
    BY <1>1, LaidKept
  <2>4. GeoInv'
    <3>1. CASE stage = "planned"
      BY <2>1, <2>3, <3>1, BehindGeoInv DEF BlocksInv
    <3>2. CASE stage = "aborted"
      <4>1. UNCHANGED <<stage, layout, dMap, plan, mask, blkSz, area, cols, table, out, mapped, tree>>
        BY <1>1, <2>1, <3>2 DEF laid, config
      <4>2. UNCHANGED vars
        BY <4>1 DEF vars, config
      <4> QED BY <4>2, StutterGeoInv DEF BlocksInv
    <3> QED BY <2>2, <3>1, <3>2
  <2>5. Begun'
    BY <1>1, <1>2, <2>1 DEF Begun
  <2>6. TmpAligned'
    BY <1>1, <2>1 DEF BlocksInv, BlocksRight, TmpAligned, TmpSize
  <2> QED BY <1>1, <2>1, <2>4, <2>5, <2>6 DEF BlocksRight
<1>3. CASE tmpOff % Sector = 0
  <2> DEFINE len == Len(finished[t].nodes) * NodeLen[t]
  <2>1. WrapToGo(t, len) /\ stage' = stage /\ phase' \in {"write", "bitmap"}
    BY <1>3 DEF WriteTree
  <2>2. stage = "planned"
    BY <1>1, <1>3 DEF BlocksInv, Begun
  <2>3. blkSz \in SizeRange /\ Aligned /\ TmpAligned
    BY <1>1, <2>2, PlannedSize DEF BlocksInv, BlocksRight
  <2>4. len \in Nat
    <3>1. IsList(finished[t].nodes)
      BY <1>1 DEF BlocksInv, Listed
    <3>2. Len(finished[t].nodes) \in Nat
      BY <3>1 DEF IsList
    <3>3. NodeLen[t] \in Nat
      BY HfsAssumption
    <3> QED BY <3>2, <3>3
  <2> HIDE DEF len
  <2>5. Aligned' /\ TmpAligned' /\ Extends(out', out)
    BY <1>1, <2>1, <2>3, <2>4, WrapStep
  <2>6. Kept
    BY <1>1, LaidKept
  <2>7. GeoInv'
    BY <2>1, <2>2, <2>5, <2>6, BehindGeoInv DEF BlocksInv
  <2> QED BY <2>1, <2>2, <2>5, <2>7 DEF Begun, BlocksRight
<1> QED BY <1>2, <1>3

LEMMA CommitBlocks ==
    ASSUME Fitting, BlocksInv, WriteBitmap \/ RunOff
    PROVE  GeoInv' /\ Begun' /\ BlocksRight'
<1>1. phase \in {"bitmap", "runoff"} /\ UNCHANGED laid
  BY DEF WriteBitmap, RunOff
<1>2. stage = "planned"
  BY <1>1 DEF BlocksInv, Begun
<1>3. blkSz \in SizeRange /\ Aligned /\ TmpAligned
  BY <1>1, <1>2, PlannedSize DEF BlocksInv, BlocksRight
<1>4. CASE WriteBitmap
  <2>1. stage' = "planned" /\ phase' = "runoff"
    BY <1>2, <1>4 DEF WriteBitmap
  <2>2. Aligned' /\ TmpAligned' /\ Extends(out', out) /\ Counted'
    BY <1>3, <1>4, BitmapStep
  <2>3. GeoInv'
    BY <1>1, <1>2, <2>1, <2>2, LaidKept, BehindGeoInv DEF BlocksInv
  <2> QED BY <2>1, <2>2, <2>3 DEF Begun, BlocksRight
<1>5. CASE RunOff
  <2>1. Counted
    BY <1>5 DEF RunOff, BlocksInv, BlocksRight
  <2>2. Aligned' /\ Extends(out', out) /\ stage' = stage /\ phase' = "commit" /\ Covered'
    BY <1>3, <1>5, <2>1, RunOffStep
  <2>3. GeoInv'
    BY <1>1, <1>2, <2>2, LaidKept, BehindGeoInv DEF BlocksInv
  <2> QED BY <1>2, <2>2, <2>3 DEF Begun, BlocksRight
<1> QED BY <1>4, <1>5

LEMMA BlocksStep == Fitting /\ BlocksInv /\ [HfsNext]_allVars => BlocksInv'
<1> SUFFICES ASSUME Fitting, BlocksInv, [HfsNext]_allVars PROVE BlocksInv'
  OBVIOUS
<1>1. Listed'
  BY ListedStep DEF BlocksInv
<1>2. CASE Layout /\ UNCHANGED <<treeVars, hfsVars>>
  BY <1>1, <1>2, LayoutBlocks DEF BlocksInv
<1>3. CASE OnFolder \/ (\E f \in Files : OnFile(f)) \/ CompactCatalog \/ TreeStep
              \/ CompactOverflow \/ TreesBuilt
  BY <1>1, <1>3, FormBlocks DEF BlocksInv
<1>4. CASE \E t \in Trees : WriteTree(t)
  BY <1>1, <1>4, TreeBlocks DEF BlocksInv
<1>5. CASE WriteBitmap \/ RunOff
  BY <1>1, <1>5, CommitBlocks DEF BlocksInv
<1>6. CASE WriteAllocation \/ ReadVolume \/ UNCHANGED allVars
  <2>1. UNCHANGED <<vars, phase, noted, tmpOff, place, allocLen, blks>>
    BY <1>6 DEF WriteAllocation, ReadVolume, allVars, hfsVars, maps, bits
  <2>2. GeoInv'
    BY <2>1, StutterGeoInv DEF BlocksInv
  <2>3. BlocksRight'
    BY <2>1, BlocksKept DEF BlocksInv
  <2>4. Begun'
    BY <2>1 DEF BlocksInv, Begun, vars
  <2> QED BY <1>1, <2>2, <2>3, <2>4 DEF BlocksInv
<1> QED BY <1>2, <1>3, <1>4, <1>5, <1>6 DEF HfsNext

LEMMA BlocksAlways == ASSUME Fitting PROVE HfsSpec => []BlocksInv
<1>1. HfsInit => BlocksInv
  BY BlocksInit
<1>2. BlocksInv /\ [HfsNext]_allVars => BlocksInv'
  BY BlocksStep
<1> QED BY <1>1, <1>2, PTL DEF HfsSpec

\* The allocation file has a bit for every block, however long the volume is.
THEOREM BlocksCounted == ASSUME Fitting PROVE HfsSpec => []AllBlocksCounted
<1>1. BlocksInv => AllBlocksCounted
  BY DEF BlocksInv, Begun, BlocksRight, Covered, AllBlocksCounted
<1> QED BY <1>1, BlocksAlways, PTL

\* The extents of the files are on blocks of the HFS+ volume's file area.
THEOREM HfsBlockAligned == ASSUME Fitting PROVE HfsSpec => []BlockAligned
<1>1. BlocksInv => BlockAligned
  BY GeoBlockAligned DEF BlocksInv
<1> QED BY <1>1, BlocksAlways, PTL

\* Every byte of a file is at its place in the HFS+ volume.
THEOREM HfsFilesReadBack == ASSUME Fitting, NoneShared, WholeSectors PROVE HfsSpec => []FilesReadBack
<1>1. BlocksInv => FilesReadBack
  BY GeoFilesReadBack DEF BlocksInv
<1> QED BY <1>1, BlocksAlways, PTL
-----------------------------------------------------------------------------
(***************************************************************************)
(* What is written for the allocation file.  If its ones end before the    *)
(* chunk does, so does its extent, and it is written at once.              *)
(***************************************************************************)
Chunked == \A b \in SizeRange : ChunkSize % b = 0

Fresh == bitmap = <<>> /\ chunk = [i \in 1 .. ChunkSize |-> "junk"]

InChunk == blks \div BitsPerByte < allocLen /\ blks \div BitsPerByte < ChunkSize

BitsRight ==
    /\ phase # "commit" => Fresh
    /\ phase = "commit" /\ InChunk => Fresh \/ (Len(bitmap) = allocLen /\ Allocation!Ones)

LEMMA OneChunk ==
    ASSUME Chunked, blkSz \in SizeRange, Covered, InChunk
    PROVE  allocLen \in Nat \ {0} /\ allocLen <= ChunkSize /\ blks \in Nat
<1>1. blkSz \in Nat \ {0} /\ ChunkSize \in Nat \ {0} /\ BitsPerByte \in Nat \ {0} /\ ChunkSize % blkSz = 0
  BY GeometryAssumption, HfsAssumption, BitsAssumption DEF Chunked
<1>2. PICK m \in Nat \ {0} : allocLen = m * blkSz /\ (m - 1) * (blkSz * BitsPerByte) <= blks
  BY DEF Covered
<1>3. blks \in Nat
  BY DEF Covered
<1> DEFINE c == ChunkSize \div blkSz
           q == blks \div BitsPerByte
           w == blkSz * BitsPerByte
<1>4. c \in Nat /\ ChunkSize = blkSz * c
  <2> DEFINE r == ChunkSize % blkSz
  <2>1. c \in Nat /\ ChunkSize = blkSz * c + r
    BY <1>1, NatDivision
  <2>2. r = 0
    BY <1>1
  <2> HIDE DEF c, r
  <2>3. blkSz * c + 0 = blkSz * c
    BY <1>1, <2>1
  <2> QED BY <2>1, <2>2, <2>3
<1>5. q \in Nat /\ q < ChunkSize /\ blks < BitsPerByte * (q + 1)
  <2> DEFINE r == blks % BitsPerByte
  <2>1. q \in Nat /\ r \in 0 .. BitsPerByte - 1 /\ blks = BitsPerByte * q + r
    BY <1>1, <1>3, NatDivision
  <2>2. q < ChunkSize
    BY DEF InChunk
  <2> HIDE DEF q, r
  <2>3. BitsPerByte * (q + 1) = BitsPerByte * q + BitsPerByte
    BY <1>1, <2>1
  <2> QED BY <1>1, <2>1, <2>2, <2>3
<1> HIDE DEF c, q
<1>6. BitsPerByte * (q + 1) <= c * w
  <2>1. BitsPerByte * (q + 1) <= BitsPerByte * ChunkSize
    <3>1. q + 1 <= ChunkSize /\ q + 1 \in Nat
      BY <1>1, <1>5
    <3> DEFINE a == q + 1
    <3> HIDE DEF a
    <3>2. BitsPerByte * a <= BitsPerByte * ChunkSize
      BY <1>1, <3>1 DEF a
    <3> QED BY <3>2 DEF a
  <2>2. BitsPerByte * ChunkSize = c * w
    BY <1>1, <1>4
  <2>3. BitsPerByte * (q + 1) \in Nat /\ BitsPerByte * ChunkSize \in Nat
    BY <1>1, <1>5
  <2> QED BY <2>1, <2>2, <2>3
<1>7. w \in Nat \ {0} /\ (m - 1) * w < c * w
  <2>1. w \in Nat \ {0}
    BY <1>1
  <2>2. (m - 1) * w <= blks
    BY <1>2
  <2> HIDE DEF w
  <2>3. (m - 1) * w \in Int /\ c * w \in Int /\ BitsPerByte * (q + 1) \in Int
    BY <1>1, <1>4, <1>5, <2>1
  <2> QED BY <1>3, <1>5, <1>6, <2>1, <2>2, <2>3
<1>8. m <= c
  <2> HIDE DEF w
  <2> QED BY <1>4, <1>7
<1>9. allocLen \in Nat \ {0} /\ allocLen <= ChunkSize
  <2>1. m * blkSz <= c * blkSz /\ m * blkSz \in Nat \ {0} /\ c * blkSz = blkSz * c
    BY <1>1, <1>4, <1>8
  <2>2. allocLen = m * blkSz
    BY <1>2
  <2> QED BY <1>4, <2>1, <2>2
<1> QED BY <1>3, <1>9

\* The chunk that is written.
LEMMA ChunkWritten ==
    ASSUME allocLen \in Nat \ {0}, allocLen <= ChunkSize, blks \in Nat, InChunk, Fresh,
           Allocation!WriteChunk, UNCHANGED <<blks, allocLen>>
    PROVE  Len(bitmap') = allocLen /\ Allocation!Ones'
<1>1. ChunkSize \in Nat \ {0} /\ BitsPerByte \in Nat \ {0}
  BY HfsAssumption, BitsAssumption
<1> DEFINE q == blks \div BitsPerByte
<1>2. q \in Nat /\ q < allocLen
  BY <1>1, NatDivision DEF InChunk
<1>3. chunk = [i \in 1 .. ChunkSize |-> "junk"] /\ bitmap = <<>> /\ Len(bitmap) = 0
  BY DEF Fresh
<1>4. Allocation!Smaller(allocLen - Len(bitmap), ChunkSize) = allocLen
  BY <1>1, <1>3 DEF Allocation!Smaller
<1>5. /\ chunk' = Allocation!Fill(0, allocLen)
      /\ bitmap' = <<>> \o SubSeq(chunk', 1, allocLen)
  BY <1>3, <1>4 DEF Allocation!WriteChunk
<1>6. Allocation!CountOfFF = q /\ Allocation!HasTrailingByte = (blks % BitsPerByte # 0)
  BY DEF Allocation!CountOfFF, Allocation!HasTrailingByte
<1> HIDE DEF q
<1>7. Allocation!Smaller(q - 0, allocLen) = q
  BY <1>2 DEF Allocation!Smaller
<1> DEFINE filled(i) == CASE i <= q -> "ff"
                          [] i = q + 1 /\ Allocation!HasTrailingByte -> "trail"
                          [] OTHER -> "00"
<1>8. Allocation!Fill(0, allocLen) =
        [i \in DOMAIN chunk |-> IF i <= allocLen THEN filled(i) ELSE chunk[i]]
  BY <1>2, <1>6, <1>7 DEF Allocation!Fill
<1> HIDE DEF filled
<1>9. /\ chunk' \in Seq({filled(i) : i \in 1 .. ChunkSize} \cup {"junk"}) /\ Len(chunk') = ChunkSize
      /\ \A i \in 1 .. allocLen : chunk'[i] = filled(i)
  <2> DEFINE T == {filled(i) : i \in 1 .. ChunkSize} \cup {"junk"}
  <2>1. chunk' \in [1 .. ChunkSize -> T]
    BY <1>3, <1>5, <1>8
  <2>2. chunk' \in Seq(T) /\ Len(chunk') = ChunkSize
    <3> HIDE DEF T
    <3> QED BY <1>1, <2>1
  <2>3. \A i \in 1 .. allocLen : chunk'[i] = filled(i)
    BY <1>1, <1>3, <1>5, <1>8
  <2> QED BY <2>2, <2>3
<1>10. bitmap' = SubSeq(chunk', 1, allocLen) /\ Len(bitmap') = allocLen
       /\ \A i \in 1 .. allocLen : bitmap'[i] = filled(i)
  <2> DEFINE T == {filled(i) : i \in 1 .. ChunkSize} \cup {"junk"}
             u == SubSeq(chunk', 1, allocLen)
  <2>1. u \in Seq(T) /\ Len(u) = allocLen /\ \A i \in 1 .. allocLen : u[i] = chunk'[i]
    <3> HIDE DEF T
    <3> QED BY <1>1, <1>9, SubSeqProperties DEF T
  <2> HIDE DEF T, u
  <2>2. <<>> \o u = u
    BY <2>1
  <2> QED BY <1>5, <1>9, <2>1, <2>2 DEF u
<1>11. DOMAIN bitmap' = 1 .. allocLen
  <2>1. bitmap' \in Seq({filled(i) : i \in 1 .. ChunkSize} \cup {"junk"})
    <3> DEFINE T == {filled(i) : i \in 1 .. ChunkSize} \cup {"junk"}
    <3>1. chunk' \in Seq(T) /\ Len(chunk') = ChunkSize
      BY <1>9
    <3> HIDE DEF T
    <3>2. SubSeq(chunk', 1, allocLen) \in Seq(T)
      BY <1>1, <3>1
    <3> QED BY <1>10, <3>2 DEF T
  <2> QED BY <1>10, <2>1
<1>12. ASSUME NEW i \in 1 .. allocLen PROVE filled(i) = Allocation!Bit(0 + i - 1)'
  <2>1. Allocation!CountOfFF' = q /\ Allocation!HasTrailingByte' = Allocation!HasTrailingByte
    BY <1>6 DEF Allocation!CountOfFF, Allocation!HasTrailingByte
  <2>2. (i <= q <=> 0 + i - 1 < q) /\ (i = q + 1 <=> 0 + i - 1 = q)
    BY <1>2
  <2> QED BY <2>1, <2>2 DEF filled, Allocation!Bit
<1> QED BY <1>10, <1>11, <1>12 DEF Allocation!Ones

LEMMA InChunkIs ==
    ASSUME allocLen \in Nat, blks \in Nat, blks \div BitsPerByte < Min({allocLen, ChunkSize})
    PROVE  InChunk
<1> DEFINE q == blks \div BitsPerByte
           m == Min({allocLen, ChunkSize})
<1>1. ChunkSize \in Nat
  BY HfsAssumption
<1>2. \E x \in {allocLen, ChunkSize} : \A y \in {allocLen, ChunkSize} : x <= y
  BY <1>1
<1>3. m \in {allocLen, ChunkSize} /\ m <= allocLen /\ m <= ChunkSize
  BY <1>2 DEF Min
<1>4. q \in Nat /\ q < m
  BY BitsAssumption, NatDivision
<1> HIDE DEF q, m
<1>5. q < allocLen /\ q < ChunkSize
  BY <1>1, <1>3, <1>4
<1> QED BY <1>5 DEF InChunk, q

LEMMA BitsInit == HfsInit => BitsRight
BY DEF HfsInit, BitsRight, Fresh

LEMMA BitsStep ==
    ASSUME Fitting, Chunked, BlocksInv, BitsRight, [HfsNext]_allVars
    PROVE  BitsRight'
<1>1. CASE UNCHANGED <<phase, allocLen, blks, chunk, bitmap>>
  <2>1. Fresh' = Fresh /\ InChunk' = InChunk /\ Allocation!Ones' = Allocation!Ones
    BY <1>1 DEF Fresh, InChunk, Allocation!Ones, Allocation!Bit, Allocation!CountOfFF,
                Allocation!HasTrailingByte
  <2> QED BY <1>1, <2>1 DEF BitsRight
<1>2. CASE phase # "commit" /\ UNCHANGED <<chunk, bitmap>>
  BY <1>2 DEF BitsRight, Fresh
<1>3. CASE WriteAllocation
  <2>1. phase = "commit" /\ stage = "planned" /\ Allocation!WriteChunk
        /\ UNCHANGED <<phase, allocLen, blks>>
    BY <1>3 DEF WriteAllocation
  <2>2. blkSz \in SizeRange /\ Covered
    BY <2>1, PlannedSize DEF BlocksInv, BlocksRight
  <2>3. ASSUME InChunk' PROVE Len(bitmap') = allocLen' /\ Allocation!Ones'
    <3>1. InChunk
      BY <2>1, <2>3 DEF InChunk
    <3>2. allocLen \in Nat \ {0} /\ allocLen <= ChunkSize /\ blks \in Nat
      BY <2>2, <3>1, OneChunk
    <3>3. CASE Fresh
      BY <2>1, <3>1, <3>2, <3>3, ChunkWritten
    <3>4. CASE Len(bitmap) = allocLen
      <4>1. Allocation!Smaller(allocLen - Len(bitmap), ChunkSize) <= 0
        BY <3>2, <3>4, HfsAssumption DEF Allocation!Smaller
      <4>2. Allocation!Smaller(allocLen - Len(bitmap), ChunkSize) > 0
        BY <2>1 DEF Allocation!WriteChunk
      <4> QED BY <3>2, <3>4, <4>1, <4>2, HfsAssumption DEF Allocation!Smaller
    <3> QED BY <2>1, <3>1, <3>3, <3>4 DEF BitsRight
  <2> QED BY <2>1, <2>3 DEF BitsRight
<1>4. CASE Layout /\ UNCHANGED <<treeVars, hfsVars>>
  BY <1>1, <1>4 DEF hfsVars, bits
<1>5. CASE OnFolder \/ (\E f \in Files : OnFile(f)) \/ CompactCatalog \/ TreeStep
              \/ CompactOverflow \/ TreesBuilt
  <2>1. UNCHANGED <<chunk, bitmap, allocLen, blks>> /\ (phase' = phase \/ phase # "commit")
    BY <1>5 DEF OnFolder, OnFile, CompactCatalog, TreeStep, CompactOverflow, TreesBuilt, bits, hfsVars
  <2> QED BY <1>1, <1>2, <2>1
<1>6. CASE (\E t \in Trees : WriteTree(t)) \/ WriteBitmap \/ RunOff
  <2>1. UNCHANGED <<chunk, bitmap>> /\ phase # "commit"
    BY <1>6 DEF WriteTree, WriteBitmap, RunOff, bits
  <2> QED BY <1>2, <2>1
<1>7. CASE ReadVolume \/ UNCHANGED allVars
  BY <1>1, <1>7 DEF ReadVolume, allVars, hfsVars, bits
<1> QED BY <1>3, <1>4, <1>5, <1>6, <1>7 DEF HfsNext

\* What is written for the allocation file has its ones where they belong, if
\* they do not fill the chunk.
THEOREM AllocationRight == ASSUME Fitting, Chunked PROVE HfsSpec => []AllocationWritten
<1>1. HfsInit => BitsRight
  BY BitsInit
<1>2. BlocksInv /\ BitsRight /\ [HfsNext]_allVars => BitsRight'
  BY BitsStep
<1>3. BlocksInv /\ BitsRight => AllocationWritten
  <2> SUFFICES ASSUME BlocksInv, BitsRight, blks \div BitsPerByte < Min({allocLen, ChunkSize})
               PROVE  Allocation!Ones
    BY DEF AllocationWritten
  <2>1. CASE bitmap = <<>>
    BY <2>1 DEF Allocation!Ones
  <2>2. CASE bitmap # <<>>
    <3>1. phase = "commit"
      BY <2>2 DEF BitsRight, Fresh
    <3>2. Covered
      BY <3>1 DEF BlocksInv, BlocksRight
    <3>3. allocLen \in Nat /\ blks \in Nat
      BY <3>2 DEF Covered
    <3> QED BY <2>2, <3>1, <3>3, InChunkIs DEF BitsRight, Fresh
  <2> QED BY <2>1, <2>2
<1> QED BY <1>1, <1>2, <1>3, BlocksAlways, PTL DEF HfsSpec
=============================================================================
