----------------------------- MODULE TreeBuilder -----------------------------
(***************************************************************************)
(* TreeBuilder of impl/hfplus.h: a sorted map is compacted into the leaf   *)
(* nodes of a B-tree, the first keys of these into index nodes, and so on  *)
(* up to one root; then the bitmap of the nodes is put in what the header  *)
(* node has left, and in map nodes if that is too small.  One action per   *)
(* loop iteration.                                                         *)
(*                                                                         *)
(* A record is [key, klen, vlen, value]; a key is a pair, as both trees of *)
(* a volume compare it: the parent and the name, the file and the block.   *)
(* Nodes are numbered from 0 in the code, so that node n is nodes[n + 1].  *)
(***************************************************************************)
EXTENDS BitCounts, SequencesExt

CONSTANTS
    Maps,        \* the maps a tree may be built of, each with its node size
    DescSize,    \* sizeof BTNodeDescriptor
    OffSize,     \* sizeof NodeRecOff
    HeadSize,    \* what headerRec takes: descriptor, header and user record
    PointerSize  \* sizeof BTIndexPointer

KeyLess(a, b) == a[1] < b[1] \/ (a[1] = b[1] /\ a[2] < b[2])

SortedKeys(recs) ==
    \A i, j \in DOMAIN recs : i < j => KeyLess(recs[i].key, recs[j].key)

Records(values) == [key : Int \X Int, klen : Nat, vlen : Nat, value : values]

IsMap(recs) == recs \in Seq(Records({recs[i].value : i \in DOMAIN recs})) /\ SortedKeys(recs)

\* What a record takes in a node.
RecordSize(rec) == rec.klen + rec.vlen

\* Node sizes are such that an empty node holds any record, and an index node
\* three.
RoomForRecords(recs, size) ==
    /\ HeadSize + OffSize <= size
    /\ \A i \in DOMAIN recs :
          /\ DescSize + 2 * OffSize + RecordSize(recs[i]) <= size
          /\ DescSize + OffSize + 3 * (recs[i].klen + PointerSize + OffSize) <= size

ASSUME TreeAssumption ==
    /\ {DescSize, OffSize, HeadSize, PointerSize} \subseteq Nat
    /\ DescSize + OffSize <= HeadSize
    /\ \A m \in Maps : IsMap(m.recs) /\ m.nodeSize \in Nat /\ RoomForRecords(m.recs, m.nodeSize)

VARIABLES
    data,      \* the map the tree is built of, in the order of its keys
    nodeSize,  \* BTHeaderRec::nodeSize
    building,  \* "level", "map" or "built"
    nodes,     \* TreeBuilder::nodeList
    next,      \* the node that is being filled, a sequence of length one
    rest,      \* the records of this level not yet in a node
    indices,   \* the first key of each node of this level
    header,    \* the fields of BTHeaderRec
    mapDone    \* how much of the node bitmap has its place

treeVars == <<data, nodeSize, building, nodes, next, rest, indices, header, mapDone>>

NodeCount == Len(nodes)

\* NodeSpec: the descriptor and the first offset.
NewNode(kind, level) ==
    [kind |-> kind, height |-> level, fLink |-> 0, bLink |-> 0,
     recs |-> <<>>, size |-> DescSize + OffSize]

HeaderNode == [NewNode("header", 0) EXCEPT !.size = HeadSize]

NoHeader == [root |-> 0, depth |-> 0, first |-> 0, last |-> 0, leafRecords |-> 0, totalNodes |-> 0]

\* NodeSpec::fitsIn, NodeSpec::addRecord and markRecord
FitsIn(node, rec) == node.size + RecordSize(rec) + OffSize <= nodeSize

AddRecord(node, rec) ==
    [node EXCEPT !.recs = Append(@, rec), !.size = @ + RecordSize(rec) + OffSize]

FreeSpace(node) == nodeSize - node.size - OffSize

\* An index record: the key and the number of the node it opens.
Pointer(rec, node) ==
    [key |-> rec.key, klen |-> rec.klen, vlen |-> PointerSize, value |-> node]

\* The head of compactLevel, for the records of a level.
OpenLevel(recs, kind, level) ==
    /\ next' = <<NewNode(kind, level)>>
    /\ rest' = recs
    /\ indices' = <<>>

\* The head of compactBTree.
BeginTree(recs, size) ==
    /\ data' = recs
    /\ nodeSize' = size
    /\ nodes' = <<HeaderNode>>
    /\ mapDone' = 0
    /\ IF recs = <<>>
       THEN building' = "map" /\ header' = NoHeader /\ next' = <<>> /\ rest' = <<>> /\ indices' = <<>>
       ELSE building' = "level" /\ header' = [NoHeader EXCEPT !.first = 1] /\ OpenLevel(recs, "leaf", 1)

TreeInit ==
    \E m \in Maps :
        /\ data = m.recs /\ nodeSize = m.nodeSize
        /\ nodes = <<HeaderNode>> /\ mapDone = 0
        /\ building = IF m.recs = <<>> THEN "map" ELSE "level"
        /\ header = IF m.recs = <<>> THEN NoHeader ELSE [NoHeader EXCEPT !.first = 1]
        /\ next = IF m.recs = <<>> THEN <<>> ELSE <<NewNode("leaf", 1)>>
        /\ rest = m.recs /\ indices = <<>>

\* Mutant of the action below: the offset of the new record is not counted.
FillTight ==
    /\ building = "level" /\ rest # <<>>
    /\ next[1].size + RecordSize(Head(rest)) <= nodeSize
    /\ next' = <<AddRecord(next[1], Head(rest))>>
    /\ indices' = IF next[1].recs = <<>> THEN Append(indices, Pointer(Head(rest), NodeCount))
                  ELSE indices
    /\ rest' = Tail(rest)
    /\ UNCHANGED <<data, nodeSize, building, nodes, header, mapDone>>

\* An iteration of compactLevel whose record goes into the open node.
FillNode ==
    /\ building = "level" /\ rest # <<>>
    /\ FitsIn(next[1], Head(rest))
    /\ next' = <<AddRecord(next[1], Head(rest))>>
    /\ indices' = IF next[1].recs = <<>> THEN Append(indices, Pointer(Head(rest), NodeCount))
                  ELSE indices
    /\ rest' = Tail(rest)
    /\ UNCHANGED <<data, nodeSize, building, nodes, header, mapDone>>

\* Mutants of the action below: the key exposed is the last one of the full
\* node; the full node is linked to itself.
FullNodeLastKey ==
    /\ building = "level" /\ rest # <<>>
    /\ ~FitsIn(next[1], Head(rest))
    /\ LET pastIndex == NodeCount
           fresh == [NewNode(next[1].kind, next[1].height) EXCEPT !.bLink = pastIndex]
       IN  /\ nodes' = Append(nodes, [next[1] EXCEPT !.fLink = pastIndex + 1])
           /\ next' = <<AddRecord(fresh, Head(rest))>>
           /\ indices' = Append(indices, Pointer(next[1].recs[Len(next[1].recs)], pastIndex + 1))
    /\ rest' = Tail(rest)
    /\ UNCHANGED <<data, nodeSize, building, header, mapDone>>

FullNodeSelf ==
    /\ building = "level" /\ rest # <<>>
    /\ ~FitsIn(next[1], Head(rest))
    /\ LET pastIndex == NodeCount
           fresh == [NewNode(next[1].kind, next[1].height) EXCEPT !.bLink = pastIndex]
       IN  /\ nodes' = Append(nodes, [next[1] EXCEPT !.fLink = pastIndex])
           /\ next' = <<AddRecord(fresh, Head(rest))>>
           /\ indices' = Append(indices, Pointer(Head(rest), pastIndex + 1))
    /\ rest' = Tail(rest)
    /\ UNCHANGED <<data, nodeSize, building, header, mapDone>>

\* An iteration of compactLevel that finds the open node full: it is listed,
\* linked to the one that follows, and the record goes into that.
FullNode ==
    /\ building = "level" /\ rest # <<>>
    /\ ~FitsIn(next[1], Head(rest))
    /\ LET pastIndex == NodeCount
           fresh == [NewNode(next[1].kind, next[1].height) EXCEPT !.bLink = pastIndex]
       IN  /\ nodes' = Append(nodes, [next[1] EXCEPT !.fLink = pastIndex + 1])
           /\ next' = <<AddRecord(fresh, Head(rest))>>
           /\ indices' = Append(indices, Pointer(Head(rest), pastIndex + 1))
    /\ rest' = Tail(rest)
    /\ UNCHANGED <<data, nodeSize, building, header, mapDone>>

\* The end of compactLevel, and the loop of compactBTree: the level above is
\* opened, or this node is the root.
EndLevel ==
    /\ building = "level" /\ rest = <<>>
    /\ nodes' = Append(nodes, next[1])
    /\ LET level == next[1].height
           leaves == IF level > 1 THEN header
                     ELSE [header EXCEPT !.last = NodeCount, !.leafRecords = Len(data)]
       IN  IF Len(indices) > 1
           THEN /\ header' = leaves
                /\ OpenLevel(indices, "index", level + 1)
                /\ UNCHANGED building
           ELSE /\ header' = [leaves EXCEPT !.root = NodeCount, !.depth = level]
                /\ building' = "map"
                /\ next' = <<>>
                /\ UNCHANGED <<rest, indices>>
    /\ UNCHANGED <<data, nodeSize, mapDone>>

\* The node the next part of the bitmap goes to: the header node, then the
\* last map node.
MapNode == IF nodes[NodeCount].kind = "map" THEN NodeCount ELSE 1

\* Mutant of the action below: the loop ends before it counts the map node.
AddMapOnce ==
    /\ building = "map"
    /\ LET mset == FreeSpace(nodes[MapNode])
           fresh == [NewNode("map", 0) EXCEPT !.bLink = IF MapNode = 1 THEN 0 ELSE NodeCount - 1]
           full == [nodes EXCEPT ![MapNode].size = nodeSize]
           more == mapDone = 0 /\ mset < ByteCount(NodeCount)
       IN  /\ mapDone' = mapDone + mset
           /\ nodes' = IF more
                       THEN Append([full EXCEPT ![MapNode].fLink = NodeCount], fresh)
                       ELSE full
           /\ building' = IF more THEN "map" ELSE "built"
    /\ header' = [header EXCEPT !.totalNodes = Len(nodes')]
    /\ UNCHANGED <<data, nodeSize, next, rest, indices>>

\* An iteration of the loop over the bitmap of the nodes, in which a map node
\* is itself a node to be counted.
AddMap ==
    /\ building = "map"
    /\ LET mset == FreeSpace(nodes[MapNode])
           fresh == [NewNode("map", 0) EXCEPT !.bLink = IF MapNode = 1 THEN 0 ELSE NodeCount - 1]
           full == [nodes EXCEPT ![MapNode].size = nodeSize]
           more == mapDone + mset < ByteCount(NodeCount)
       IN  /\ mapDone' = mapDone + mset
           /\ nodes' = IF more
                       THEN Append([full EXCEPT ![MapNode].fLink = NodeCount], fresh)
                       ELSE full
           /\ building' = IF more THEN "map" ELSE "built"
    /\ header' = [header EXCEPT !.totalNodes = Len(nodes')]
    /\ UNCHANGED <<data, nodeSize, next, rest, indices>>

TreeNext == FillNode \/ FullNode \/ EndLevel \/ AddMap

TreeSpec == TreeInit /\ [][TreeNext]_treeVars

-----------------------------------------------------------------------------
\* The number of the record a search for the key follows in a node.
Followed(node, key) ==
    LET upTo == {i \in DOMAIN node.recs : ~KeyLess(key, node.recs[i].key)}
    IN  IF upTo = {} THEN 1 ELSE CHOOSE i \in upTo : \A j \in upTo : j <= i

\* The nodes a reader goes through from the root down, one of each level.
Descent(ns, head, key) ==
    LET at[l \in 1 .. head.depth] ==
            IF l = 1 THEN ns[head.root + 1]
            ELSE ns[at[l-1].recs[Followed(at[l-1], key)].value + 1]
    IN  at

\* The last record of the leaf it reaches whose key is not above the one it
\* looks for.
Search(ns, head, key) ==
    LET leaf == Descent(ns, head, key)[head.depth]
    IN  IF head.depth = 0 \/ leaf.kind # "leaf" THEN <<>>
        ELSE <<leaf.recs[Followed(leaf, key)]>>

\* What the tree has for the key, or nothing.
Find(ns, head, key) ==
    LET found == Search(ns, head, key)
    IN  IF found # <<>> /\ found[1].key = key THEN <<found[1].value>> ELSE <<>>
-----------------------------------------------------------------------------
(***************************************************************************)
(* No node holds more than its size, records and offsets: writeTo has room *)
(* for what it pads, in every node of every level and of the bitmap.       *)
(***************************************************************************)
NodesFit ==
    /\ \A n \in DOMAIN nodes : nodes[n].size <= nodeSize
    /\ \A n \in DOMAIN next : next[n].size <= nodeSize

(***************************************************************************)
(* A node that is not the last of its level is linked to the next one, and *)
(* that one back to it, while the list grows and other levels follow.      *)
(***************************************************************************)
SiblingsLinked ==
    \A n \in 2 .. NodeCount - 1 :
        /\ nodes[n].fLink \in {0, n}
        /\ nodes[n].fLink = n =>
              nodes[n+1].bLink = n - 1 /\ nodes[n+1].height = nodes[n].height
        /\ nodes[n].fLink = 0 => nodes[n+1].height # nodes[n].height

(***************************************************************************)
(* The finished tree answers for every key of the map it was built of,     *)
(* however the records fall into nodes and levels.                         *)
(***************************************************************************)
KeysFound ==
    building = "built" =>
        \A i \in DOMAIN data : Find(nodes, header, data[i].key) = <<data[i].value>>

\* Its bitmap has a bit for every node, the nodes of the bitmap included.
NodesMapped == building = "built" => mapDone * BitsPerByte >= NodeCount
==============================================================================
