----------------------------- MODULE MCHfsVolume -----------------------------
(***************************************************************************)
(* Small source trees for HfsVolume: three files, one in a subdirectory.   *)
(* The unit of bytes is half a sector, as in MCGeometry.                   *)
(***************************************************************************)
EXTENDS HfsVolume, TLC

CONSTANTS f1, f2, f3, d1, d2, i1, i2, i3, z, zram, root, sub

Ids == (d1 :> 1) @@ (d2 :> 2) @@ (i1 :> 3) @@ (i2 :> 4) @@ (i3 :> 5) @@ (z :> 0) @@ (zram :> 6)

Path == <<root, sub>>

Parents == (f1 :> root) @@ (f2 :> sub) @@ (f3 :> root) @@ (sub :> root)

\* The names rank as their numbers; the label of the volume is 2.
Ranks == (f1 :> 1) @@ (f2 :> 1) @@ (f3 :> 4) @@ (sub :> 3) @@ (root :> 2)

RankLens == <<1, 2, 1, 2>>

\* One name in a composed and in a decomposed spelling, which are told apart in
\* the source and not in the volume.
Spellings == [Ranks EXCEPT ![f3] = Ranks[f1]]

\* A file of two extents apart, contiguous, or contiguous out of order.
Fragments ==
    {<<Extent(d1, 0, 4), Extent(d1, 16, 4)>>, <<Extent(d1, 16, 8), Extent(d1, 0, 6)>>,
     <<Extent(d1, 0, 8), Extent(d1, 8, 8)>>, <<Extent(d1, 8, 8), Extent(d2, 4, 2)>>}

Small == {<<>>, <<Extent(d1, 24, 4)>>, <<Extent(d2, 8, 16)>>, <<Extent(d2, 8, 8), Extent(d1, 24, 8)>>}

Third == {<<>>, <<Extent(d1, 32, 2)>>, <<Extent(d2, 32, 8), Extent(d1, 32, 8)>>}

Fragmented ==
    {(f1 :> a) @@ (f2 :> b) @@ (f3 :> c) : a \in Fragments, b \in Small, c \in Third}

\* Three fragments, the second next to the first on the disk and the third
\* behind another file.
Continued ==
    {(f1 :> <<Extent(d1, 0, 4), Extent(d1, 4, 4), Extent(d1, 16, 4)>>) @@ (f2 :> <<Extent(d1, 8, 8)>>) @@ (f3 :> <<>>)}

Whole ==
    {(f1 :> <<Extent(i1, 0, a)>>) @@ (f2 :> <<Extent(i2, 0, b)>>) @@ (f3 :> <<Extent(i3, 0, c)>>) :
        a \in 0 .. 5, b \in {0, 4, 7, 9}, c \in {0, 8}}

Numbers ==
    {(root :> CnidMod + 11) @@ (sub :> a) @@ (f1 :> b) @@ (f2 :> c) @@ (f3 :> 14) :
        a \in {10, CnidMod + 16}, b \in {12, CnidMod + 17}, c \in {13, 15}}

\* The entries have numbers of their own in a CNID, and none but the root has
\* one of the two that are reserved.
ASSUME NumbersAssumption ==
    \A n \in Numbers :
        /\ IsInjective([e \in DOMAIN n |-> n[e] % CnidMod])
        /\ \A e \in DOMAIN n \ {root} : n[e] % CnidMod \notin {RootParent, RootFolder}

\* Numbers that differ, and do not in a CNID.
Narrowed == {(root :> 11) @@ (sub :> 12) @@ (f1 :> 13) @@ (f2 :> 14) @@ (f3 :> CnidMod + 13)}

\* f1 and f3 are links to one file.
Linked == {(root :> 11) @@ (sub :> 12) @@ (f1 :> 13) @@ (f2 :> 14) @@ (f3 :> 13)}

NoTrees == {}

Sizes == [key |-> 1, folder |-> 2, file |-> 4, thread |-> 1, overKey |-> 2, over |-> 2]

NodeSizes == [t \in Trees |-> IF t = "catalog" THEN 18 ELSE 16]

NodeBytes == [t \in Trees |-> IF t = "catalog" THEN 8 ELSE 4]
==============================================================================
