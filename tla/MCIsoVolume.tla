----------------------------- MODULE MCIsoVolume -----------------------------
(***************************************************************************)
(* Small source trees for IsoVolume: four directories, the third inside    *)
(* the second, and three files.  The unit of bytes is half a sector, as in *)
(* MCGeometry.                                                             *)
(***************************************************************************)
EXTENDS IsoVolume, TLC

CONSTANTS f1, f2, f3, d1, d2, i1, i2, i3, z, zram, root, a, b, c

Ids == (d1 :> 1) @@ (d2 :> 2) @@ (i1 :> 3) @@ (i2 :> 4) @@ (i3 :> 5) @@ (z :> 0) @@ (zram :> 6)

\* The order of a crawl in depth; the table goes in breadth.
Path == <<root, a, b, c>>

Listing == (root :> <<a, f1, c>>) @@ (a :> <<b, f2, f3>>) @@ (b :> <<>>) @@ (c :> <<>>)

\* Characters: digits below 10, lower case 11 to 13, upper case 21 to 23.
Dot == 30

Semicolon == 32

Low == 31

Lower == (11 :> 21) @@ (12 :> 22) @@ (13 :> 23)

Spared == [x \in (0 .. 40) \ {Dot, Semicolon} |-> x]

Upper == Lower @@ (Dot :> Low) @@ (Semicolon :> Low) @@ Spared

Same == (Dot :> Dot) @@ (Semicolon :> Low) @@ Spared

VolumeRules ==
    <<[ext |-> 2, base |-> 2, spay |-> Upper, forceDot |-> TRUE, version |-> <<1>>],
      [ext |-> 2, base |-> 4, spay |-> Same, forceDot |-> FALSE, version |-> <<1>>]>>

Texts(ra, rf, rc, af, ab, ag) ==
    (a :> ra) @@ (f1 :> rf) @@ (c :> rc) @@ (f2 :> af) @@ (b :> ab) @@ (f3 :> ag) @@ (root :> <<>>)

\* Names that differ by case only, before the dot, or after what is cut; with a
\* stem in common; and two pairs that are written alike: in Joliet where one name
\* is cut at its dot and the other one is shortened behind its own, in the primary
\* volume where the extensions differ by case.
Texting ==
    {Texts(<<12>>, <<11, Dot, 12>>, <<11>>, <<13, Dot>>, <<13>>, <<Dot, 11>>),
     Texts(<<11>>, <<21, Dot, 12>>, <<12, 11, 11>>, <<12, 12, 12, Dot, 11>>, <<12, 12, 11>>,
           <<12, 12, 12, Dot, 13>>),
     Texts(<<11>>, <<11, 1>>, <<21>>, <<11, Dot, 11, 11, 11>>, <<11, 1>>, <<11, 11, Dot, 11, 12>>),
     Texts(<<12>>, <<11>>, <<11, Semicolon>>, <<12, 12, Dot, 11>>, <<12>>,
           <<12, 12, Dot, 11, 12, Dot, 11, 11, 11>>),
     Texts(<<12>>, <<11>>, <<13>>, <<11, Dot, 12>>, <<11>>, <<11, Dot, 22>>)}

Fragments ==
    {<<Extent(d1, 0, 4), Extent(d1, 16, 4)>>, <<Extent(d1, 16, 8), Extent(d1, 0, 6)>>,
     <<Extent(d1, 0, 4), Extent(d2, 8, 8), Extent(d1, 8, 6)>>}

Small == {<<Extent(d1, 24, 4)>>, <<Extent(d2, 16, 8), Extent(d1, 24, 8)>>}

Third == {<<Extent(d1, 32, 2)>>, <<Extent(d2, 32, 8), Extent(d1, 36, 4)>>}

Fragmented ==
    {(f1 :> x) @@ (f2 :> y) @@ (f3 :> w) : x \in Fragments, y \in Small, w \in Third}

\* A file without extents.
Bare == {(f1 :> <<Extent(d1, 0, 4)>>) @@ (f2 :> <<>>) @@ (f3 :> <<Extent(d1, 8, 4)>>)}

Whole ==
    {(f1 :> <<Extent(i1, 0, x)>>) @@ (f2 :> <<Extent(i2, 0, y)>>) @@ (f3 :> <<Extent(i3, 0, 3)>>) :
        x \in {0, 3, 5}, y \in {0, 8}}

NoTrees == {}
==============================================================================
