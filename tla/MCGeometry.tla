----------------------------- MODULE MCGeometry ------------------------------
(***************************************************************************)
(* Small source trees for Geometry.  The unit is half a sector.            *)
(***************************************************************************)
EXTENDS Geometry, TLC

CONSTANTS f1, f2, d1, d2, i1, i2, z

Overlap(xt, yt) ==
    /\ xt.med = yt.med
    /\ xt.off < yt.off + yt.len /\ yt.off < xt.off + xt.len

\* Lists of at most two extents that do not overlap each other.
Lists(extents) ==
    {<<>>} \cup {<<xt>> : xt \in extents} \cup
    {<<p[1], p[2]>> : p \in {q \in extents \X extents : ~Overlap(q[1], q[2])}}

\* Two files that share no block, or all of them (a hard link).
Apart(t) ==
    \/ t[f1] = t[f2]
    \/ \A xt \in ToSet(t[f1]), yt \in ToSet(t[f2]) : ~Overlap(xt, yt)

\* Two disks: extents of whole sectors.
DiskExtents ==
    {Extent(d1, o, l) : o \in {0, 4, 8}, l \in {2, 4}} \cup
    {Extent(d1, 12, 4), Extent(d2, 2, 2), Extent(d2, 4, 4), Extent(d2, 8, 8)}

DiskTrees == {t \in [{f1, f2} -> Lists(DiskExtents)] : Apart(t)}

\* Extents that several files share in part, as a copy-on-write filesystem
\* reports them.
SharedTrees == [{f1, f2} -> {<<xt>> : xt \in DiskExtents}]

\* Extents the locator cannot map, of two or four sectors.
BlankTrees ==
    [{f1, f2} -> {<<Extent(z, 0, 4)>>, <<Extent(z, 0, 8)>>,
                  <<Extent(z, 0, 4), Extent(d1, 4, 4)>>}]

\* A blank that is not of whole sectors, as an inlined tail is listed.
TailTrees == {(f1 :> list) @@ (f2 :> <<Extent(d1, 8, 4)>>) :
                list \in {<<Extent(z, 0, 3)>>, <<Extent(d1, 4, 4), Extent(z, 0, 1)>>}}

\* Whole files, as NoLocator answers them; a medium is an inode, and two names
\* may be links to the same one.
Inodes(sizes) ==
    UNION {[{f1, f2} -> {<<Extent(i1, 0, sz[i1])>>, <<Extent(i2, 0, sz[i2])>>}] :
              sz \in [{i1, i2} -> sizes]}

InodeTrees == Inodes(0 .. 5)

\* The numbers of the block devices and of the inodes.
Ids == (d1 :> 1) @@ (d2 :> 2) @@ (i1 :> 3) @@ (i2 :> 4) @@ (z :> 0)

NoTrees == {}

\* Inode numbers of two filesystems.
SameIds == [Ids EXCEPT ![i2] = Ids[i1]]
==============================================================================
