----------------------------- MODULE MCFatVolume -----------------------------
(***************************************************************************)
(* The source trees of MCGeometry in two directories: one file in the      *)
(* root, one with a long name in a subdirectory.  Then many small files in *)
(* one directory.                                                          *)
(***************************************************************************)
EXTENDS FatVolume, MCGeometry

CONSTANTS r, s

VolumeIds == Ids @@ (r :> 5) @@ (s :> 6)

Path == <<r, s>>

Names == (r :> {f1, s}) @@ (s :> {f2})

NameSlots == (f1 :> 1) @@ (f2 :> 3) @@ (s :> 1)

\* Each file is an inode of its own, of one byte.
CrumbIds == FoldSet(LAMBDA m, ids : Put(ids, m, Cardinality(DOMAIN ids)), <<>>, Media)

CrumbTrees == {[f \in Files |-> <<Extent(f, 0, 1)>>]}

CrumbPath == <<r>>

CrumbNames == r :> Files

CrumbSlots == [f \in Files |-> 1]

\* The files of these trees share extents as hard links do, and not otherwise;
\* an extent is empty only where a file has no other; no file is on a directory.
ASSUME FatTreesAssumption ==
    \A t \in ExtentTrees \cup FileTrees :
        /\ Undivided(UNION {ToSet(t[f]) : f \in Files})
        /\ \A f, g \in Files : \A i \in DOMAIN t[f], j \in DOMAIN t[g] :
              t[f][i] = t[g][j] => t[f] = t[g] /\ i = j
        /\ \A f, g \in Files : \A i \in DOMAIN t[f] : t[f][i].len > 0 \/ Len(t[g]) <= 1
        /\ \A f \in Files : \A i \in DOMAIN t[f] : t[f][i].med \notin Dirs

\* What is copied is whole files: NoLocator.
ASSUME FileTreesAssumption ==
    \A t \in FileTrees : \A f \in Files :
        /\ Len(t[f]) = 1 /\ t[f][1].off = 0 /\ t[f][1].med \notin Disks
==============================================================================
