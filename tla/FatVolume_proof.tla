--------------------------- MODULE FatVolume_proof ---------------------------
(***************************************************************************)
(* What the FAT32 volume promises to its readers, for every tree of        *)
(* directories, and that the layout of the files keeps its promises        *)
(* whatever the volume puts behind them.                                   *)
(***************************************************************************)
EXTENDS FatVolume, Geometry_proof

-----------------------------------------------------------------------------
LEMMA FatGeoInv == FatSpec => []GeoInv
<1>1. FatInit => GeoInv
  BY InitGeoInv DEF FatInit
<1>2. ASSUME GeoInv, [FatNext]_allVars PROVE GeoInv'
  <2>1. CASE Layout
    BY <1>2, <2>1, LayoutGeoInv DEF Layout, Next
  <2>2. CASE ReserveFat
    BY <1>2, <2>2, StutterGeoInv DEF ReserveFat
  <2>3. CASE \E f \in Files : ChainFile(f)
    <3>1. Kept /\ stage = "planned" /\ stage' \in {"planned", "aborted"} /\ out' = out
      BY <2>3 DEF ChainFile, Kept, config
    <3> QED BY <1>2, <3>1, BehindGeoInv
  <2>4. CASE WriteDir
    <3>1. /\ Kept /\ stage = "planned" /\ stage' \in {"planned", "aborted"}
          /\ out' = out \/ \E x : out' = Append(out, x)
      BY <2>4 DEF WriteDir, Kept, config
    <3>2. IsList(out)
      BY <1>2, <3>1 DEF GeoInv, Writing, Laid
    <3> QED BY <1>2, <3>1, <3>2, AppendKeeps, BehindGeoInv
  <2>5. CASE Claim
    <3>1. /\ Kept /\ stage = "planned" /\ stage' \in {"planned", "aborted"}
          /\ out' = out \/ \E x : out' = Append(out, x)
      BY <2>5 DEF Claim, Kept, config, Appended
    <3>2. IsList(out)
      BY <1>2, <3>1 DEF GeoInv, Writing, Laid
    <3> QED BY <1>2, <3>1, <3>2, AppendKeeps, BehindGeoInv
  <2>6. CASE UNCHANGED allVars
    BY <1>2, <2>6, StutterGeoInv DEF allVars
  <2> QED BY <1>2, <2>1, <2>2, <2>3, <2>4, <2>5, <2>6 DEF FatNext
<1> QED BY <1>1, <1>2, PTL DEF FatSpec

(***************************************************************************)
(* The extents of every file are aligned to blocks of the file area, for   *)
(* any extents, shared or not, any gap and any block sizes.                *)
(***************************************************************************)
THEOREM BlockAlignedAlways == FatSpec => []BlockAligned
BY FatGeoInv, GeoBlockAligned, PTL

(***************************************************************************)
(* Every byte of every file is read at the place withinDisk notes for it,  *)
(* from the mapped device as from the copied image, for any trees whose    *)
(* files share no extent in part, any gap and any block sizes.             *)
(***************************************************************************)
THEOREM FilesReadBackAlways == ASSUME NoneShared, WholeSectors PROVE FatSpec => []FilesReadBack
<1>1. GeoInv => FilesReadBack
  BY GeoFilesReadBack
<1> QED BY <1>1, FatGeoInv, PTL
-----------------------------------------------------------------------------
(***************************************************************************)
(* Sums.  What the folds of the library add up, over sets that are finite. *)
(***************************************************************************)
\* What the fold of the library adds up of numbers is a number.
Added(s, f, g) == IF s = {} THEN 0 ELSE LET x == CHOOSE x \in s : TRUE IN f[x] + g[s \ {x}]

IsAdding(g, f, R) == g = [s \in R |-> Added(s, f, g)]

Smaller(S, n) == {s \in SUBSET S : Cardinality(s) <= n}

LEMMA SmallerIs ==
    ASSUME NEW S, IsFiniteSet(S), NEW n \in Nat
    PROVE  /\ \A s \in SUBSET S : IsFiniteSet(s) /\ Cardinality(s) \in Nat
           /\ Smaller(S, n) \subseteq Smaller(S, n + 1)
           /\ \A s \in Smaller(S, n) : s \in SUBSET S
           /\ \A s \in Smaller(S, n + 1) : s # {} => s \ {CHOOSE x \in s : TRUE} \in Smaller(S, n)
           /\ Smaller(S, 0) = {{}}
           /\ SUBSET S = Smaller(S, Cardinality(S))
<1>1. \A s \in SUBSET S : IsFiniteSet(s) /\ Cardinality(s) \in Nat /\ Cardinality(s) <= Cardinality(S)
  BY FS_Subset, FS_CardinalityType
<1>2. ASSUME NEW s \in Smaller(S, n + 1), s # {} PROVE s \ {CHOOSE x \in s : TRUE} \in Smaller(S, n)
  <2>1. (CHOOSE x \in s : TRUE) \in s
    BY <1>2
  <2> DEFINE x == CHOOSE x \in s : TRUE
  <2> HIDE DEF x
  <2>2. IsFiniteSet(s) /\ s \in SUBSET S /\ Cardinality(s) <= n + 1 /\ Cardinality(s) \in Nat
    BY <1>1 DEF Smaller
  <2>3. Cardinality(s \ {x}) = Cardinality(s) - 1
    BY <2>1, <2>2, FS_RemoveElement DEF x
  <2>4. s \ {x} \in Smaller(S, n)
    BY <2>2, <2>3 DEF Smaller
  <2> QED BY <2>4 DEF x
<1>3. Smaller(S, 0) = {{}}
  <2>1. ASSUME NEW s \in Smaller(S, 0) PROVE s = {}
    <3>1. IsFiniteSet(s) /\ Cardinality(s) \in Nat /\ Cardinality(s) <= 0
      BY <1>1 DEF Smaller
    <3> QED BY <3>1, FS_EmptySet
  <2>2. {} \in Smaller(S, 0)
    BY FS_EmptySet DEF Smaller
  <2> QED BY <2>1, <2>2
<1>4. Smaller(S, n) \subseteq Smaller(S, n + 1)
  BY <1>1 DEF Smaller
<1>5. SUBSET S = Smaller(S, Cardinality(S))
  BY <1>1 DEF Smaller
<1>6. \A s \in Smaller(S, n) : s \in SUBSET S
  BY DEF Smaller
<1> QED BY <1>1, <1>2, <1>3, <1>4, <1>5, <1>6

LEMMA AddingExists ==
    ASSUME NEW S, IsFiniteSet(S), NEW f
    PROVE  \E g : IsAdding(g, f, SUBSET S)
<1> DEFINE T == {n \in Nat : \E g : IsAdding(g, f, Smaller(S, n))}
<1>1. 0 \in T
  <2> DEFINE g == [s \in {{}} |-> 0]
  <2>1. IsAdding(g, f, {{}})
    BY DEF IsAdding, Added
  <2> HIDE DEF g
  <2>2. Smaller(S, 0) = {{}}
    <3>1. 0 \in Nat
      OBVIOUS
    <3> QED BY <3>1, SmallerIs
  <2>3. \E h : IsAdding(h, f, Smaller(S, 0))
    BY <2>1, <2>2
  <2> QED BY <2>3
<1>2. ASSUME NEW n \in T PROVE n + 1 \in T
  <2>1. PICK g : IsAdding(g, f, Smaller(S, n))
    BY <1>2
  <2> DEFINE R == Smaller(S, n)
             Q == Smaller(S, n + 1)
             h == [s \in Q |-> IF s \in R THEN g[s] ELSE Added(s, f, g)]
  <2>2. /\ R \subseteq Q
        /\ \A s \in Q : s # {} => s \ {CHOOSE x \in s : TRUE} \in R
    BY SmallerIs
  <2> HIDE DEF R, Q
  <2>3. \A s \in R : h[s] = g[s]
    BY <2>2
  <2>4. \A s \in Q : Added(s, f, h) = Added(s, f, g)
    <3> HIDE DEF h
    <3> QED BY <2>2, <2>3 DEF Added
  <2>5. \A s \in R : g[s] = Added(s, f, g)
    BY <2>1 DEF IsAdding, R
  <2>6. \A s \in Q : h[s] = Added(s, f, h)
    BY <2>4, <2>5
  <2>7. h = [s \in Q |-> Added(s, f, h)]
    BY <2>6
  <2> HIDE DEF h
  <2>8. IsAdding(h, f, Smaller(S, n + 1))
    BY <2>7 DEF IsAdding, Q
  <2> QED BY <2>8
<1>3. T = Nat
  <2>1. T \in SUBSET Nat
    OBVIOUS
  <2> HIDE DEF T
  <2> QED BY <2>1, <1>1, <1>2, NatSetInduction
<1>4. Cardinality(S) \in Nat
  BY FS_CardinalityType
<1>5. SUBSET S = Smaller(S, Cardinality(S))
  BY <1>4, SmallerIs
<1>6. \E g : IsAdding(g, f, Smaller(S, Cardinality(S)))
  BY <1>3, <1>4
<1> HIDE DEF T
<1> QED BY <1>5, <1>6

SumOf(f, S) == (CHOOSE g : IsAdding(g, f, SUBSET S))[S]

LEMMA SumIsNat ==
    ASSUME NEW S, IsFiniteSet(S), NEW f, \A x \in S : f[x] \in Nat
    PROVE  SumOf(f, S) \in Nat
<1> DEFINE iter == CHOOSE g : IsAdding(g, f, SUBSET S)
<1>1. SumOf(f, S) = iter[S]
  BY DEF SumOf
<1>2. IsAdding(iter, f, SUBSET S)
  BY AddingExists
<1> HIDE DEF iter
<1> DEFINE T == {n \in Nat : \A s \in Smaller(S, n) : iter[s] \in Nat}
<1>3. \A s \in SUBSET S : iter[s] = Added(s, f, iter)
  BY <1>2 DEF IsAdding
<1>4. 0 \in T
  <2>1. iter[{}] = 0
    BY <1>3 DEF Added
  <2>2. Smaller(S, 0) = {{}}
    <3>1. 0 \in Nat
      OBVIOUS
    <3> QED BY <3>1, SmallerIs
  <2> QED BY <2>1, <2>2
<1>5. ASSUME NEW n \in T PROVE n + 1 \in T
  <2>1. ASSUME NEW s \in Smaller(S, n + 1), s # {} PROVE iter[s] \in Nat
    <3> DEFINE x == CHOOSE x \in s : TRUE
    <3>1. x \in s
      BY <2>1
    <3>2. s \in SUBSET S /\ s \ {x} \in Smaller(S, n)
      <4>1. n + 1 \in Nat
        OBVIOUS
      <4> QED BY <2>1, <4>1, SmallerIs
    <3>3. iter[s] = f[x] + iter[s \ {x}]
      BY <1>3, <2>1, <3>2 DEF Added
    <3> HIDE DEF x
    <3>4. iter[s \ {x}] \in Nat /\ f[x] \in Nat
      BY <1>5, <3>1, <3>2
    <3> QED BY <3>3, <3>4
  <2>2. iter[{}] = 0
    BY <1>3 DEF Added
  <2> QED BY <2>1, <2>2
<1>6. T = Nat
  <2>1. T \in SUBSET Nat
    OBVIOUS
  <2> HIDE DEF T
  <2> QED BY <2>1, <1>4, <1>5, NatSetInduction
<1>7. Cardinality(S) \in Nat
  BY FS_CardinalityType
<1>8. SUBSET S = Smaller(S, Cardinality(S))
  BY <1>7, SmallerIs
<1> QED BY <1>1, <1>6, <1>7, <1>8
-----------------------------------------------------------------------------
(***************************************************************************)
(* Stacking.  Each range is written behind the ones before it, from the    *)
(* start of the file area on, and no block is left out between them.       *)
(***************************************************************************)
Behind(id, k, at) == cols[id][k] + (plan[id][k] - k) <= at

Stacked ==
    Laid =>
        /\ \A id \in DOMAIN cols : \A k \in DOMAIN cols[id] : area <= cols[id][k]
        /\ \A id, jd \in DOMAIN cols : \A k \in DOMAIN cols[id], l \in DOMAIN cols[jd] :
              (id = jd /\ k = l) \/ Behind(id, k, cols[jd][l]) \/ Behind(jd, l, cols[id][k])

Covered(b) ==
    \E id \in DOMAIN cols : \E k \in DOMAIN cols[id] :
        cols[id][k] <= b /\ b < cols[id][k] + (plan[id][k] - k)

Topped ==
    /\ out \in Seq(Extents) /\ Offset(out) \in Nat /\ Offset(out) % blkSz = 0 /\ area <= Offset(out)
    /\ \A id \in DOMAIN cols : \A k \in DOMAIN cols[id] : Behind(id, k, Offset(out))

Tiled == \A b \in Nat : b % blkSz = 0 /\ area <= b /\ b < Offset(out) => Covered(b)

\* The iteration of writeFiles that writes a range.
Writes(id, k) ==
    /\ id \in DOMAIN plan /\ k \in DOMAIN plan[id] /\ ~(id \in DOMAIN cols /\ k \in DOMAIN cols[id])
    /\ cols' = Put(cols, id, Put(IF id \in DOMAIN cols THEN cols[id] ELSE <<>>, k, Offset(out)))
    /\ out' = PadTo(Appended(out, Extent(dMap[id], k, plan[id][k] - k)), blkSz)

LEMMA WritesOne == ASSUME GeoInv, WriteRange PROVE \E id, k : Writes(id, k)
<1> DEFINE id == Min({p[1] : p \in Pending})
           k == Min({p[2] : p \in {q \in Pending : q[1] = id}})
<1>1. stage = "optimized" /\ Pending # {} /\ Laid
  BY DEF WriteRange, Laid
<1>2. id \in DOMAIN plan /\ k \in DOMAIN plan[id] /\ k \notin Written(id)
  BY <1>1, NextPending
<1>3. /\ cols' = Put(cols, id, Put(IF id \in DOMAIN cols THEN cols[id] ELSE <<>>, k, Offset(out)))
      /\ out' = PadTo(Appended(out, Extent(dMap[id], k, plan[id][k] - k)), blkSz)
  BY DEF WriteRange
<1> HIDE DEF id, k
<1>4. Writes(id, k)
  BY <1>2, <1>3 DEF Writes, Written
<1> QED BY <1>4

LEMMA RangeIs ==
    ASSUME GeoTyped, Covers(Geo, FileExtents), NEW id \in DOMAIN plan, NEW k \in DOMAIN plan[id]
    PROVE  /\ k \in Nat /\ plan[id][k] \in Nat /\ k <= plan[id][k]
           /\ Extent(dMap[id], k, plan[id][k] - k) \in Extents
<1>1. FileExtents \subseteq Extents
  BY TreeTyped
<1>2. IsMedium(id, dMap[id], FileExtents) /\ IsRange(id, k, plan[id][k], FileExtents)
  BY DEF Covers, Geo, Retains
<1>3. dMap[id] \in Media
  BY <1>1, <1>2 DEF IsMedium, Extents
<1>4. k \in Nat
  BY <1>1, <1>2 DEF IsRange, Extents
<1>5. plan[id][k] \in Nat /\ k <= plan[id][k]
  <2>1. PICK y \in FileExtents : k <= y.off + y.len /\ plan[id][k] = y.off + y.len
    BY <1>2 DEF IsRange
  <2>2. y.off \in Nat /\ y.len \in Nat
    BY <1>1, <2>1 DEF Extents
  <2> QED BY <2>1, <2>2
<1>6. plan[id][k] - k \in Nat
  BY <1>4, <1>5
<1> QED BY <1>3, <1>4, <1>5, <1>6 DEF Extent, Extents

\* A multiple that is less than the next one is less than what comes before it.
LEMMA BelowMultiple ==
    ASSUME NEW b \in Nat \ {0}, NEW x \in Nat, NEW pad \in 0 .. b - 1, (x + pad) % b = 0,
           NEW m \in Int, m % b = 0, m < x + pad
    PROVE  m < x
<1> DEFINE q == (x + pad) \div b
           p == m \div b
<1>1. p \in Int /\ q \in Int /\ x + pad = b * q /\ m = b * p
  BY Division
<1> HIDE DEF p, q
<1>2. p < q
  <2> SUFFICES ASSUME q <= p PROVE FALSE
    BY <1>1
  <2>1. p - q \in Nat /\ b * (p - q) >= 0
    BY <1>1
  <2> QED BY <1>1, <2>1
<1>3. q - p - 1 \in Nat /\ b * (q - p - 1) >= 0
  BY <1>1, <1>2
<1>4. b * q >= b * p + b
  BY <1>1, <1>3
<1> QED BY <1>1, <1>4

LEMMA PadToEnds ==
    ASSUME NEW s \in Seq(Extents), NEW b \in Nat \ {0}
    PROVE  /\ Offset(s) <= Offset(PadTo(s, b))
           /\ \A m \in Int : m % b = 0 /\ m < Offset(PadTo(s, b)) => m < Offset(s)
<1> DEFINE pad == (b - (Offset(s) % b)) % b
           x == Extent(Zero, 0, pad)
<1>1. Offset(s) \in Nat
  BY OffsetNat
<1>2. pad \in Nat /\ (Offset(s) + pad) % b = 0
  BY <1>1, Padding
<1>3. PadTo(s, b) = Appended(s, x)
  BY DEF PadTo
<1>4. pad \in 0 .. b - 1
  <2>1. Offset(s) % b \in 0 .. b - 1
    <3> DEFINE o == Offset(s)
    <3>1. o \in Int
      BY <1>1
    <3> HIDE DEF o
    <3>2. o % b \in 0 .. b - 1
      BY <3>1, Division
    <3> QED BY <3>2 DEF o
  <2> DEFINE r == b - (Offset(s) % b)
  <2>2. r \in Int /\ pad = r % b
    BY <2>1
  <2> HIDE DEF r
  <2> QED BY <2>2, Division
<1> HIDE DEF pad
<1>5. x \in Extents /\ x.len = pad
  BY <1>2, GeometryAssumption DEF Extent, Extents
<1> HIDE DEF x
<1>6. Offset(PadTo(s, b)) = Offset(s) + pad
  BY <1>3, <1>5, AppendedIs
<1> DEFINE o == Offset(s)
           e == Offset(PadTo(s, b))
<1>7. o \in Nat /\ e = o + pad /\ (o + pad) % b = 0
  BY <1>1, <1>2, <1>6
<1> HIDE DEF o, e
<1>8. o <= e
  BY <1>4, <1>7
<1>9. ASSUME NEW m \in Int, m % b = 0, m < e PROVE m < o
  BY <1>4, <1>7, <1>9, BelowMultiple
<1> QED BY <1>8, <1>9 DEF o, e

LEMMA WritesStacked ==
    ASSUME GeoInv, stage = "optimized", stage' = stage, Stacked, Topped, Tiled,
           area' = area, plan' = plan, blkSz' = blkSz, NEW id, NEW k, Writes(id, k)
    PROVE  Stacked' /\ Topped' /\ Tiled'
<1> DEFINE x == Extent(dMap[id], k, plan[id][k] - k)
           end == Offset(out)
           terr == IF id \in DOMAIN cols THEN cols[id] ELSE <<>>
           mid == Appended(out, x)
<1>1. /\ Laid /\ GeoTyped /\ Covers(Geo, FileExtents) /\ Columns /\ blkSz \in Nat \ {0}
      /\ area \in Nat /\ area % blkSz = 0
  BY GeometryAssumption DEF GeoInv, Writing, Laid, Sized
<1>2. /\ id \in DOMAIN plan /\ k \in DOMAIN plan[id] /\ ~(id \in DOMAIN cols /\ k \in DOMAIN cols[id])
      /\ cols' = Put(cols, id, Put(terr, k, end)) /\ out' = PadTo(mid, blkSz)
  BY DEF Writes
<1>3. x \in Extents /\ x.len = plan[id][k] - k /\ plan[id][k] - k \in Nat
  <2>1. x.len = plan[id][k] - k
    BY DEF Extent
  <2> QED BY <1>1, <1>2, <2>1, RangeIs
<1>4. end \in Nat /\ end % blkSz = 0 /\ area <= end /\ out \in Seq(Extents)
      /\ \A jd \in DOMAIN cols : \A l \in DOMAIN cols[jd] : Behind(jd, l, end)
  BY DEF Topped
<1> DEFINE len == plan[id][k] - k
<1>5. mid \in Seq(Extents) /\ Offset(mid) = end + len
  <2> HIDE DEF x
  <2> QED BY <1>3, <1>4, AppendedIs
<1>6. /\ out' \in Seq(Extents) /\ Offset(out') \in Nat /\ Offset(out') % blkSz = 0
      /\ end + len <= Offset(out')
      /\ \A m \in Int : m % blkSz = 0 /\ m < Offset(out') => m < end + len
  <2> HIDE DEF mid
  <2> QED BY <1>1, <1>2, <1>5, PadToIs, PadToEnds
<1>7. Offset(out)' = Offset(out')
  BY DEF Offset
<1> HIDE DEF end, x, mid, terr
<1>8. /\ DOMAIN cols' = DOMAIN cols \cup {id} /\ DOMAIN cols'[id] = DOMAIN terr \cup {k}
      /\ cols'[id][k] = end /\ (\A l \in DOMAIN terr : l # k => cols'[id][l] = terr[l])
      /\ \A d \in DOMAIN cols : d # id => cols'[d] = cols[d]
  BY <1>2 DEF Put
<1>9. ASSUME NEW jd \in DOMAIN cols, NEW l \in DOMAIN cols[jd]
      PROVE  /\ jd \in DOMAIN cols' /\ l \in DOMAIN cols'[jd] /\ cols'[jd][l] = cols[jd][l]
             /\ ~(jd = id /\ l = k) /\ plan[jd][l] - l \in Nat /\ cols[jd][l] \in Nat
  <2>1. ~(jd = id /\ l = k)
    BY <1>2, <1>9
  <2>2. jd \in DOMAIN plan /\ l \in DOMAIN plan[jd] /\ cols[jd][l] \in Nat
    BY <1>1, <1>9 DEF Columns, Column
  <2>3. plan[jd][l] - l \in Nat
    BY <1>1, <2>2, RangeIs
  <2>4. jd = id => terr = cols[jd]
    BY <1>9 DEF terr
  <2>5. jd \in DOMAIN cols' /\ l \in DOMAIN cols'[jd] /\ cols'[jd][l] = cols[jd][l]
    BY <1>8, <1>9, <2>1, <2>4
  <2> QED BY <2>1, <2>2, <2>3, <2>5
<1>10. ASSUME NEW jd \in DOMAIN cols', NEW l \in DOMAIN cols'[jd], ~(jd = id /\ l = k)
       PROVE  jd \in DOMAIN cols /\ l \in DOMAIN cols[jd] /\ cols'[jd][l] = cols[jd][l]
  <2>1. CASE jd = id
    <3>1. l \in DOMAIN terr /\ l # k
      BY <1>8, <1>10, <2>1
    <3> QED BY <1>8, <2>1, <3>1 DEF terr
  <2>2. CASE jd # id
    BY <1>8, <1>10, <2>2
  <2> QED BY <2>1, <2>2
<1>11. Stacked'
  <2>1. ASSUME NEW jd \in DOMAIN cols', NEW l \in DOMAIN cols'[jd] PROVE area <= cols'[jd][l]
    <3>1. CASE jd = id /\ l = k
      BY <1>4, <1>8, <3>1
    <3>2. CASE ~(jd = id /\ l = k)
      BY <1>1, <1>10, <2>1, <3>2 DEF Stacked
    <3> QED BY <3>1, <3>2
  <2>2. ASSUME NEW jd \in DOMAIN cols', NEW l \in DOMAIN cols'[jd], ~(jd = id /\ l = k)
        PROVE  cols'[jd][l] + (plan[jd][l] - l) <= end
    BY <1>4, <1>10, <2>2 DEF Behind
  <2>3. ASSUME NEW hd \in DOMAIN cols', NEW h \in DOMAIN cols'[hd],
               NEW jd \in DOMAIN cols', NEW l \in DOMAIN cols'[jd]
        PROVE  \/ hd = jd /\ h = l
               \/ cols'[hd][h] + (plan[hd][h] - h) <= cols'[jd][l]
               \/ cols'[jd][l] + (plan[jd][l] - l) <= cols'[hd][h]
    <3>1. CASE hd = id /\ h = k
      BY <1>8, <2>2, <3>1
    <3>2. CASE jd = id /\ l = k
      BY <1>8, <2>2, <3>2
    <3>3. CASE ~(hd = id /\ h = k) /\ ~(jd = id /\ l = k)
      <4>1. /\ hd \in DOMAIN cols /\ h \in DOMAIN cols[hd] /\ cols'[hd][h] = cols[hd][h]
            /\ jd \in DOMAIN cols /\ l \in DOMAIN cols[jd] /\ cols'[jd][l] = cols[jd][l]
        BY <1>10, <2>3, <3>3
      <4> QED BY <1>1, <4>1 DEF Stacked, Behind
    <3> QED BY <3>1, <3>2, <3>3
  <2> QED BY <2>1, <2>3 DEF Stacked, Behind
<1>12. Topped'
  <2>1. ASSUME NEW jd \in DOMAIN cols', NEW l \in DOMAIN cols'[jd]
        PROVE  cols'[jd][l] + (plan[jd][l] - l) <= Offset(out')
    <3>1. CASE jd = id /\ l = k
      BY <1>6, <1>8, <3>1
    <3>2. CASE ~(jd = id /\ l = k)
      <4>1. /\ jd \in DOMAIN cols /\ l \in DOMAIN cols[jd] /\ cols'[jd][l] = cols[jd][l]
            /\ cols[jd][l] + (plan[jd][l] - l) <= end
        BY <1>4, <1>10, <2>1, <3>2 DEF Behind
      <4>2. cols[jd][l] \in Nat /\ plan[jd][l] - l \in Nat
        BY <1>9, <4>1
      <4> DEFINE n == plan[jd][l] - l
      <4> HIDE DEF n
      <4>3. cols[jd][l] \in Nat /\ n \in Nat /\ cols[jd][l] + n <= end /\ len \in Nat
        BY <1>3, <4>1, <4>2 DEF n
      <4> HIDE DEF len
      <4>4. cols[jd][l] + n <= Offset(out')
        BY <1>4, <1>6, <4>3
      <4> QED BY <4>1, <4>4 DEF n
    <3> QED BY <3>1, <3>2
  <2>2. area <= Offset(out')
    <3>1. len \in Nat
      BY <1>3
    <3> HIDE DEF len
    <3> QED BY <1>1, <1>4, <1>6, <3>1
  <2> QED BY <1>6, <1>7, <2>1, <2>2 DEF Topped, Behind
<1>13. Tiled'
  <2> SUFFICES ASSUME NEW b \in Nat, b % blkSz = 0, area <= b, b < Offset(out') PROVE Covered(b)'
    BY <1>7 DEF Tiled
  <2>1. b < end + len
    BY <1>6
  <2>2. CASE b < end
    <3>1. Covered(b)
      BY <2>2 DEF Tiled, end
    <3>2. PICK jd \in DOMAIN cols : \E l \in DOMAIN cols[jd] :
              cols[jd][l] <= b /\ b < cols[jd][l] + (plan[jd][l] - l)
      BY <3>1 DEF Covered
    <3>3. PICK l \in DOMAIN cols[jd] : cols[jd][l] <= b /\ b < cols[jd][l] + (plan[jd][l] - l)
      BY <3>2
    <3>4. jd \in DOMAIN cols' /\ l \in DOMAIN cols'[jd] /\ cols'[jd][l] = cols[jd][l]
      BY <1>9
    <3> QED BY <3>3, <3>4 DEF Covered
  <2>3. CASE end <= b
    <3>1. id \in DOMAIN cols' /\ k \in DOMAIN cols'[id] /\ cols'[id][k] = end
      BY <1>8
    <3> QED BY <2>1, <2>3, <3>1 DEF Covered
  <2> QED BY <1>4, <2>2, <2>3
<1> QED BY <1>11, <1>12, <1>13
-----------------------------------------------------------------------------
(***************************************************************************)
(* Places.  Extents that differ are in places that are apart, within what  *)
(* was written.                                                            *)
(***************************************************************************)
LEMMA PlaceIs ==
    ASSUME GeoInv, Stacked, stage \in {"planned", "burnt"}, Undivided(FileExtents), NEW x \in FileExtents
    PROVE  \E k : /\ Bridged(x, k) /\ k \in Nat /\ x.off \in Nat /\ x.len \in Nat /\ k <= x.off
                  /\ Id[x.med] \in DOMAIN cols /\ k \in DOMAIN cols[Id[x.med]]
                  /\ cols[Id[x.med]][k] \in Nat /\ area \in Nat /\ area <= cols[Id[x.med]][k]
                  /\ plan[Id[x.med]][k] \in Nat /\ x.off + x.len <= plan[Id[x.med]][k]
                  /\ WithinDisk(x) = x.off - k + cols[Id[x.med]][k]
<1> DEFINE id == Id[x.med]
<1>1. GeoTyped /\ Covers(Geo, FileExtents) /\ Columns /\ Finished /\ FileExtents \subseteq Extents /\ Laid
      /\ area \in Nat
  BY TreeTyped DEF GeoInv, Writing, Laid
<1>2. PICK k : Bridged(x, k)
  BY IsBridged
<1>3. id \in DOMAIN cols /\ k \in DOMAIN cols[id]
  BY <1>1, <1>2 DEF Bridged, Finished
<1>4. k \in Nat /\ plan[id][k] \in Nat
  BY <1>1, <1>2, RangeIs DEF Bridged
<1>5. cols[id][k] \in Nat /\ area <= cols[id][k]
  BY <1>1, <1>2, <1>3 DEF Bridged, Column, Stacked
<1>6. x.off \in Nat /\ x.len \in Nat
  BY <1>1 DEF Extents
<1>7. k <= x.off /\ x.off + x.len <= plan[id][k] /\ WithinDisk(x) = x.off - k + cols[id][k]
  BY <1>2 DEF Bridged
<1> QED BY <1>1, <1>2, <1>3, <1>4, <1>5, <1>6, <1>7

LEMMA PlaceTyped ==
    ASSUME GeoInv, Stacked, stage \in {"planned", "burnt"}, Undivided(FileExtents), NEW x \in FileExtents
    PROVE  /\ WithinArea(x) \in Nat /\ WithinDisk(x) = area + WithinArea(x) /\ area \in Nat /\ x.len \in Nat
           /\ \A at \in Int : (\A id \in DOMAIN cols : \A k \in DOMAIN cols[id] : Behind(id, k, at)) =>
                 area + WithinArea(x) + x.len <= at
<1> DEFINE id == Id[x.med]
<1>1. PICK k : /\ k \in Nat /\ x.off \in Nat /\ x.len \in Nat /\ k <= x.off
               /\ id \in DOMAIN cols /\ k \in DOMAIN cols[id]
               /\ cols[id][k] \in Nat /\ area \in Nat /\ area <= cols[id][k]
               /\ plan[id][k] \in Nat /\ x.off + x.len <= plan[id][k]
               /\ WithinDisk(x) = x.off - k + cols[id][k]
  BY PlaceIs
<1> DEFINE c == cols[id][k]
           p == plan[id][k]
           w == WithinDisk(x)
<1>2. WithinArea(x) = w - area
  BY DEF WithinArea
<1>3. /\ k \in Nat /\ x.off \in Nat /\ x.len \in Nat /\ k <= x.off /\ c \in Nat /\ area \in Nat
      /\ area <= c /\ p \in Nat /\ x.off + x.len <= p /\ w = x.off - k + c
  BY <1>1
<1>4. ASSUME NEW at \in Int, \A jd \in DOMAIN cols : \A l \in DOMAIN cols[jd] : Behind(jd, l, at)
      PROVE  c + (p - k) <= at
  BY <1>1, <1>4 DEF Behind
<1> HIDE DEF c, p, w
<1>5. w - area \in Nat
  BY <1>3
<1>6. ASSUME NEW at \in Int, c + (p - k) <= at PROVE w + x.len <= at
  BY <1>3, <1>6
<1> QED BY <1>2, <1>3, <1>4, <1>5, <1>6 DEF w

LEMMA PlacesApart ==
    ASSUME GeoInv, Stacked, stage \in {"planned", "burnt"}, Undivided(FileExtents),
           NEW x \in FileExtents, NEW y \in FileExtents, x # y
    PROVE  \/ WithinArea(x) + x.len <= WithinArea(y)
           \/ WithinArea(y) + y.len <= WithinArea(x)
<1> DEFINE id == Id[x.med]
           jd == Id[y.med]
<1>1. PICK k : /\ Bridged(x, k) /\ k \in Nat /\ x.off \in Nat /\ x.len \in Nat /\ k <= x.off
               /\ id \in DOMAIN cols /\ k \in DOMAIN cols[id]
               /\ cols[id][k] \in Nat /\ area \in Nat /\ area <= cols[id][k]
               /\ plan[id][k] \in Nat /\ x.off + x.len <= plan[id][k]
               /\ WithinDisk(x) = x.off - k + cols[id][k]
  BY PlaceIs
<1>2. PICK l : /\ Bridged(y, l) /\ l \in Nat /\ y.off \in Nat /\ y.len \in Nat /\ l <= y.off
               /\ jd \in DOMAIN cols /\ l \in DOMAIN cols[jd]
               /\ cols[jd][l] \in Nat /\ area <= cols[jd][l]
               /\ plan[jd][l] \in Nat /\ y.off + y.len <= plan[jd][l]
               /\ WithinDisk(y) = y.off - l + cols[jd][l]
  BY PlaceIs
<1> DEFINE c == cols[id][k]
           p == plan[id][k]
           e == cols[jd][l]
           q == plan[jd][l]
           v == WithinDisk(x)
           w == WithinDisk(y)
<1>3. WithinArea(x) = v - area /\ WithinArea(y) = w - area
  BY DEF WithinArea
<1>4. /\ k \in Nat /\ x.off \in Nat /\ x.len \in Nat /\ k <= x.off /\ c \in Nat
      /\ p \in Nat /\ x.off + x.len <= p /\ v = x.off - k + c /\ area \in Nat
  BY <1>1
<1>5. /\ l \in Nat /\ y.off \in Nat /\ y.len \in Nat /\ l <= y.off /\ e \in Nat
      /\ q \in Nat /\ y.off + y.len <= q /\ w = y.off - l + e
  BY <1>2
<1>6. (id = jd /\ k = l) \/ c + (p - k) <= e \/ e + (q - l) <= c
  BY <1>1, <1>2 DEF Stacked, Behind, Laid
<1>7. id = jd => x.off + x.len <= y.off \/ y.off + y.len <= x.off
  BY DEF Undivided
<1>8. id = jd /\ k = l => c = e
  OBVIOUS
<1> HIDE DEF c, p, e, q, v, w
<1>9. CASE id = jd /\ k = l
  <2> HIDE DEF id, jd
  <2> QED BY <1>3, <1>4, <1>5, <1>7, <1>8, <1>9
<1>10. CASE c + (p - k) <= e
  <2>1. v + x.len <= w
    BY <1>4, <1>5, <1>10
  <2> QED BY <1>3, <1>4, <1>5, <2>1
<1>11. CASE e + (q - l) <= c
  <2>1. w + y.len <= v
    BY <1>4, <1>5, <1>11
  <2> QED BY <1>3, <1>4, <1>5, <2>1
<1> QED BY <1>6, <1>9, <1>10, <1>11
-----------------------------------------------------------------------------
(***************************************************************************)
(* Lines.  The clusters of an extent that starts on a block.               *)
(***************************************************************************)
LEMMA TimesOrdered ==
    ASSUME NEW b \in Nat \ {0}, NEW m \in Int, NEW n \in Int, m * b < n * b
    PROVE  m < n
<1> SUFFICES ASSUME n <= m PROVE FALSE
  OBVIOUS
<1>1. m - n \in Nat /\ (m - n) * b >= 0
  OBVIOUS
<1> QED BY <1>1

IsLine(off, len, line) ==
    /\ line.first \in Int /\ line.last \in Int
    /\ line.first * blkSz = off + Seeds * blkSz
    /\ line.last * blkSz < off + Seeds * blkSz + len
    /\ off + Seeds * blkSz + len <= (line.last + 1) * blkSz

LEMMA ClustersAre ==
    ASSUME blkSz \in Nat \ {0}, NEW off \in Nat, NEW len \in Nat, off % blkSz = 0
    PROVE  IsLine(off, len, Clusters(off, len))
<1> DEFINE o == off + Seeds * blkSz
           e == off + Seeds * blkSz + len - 1
           first == o \div blkSz
           last == e \div blkSz
<1>1. Clusters(off, len) = [first |-> first, last |-> last]
  BY DEF Clusters
<1>2. o \in Int /\ e \in Int /\ e = o + len - 1
  BY DEF Seeds
<1>3. o % blkSz = 0
  <2> DEFINE s == Seeds * blkSz
  <2>1. s \in Int /\ s % blkSz = 0
    <3>1. (blkSz * 2) % blkSz = 0
      BY MultipleIs
    <3>2. s = blkSz * 2
      BY DEF Seeds
    <3> QED BY <3>1, <3>2
  <2> HIDE DEF s
  <2>2. off \in Int /\ off % blkSz = 0 /\ blkSz \in Nat \ {0}
    OBVIOUS
  <2>3. (off + s) % blkSz = 0
    BY <2>1, <2>2, SumOfMultiples
  <2> QED BY <2>3 DEF s
<1> HIDE DEF o, e
<1>4. first \in Int /\ o = blkSz * first
  BY <1>2, <1>3, Division
<1>5. last \in Int /\ e % blkSz \in 0 .. blkSz - 1 /\ e = blkSz * last + (e % blkSz)
  BY <1>2, Division
<1> DEFINE r == e % blkSz
<1>6. r \in 0 .. blkSz - 1 /\ e = blkSz * last + r
  BY <1>5
<1> HIDE DEF first, last, r
<1>7. first * blkSz = o /\ last * blkSz < o + len /\ o + len <= (last + 1) * blkSz
  BY <1>2, <1>4, <1>5, <1>6
<1> QED BY <1>1, <1>4, <1>5, <1>7 DEF IsLine, o
LEMMA LineBounds ==
    ASSUME blkSz \in Nat \ {0}, NEW off \in Nat, NEW len \in Nat, NEW l, IsLine(off, len, l)
    PROVE  /\ l.first \in Int /\ l.last \in Int /\ Seeds <= l.first /\ l.first - 1 <= l.last
           /\ (len = 0 => l.last < l.first) /\ (len > 0 => l.first <= l.last)
<1>1. /\ l.first \in Int /\ l.last \in Int /\ l.first * blkSz = off + 2 * blkSz
      /\ l.last * blkSz < off + 2 * blkSz + len
      /\ off + 2 * blkSz + len <= (l.last + 1) * blkSz
  BY DEF IsLine, Seeds
<1> DEFINE f == l.first
           t == l.last
<1>2. f \in Int /\ t \in Int /\ f * blkSz = off + 2 * blkSz
      /\ t * blkSz < off + 2 * blkSz + len
      /\ off + 2 * blkSz + len <= (t + 1) * blkSz
  BY <1>1
<1> HIDE DEF f, t
<1>3. 2 <= f
  <2>1. (f + 1) * blkSz = f * blkSz + blkSz
    BY <1>2
  <2>2. 2 * blkSz < (f + 1) * blkSz
    BY <1>2, <2>1
  <2>3. 2 < f + 1
    BY <1>2, <2>2, TimesOrdered
  <2> QED BY <1>2, <2>3
<1>4. f - 1 <= t
  <2>1. (t + 2) * blkSz = (t + 1) * blkSz + blkSz /\ t + 2 \in Int
    BY <1>2
  <2>2. f * blkSz < (t + 2) * blkSz
    BY <1>2, <2>1
  <2>3. f < t + 2
    BY <1>2, <2>1, <2>2, TimesOrdered
  <2> QED BY <1>2, <2>3
<1>5. len = 0 => t < f
  BY <1>2, TimesOrdered
<1>6. len > 0 => f <= t
  <2> SUFFICES ASSUME len > 0 PROVE f <= t
    OBVIOUS
  <2>1. f * blkSz < (t + 1) * blkSz /\ t + 1 \in Int
    BY <1>2
  <2>2. f < t + 1
    BY <1>2, <2>1, TimesOrdered
  <2> QED BY <1>2, <2>2
<1> QED BY <1>2, <1>3, <1>4, <1>5, <1>6 DEF f, t, Seeds

LEMMA LinesApart ==
    ASSUME blkSz \in Nat \ {0}, NEW o \in Nat, NEW n \in Nat, NEW l, IsLine(o, n, l),
           NEW p \in Nat, NEW q \in Nat, NEW m, IsLine(p, q, m), o + n <= p
    PROVE  l.last < m.first
<1>1. /\ l.last \in Int /\ m.first \in Int
      /\ l.last * blkSz < o + 2 * blkSz + n /\ m.first * blkSz = p + 2 * blkSz
  BY DEF IsLine, Seeds
<1>2. l.last * blkSz < m.first * blkSz
  <2> DEFINE a == l.last * blkSz
             c == m.first * blkSz
             d == 2 * blkSz
  <2>1. a \in Int /\ c \in Int /\ d \in Int /\ a < o + d + n /\ c = p + d
    BY <1>1
  <2> HIDE DEF a, c, d
  <2>2. a < c
    BY <2>1
  <2> QED BY <2>2 DEF a, c
<1> QED BY <1>1, <1>2, TimesOrdered

\* A length rounded up to blocks.
LEMMA RoundUpIs ==
    ASSUME NEW b \in Nat \ {0}, NEW n \in Nat
    PROVE  /\ RoundUp(n, b) \in Nat /\ RoundUp(n, b) % b = 0
           /\ n <= RoundUp(n, b) /\ RoundUp(n, b) < n + b
           /\ RoundUp(n, b) \div b \in Nat /\ RoundUp(n, b) = (RoundUp(n, b) \div b) * b
<1> DEFINE e == n + b - 1
           q == e \div b
           r == e % b
           u == q * b
<1>1. e \in Int /\ e = n + b - 1
  OBVIOUS
<1> HIDE DEF e
<1>2. q \in Int /\ r \in 0 .. b - 1 /\ e = b * q + r
  BY <1>1, Division
<1>3. RoundUp(n, b) = u
  BY DEF RoundUp, e
<1> HIDE DEF q, r
<1>4. u \in Int /\ u = b * q
  BY <1>2
<1>5. u % b = 0
  BY <1>2, <1>4, MultipleIs
<1> HIDE DEF u
<1>6. n <= u /\ u < n + b
  BY <1>1, <1>2, <1>4
<1> DEFINE p == u \div b
<1>7. p \in Int /\ u = b * p
  <2>1. u \in Int /\ b \in Nat \ {0}
    BY <1>4
  <2>2. u \div b \in Int /\ u % b \in 0 .. b - 1 /\ u = b * (u \div b) + (u % b)
    BY <2>1, Division
  <2>3. u = b * (u \div b) + 0
    BY <1>5, <2>2
  <2>4. u = b * p + 0 /\ p \in Int
    BY <2>2, <2>3
  <2> HIDE DEF p
  <2> QED BY <2>1, <2>4
<1> HIDE DEF p
<1>8. p \in Nat /\ u = p * b
  <2>1. 0 * b < (p + 1) * b /\ p + 1 \in Int
    BY <1>6, <1>7
  <2>2. 0 < p + 1
    <3>1. 0 \in Int
      OBVIOUS
    <3> QED BY <2>1, <3>1, TimesOrdered
  <2> QED BY <1>7, <2>2
<1> QED BY <1>3, <1>4, <1>5, <1>6, <1>8 DEF p
-----------------------------------------------------------------------------
(***************************************************************************)
(* Threads.  What a table has once some lines are linked: a joint is a     *)
(* line and what follows its last cluster.                                 *)
(***************************************************************************)
Joint(first, last, next) == [first |-> first, last |-> last, next |-> next]

IsJoint(j) ==
    /\ j.first \in Int /\ j.last \in Int /\ Seeds <= j.first /\ j.first - 1 <= j.last
    /\ j.last < j.first => j.next = EndMark

LinkIn(t, c) == IF c \in DOMAIN t THEN t[c] ELSE IF sparse THEN Unused ELSE c + 1

\* Lines lead from cluster to cluster, and end where they have to.
Linked(t, J) ==
    /\ \A j \in J : j.last \in DOMAIN t
    /\ \A j \in J : \A c \in j.first .. j.last : LinkIn(t, c) = IF c = j.last THEN j.next ELSE c + 1

\* What is amended in favour of free space: nothing behind the lines.
AmendedBelow(t, J) == sparse => \A c \in DOMAIN t : \E j \in J : c <= j.last

\* What is amended in favour of files: the ends of the lines and the clusters
\* before them, and nothing leads into a line.
AmendedAround(t, J) ==
    ~sparse =>
        /\ \A j \in J : Seeds < j.first => j.first - 1 \in DOMAIN t
        /\ \A c \in DOMAIN t : blkCount - 1 <= c \/ \E j \in J : c = j.last \/ c = j.first - 1

\* Outside of the lines there are only ends.
Strays(t, J) == \A c \in DOMAIN t : t[c] = EndMark \/ \E j \in J : c \in j.first .. j.last

Threads(t, J) ==
    /\ DOMAIN t \subseteq Int
    /\ Linked(t, J) /\ AmendedBelow(t, J) /\ AmendedAround(t, J) /\ Strays(t, J)

Fitting(J, l) ==
    \A j \in J :
        /\ IsJoint(j)
        /\ j = l \/ j.last < l.first \/ l.last < j.first
        /\ l.last < l.first /\ j.last = l.last => j.next = EndMark

\* A line that is chained.
Amendment(t, u, l) ==
    /\ DOMAIN t \subseteq DOMAIN u /\ l.last \in DOMAIN u /\ u[l.last] = l.next
    /\ sparse => /\ \A c \in DOMAIN u : c \in DOMAIN t \/ c \in l.first .. l.last - 1 \/ c = l.last
                 /\ \A c \in l.first .. l.last - 1 : c \in DOMAIN u /\ u[c] = c + 1
                 /\ \A c \in DOMAIN t : c # l.last /\ c \notin l.first .. l.last - 1 => u[c] = t[c]
    /\ ~sparse => /\ \A c \in DOMAIN u : c \in DOMAIN t \/ c = l.last \/ c = l.first - 1
                  /\ Seeds < l.first => l.first - 1 \in DOMAIN u
                  /\ \A c \in DOMAIN t : c # l.last => u[c] = t[c]
                  /\ \A c \in DOMAIN u : c \notin DOMAIN t /\ c # l.last => u[c] = EndMark

LEMMA LineAmends ==
    ASSUME NEW t, NEW line, NEW next, IsJoint(Joint(line.first, line.last, next))
    PROVE  Amendment(t, Line(t, line, next), Joint(line.first, line.last, next))
<1> DEFINE first == line.first
           last == line.last
           s == SetLine(t, first, last)
           u == Put(s, last, next)
<1>1. first \in Int /\ last \in Int /\ Line(t, line, next) = u
  BY DEF IsJoint, Joint, Line, SetNext
<1>2. DOMAIN u = DOMAIN s \cup {last} /\ u[last] = next /\ \A c \in DOMAIN s : c # last => u[c] = s[c]
  BY DEF Put
<1> HIDE DEF u
<1>3. CASE sparse
  <2>1. s = [c \in DOMAIN t \cup (first .. last - 1) |-> IF c \in first .. last - 1 THEN c + 1 ELSE t[c]]
    BY <1>3 DEF SetLine
  <2> HIDE DEF s, first, last
  <2>2. /\ DOMAIN s = DOMAIN t \cup (first .. last - 1)
        /\ \A c \in first .. last - 1 : s[c] = c + 1
        /\ \A c \in DOMAIN t : c \notin first .. last - 1 => s[c] = t[c]
    BY <2>1
  <2>3. \A c \in first .. last - 1 : c # last
    BY <1>1
  <2>4. Amendment(t, u, Joint(first, last, next))
    BY <1>2, <1>3, <2>2, <2>3 DEF Amendment, Joint
  <2> QED BY <1>1, <2>4 DEF first, last
<1>4. CASE ~sparse
  <2>1. s = IF first <= Seeds \/ first - 1 \in DOMAIN t THEN t ELSE Put(t, first - 1, EndMark)
    BY <1>4 DEF SetLine, Shadow
  <2> HIDE DEF s, first, last
  <2>2. /\ DOMAIN t \subseteq DOMAIN s
        /\ \A c \in DOMAIN s : c \in DOMAIN t \/ (c = first - 1 /\ s[c] = EndMark)
        /\ Seeds < first => first - 1 \in DOMAIN s
        /\ \A c \in DOMAIN t : s[c] = t[c]
    <3>1. CASE first <= Seeds \/ first - 1 \in DOMAIN t
      BY <1>1, <2>1, <3>1 DEF Seeds
    <3>2. CASE ~(first <= Seeds \/ first - 1 \in DOMAIN t)
      <4>1. s = Put(t, first - 1, EndMark)
        BY <2>1, <3>2
      <4>2. /\ DOMAIN s = DOMAIN t \cup {first - 1} /\ s[first - 1] = EndMark
            /\ \A c \in DOMAIN t : c # first - 1 => s[c] = t[c]
        BY <4>1 DEF Put
      <4> QED BY <3>2, <4>2
    <3> QED BY <3>1, <3>2
  <2>3. Amendment(t, u, Joint(first, last, next))
    BY <1>2, <1>4, <2>2 DEF Amendment, Joint
  <2> QED BY <1>1, <2>3 DEF first, last
<1> QED BY <1>3, <1>4

LEMMA AmendmentThreads ==
    ASSUME NEW t, NEW u, NEW J, NEW l, IsJoint(l), Amendment(t, u, l), Fitting(J, l), Threads(t, J),
           blkCount \in Int, l.last < blkCount, sparse \in BOOLEAN
    PROVE  Threads(u, J \cup {l})
<1> DEFINE K == J \cup {l}
<1>1. l.first \in Int /\ l.last \in Int /\ Seeds <= l.first /\ l.first - 1 <= l.last
      /\ (l.last < l.first => l.next = EndMark)
  BY DEF IsJoint
<1>2. ASSUME NEW j \in J
      PROVE  /\ j.first \in Int /\ j.last \in Int /\ Seeds <= j.first /\ j.first - 1 <= j.last
             /\ j.last < j.first => j.next = EndMark
             /\ j = l \/ j.last < l.first \/ l.last < j.first
  <2>1. IsJoint(j) /\ (j = l \/ j.last < l.first \/ l.last < j.first)
    BY DEF Fitting
  <2> QED BY <2>1 DEF IsJoint
<1>3. \A j \in J : j = l \/ j.last < l.first \/ l.last < j.first
  BY <1>2
<1>4. DOMAIN t \subseteq Int /\ DOMAIN t \subseteq DOMAIN u /\ DOMAIN u \subseteq Int
  <2>1. \A c \in DOMAIN u : c \in DOMAIN t \/ c \in l.first .. l.last - 1 \/ c = l.last \/ c = l.first - 1
    BY DEF Amendment
  <2> QED BY <1>1, <2>1 DEF Threads, Amendment
<1>5. ASSUME NEW j \in J, j # l, NEW c \in j.first .. j.last PROVE LinkIn(u, c) = LinkIn(t, c)
  <2>1. c \in Int /\ c \notin l.first .. l.last - 1
    BY <1>1, <1>2, <1>3, <1>5
  <2>2. c = l.last => c = j.last /\ l.last < l.first
    BY <1>1, <1>2, <1>3, <1>5
  <2>3. j.last \in DOMAIN t /\ LinkIn(t, j.last) = j.next
    BY <1>2, <1>5 DEF Threads, Linked
  <2>4. CASE c = l.last
    <3>1. j.next = EndMark /\ l.next = EndMark
      BY <1>1, <1>5, <2>2, <2>4 DEF Fitting
    <3> QED BY <2>2, <2>3, <2>4, <3>1 DEF Amendment, LinkIn
  <2>5. CASE c # l.last /\ sparse
    BY <2>1, <2>5 DEF Amendment, LinkIn
  <2>6. CASE c # l.last /\ ~sparse
    <3>1. c = l.first - 1 => c = j.last
      BY <1>1, <1>2, <1>3, <1>5, <2>6
    <3>2. c \in DOMAIN u <=> c \in DOMAIN t
      BY <1>4, <2>3, <2>6, <3>1 DEF Amendment
    <3> QED BY <2>6, <3>2 DEF Amendment, LinkIn
  <2> QED BY <2>4, <2>5, <2>6
<1>6. ASSUME NEW c \in l.first .. l.last
      PROVE  LinkIn(u, c) = IF c = l.last THEN l.next ELSE c + 1
  <2>1. CASE c = l.last
    BY <2>1 DEF Amendment, LinkIn
  <2>2. CASE c # l.last /\ sparse
    <3>1. c \in l.first .. l.last - 1
      BY <1>1, <1>6, <2>2
    <3> QED BY <2>2, <3>1 DEF Amendment, LinkIn
  <2>3. CASE c # l.last /\ ~sparse
    <3>1. c \in Int /\ l.first <= c /\ c < l.last
      BY <1>1, <1>6, <2>3
    <3>2. c \notin DOMAIN t
      <4> SUFFICES ASSUME c \in DOMAIN t PROVE FALSE
        OBVIOUS
      <4>1. blkCount - 1 <= c \/ \E j \in J : c = j.last \/ c = j.first - 1
        BY <2>3 DEF Threads, AmendedAround
      <4>2. PICK j \in J : c = j.last \/ c = j.first - 1
        BY <1>1, <3>1, <4>1
      <4> QED BY <1>1, <1>2, <1>3, <3>1, <4>2
    <3>3. c \notin DOMAIN u
      BY <1>1, <2>3, <3>1, <3>2 DEF Amendment
    <3> QED BY <2>3, <3>3 DEF LinkIn
  <2> QED BY <2>1, <2>2, <2>3
<1>7. Linked(u, K)
  <2>1. \A j \in K : j.last \in DOMAIN u
    BY <1>4 DEF Threads, Linked, Amendment
  <2>2. ASSUME NEW j \in K, NEW c \in j.first .. j.last
        PROVE  LinkIn(u, c) = IF c = j.last THEN j.next ELSE c + 1
    <3>1. CASE j = l
      BY <1>6, <2>2, <3>1
    <3>2. CASE j # l
      <4>1. j \in J
        BY <3>2
      <4>2. LinkIn(t, c) = IF c = j.last THEN j.next ELSE c + 1
        BY <2>2, <4>1 DEF Threads, Linked
      <4> QED BY <1>5, <2>2, <3>2, <4>1, <4>2
    <3> QED BY <3>1, <3>2
  <2> QED BY <2>1, <2>2 DEF Linked
<1>8. AmendedBelow(u, K)
  <2> SUFFICES ASSUME sparse, NEW c \in DOMAIN u PROVE \E j \in K : c <= j.last
    BY DEF AmendedBelow
  <2>1. CASE c \in DOMAIN t
    BY <2>1 DEF Threads, AmendedBelow
  <2>2. CASE c \notin DOMAIN t
    <3>1. c <= l.last
      BY <1>1, <2>2 DEF Amendment
    <3> QED BY <3>1
  <2> QED BY <2>1, <2>2
<1>9. AmendedAround(u, K)
  <2> SUFFICES ASSUME ~sparse
               PROVE  /\ \A j \in K : Seeds < j.first => j.first - 1 \in DOMAIN u
                      /\ \A c \in DOMAIN u : blkCount - 1 <= c \/ \E j \in K : c = j.last \/ c = j.first - 1
    BY DEF AmendedAround
  <2>1. \A j \in K : Seeds < j.first => j.first - 1 \in DOMAIN u
    BY <1>4 DEF Threads, AmendedAround, Amendment
  <2>2. ASSUME NEW c \in DOMAIN u PROVE blkCount - 1 <= c \/ \E j \in K : c = j.last \/ c = j.first - 1
    <3>1. CASE c \in DOMAIN t
      BY <3>1 DEF Threads, AmendedAround
    <3>2. CASE c \notin DOMAIN t
      BY <2>2, <3>2 DEF Amendment
    <3> QED BY <3>1, <3>2
  <2> QED BY <2>1, <2>2
<1>10. Strays(u, K)
  <2> SUFFICES ASSUME NEW c \in DOMAIN u PROVE u[c] = EndMark \/ \E j \in K : c \in j.first .. j.last
    BY DEF Strays
  <2>1. CASE c = l.last
    <3>1. l.first <= l.last => c \in l.first .. l.last
      BY <1>1, <2>1
    <3>2. u[c] = l.next
      BY <2>1 DEF Amendment
    <3> QED BY <1>1, <3>1, <3>2
  <2>2. CASE c # l.last /\ c \in DOMAIN t
    <3>1. t[c] = EndMark \/ \E j \in K : c \in j.first .. j.last
      BY <2>2 DEF Threads, Strays
    <3>2. u[c] = t[c] \/ c \in l.first .. l.last - 1
      BY <2>2 DEF Amendment
    <3>3. c \in l.first .. l.last - 1 => c \in l.first .. l.last
      BY <1>1
    <3> QED BY <3>1, <3>2, <3>3
  <2>3. CASE c # l.last /\ c \notin DOMAIN t
    <3>1. u[c] = EndMark \/ c \in l.first .. l.last - 1
      BY <2>3 DEF Amendment
    <3>2. c \in l.first .. l.last - 1 => c \in l.first .. l.last
      BY <1>1
    <3> QED BY <3>1, <3>2
  <2> QED BY <2>1, <2>2, <2>3
<1> QED BY <1>4, <1>7, <1>8, <1>9, <1>10 DEF Threads
-----------------------------------------------------------------------------
(***************************************************************************)
(* Chains.  The lines of a file are chained from the last one on.          *)
(***************************************************************************)
NextOf(lines, i) == IF i = Len(lines) THEN EndMark ELSE lines[i+1].first

JointAt(lines, i) == Joint(lines[i].first, lines[i].last, NextOf(lines, i))

JointsFrom(lines, n) == {JointAt(lines, i) : i \in n .. Len(lines)}

IsChaining(g, t, lines, n) ==
    g = [i \in n .. Len(lines) + 1 |->
            IF i > Len(lines) THEN t ELSE Line(g[i+1], lines[i], NextOf(lines, i))]

LEMMA ChainingExists ==
    ASSUME NEW t, NEW lines, Len(lines) \in Nat
    PROVE  \E g : IsChaining(g, t, lines, 1) /\ Chain(t, lines) = g[1]
<1> DEFINE m == Len(lines)
           T == {n \in Nat : \E g : IsChaining(g, t, lines, m + 1 - n)}
<1>0. m \in Nat
  OBVIOUS
<1>1. 0 \in T
  <2> DEFINE g == [i \in m + 1 .. m + 1 |-> t]
  <2>1. \A i \in m + 1 .. m + 1 : i > m
    BY <1>0
  <2>2. g = [i \in m + 1 .. m + 1 |-> IF i > m THEN t ELSE Line(g[i+1], lines[i], NextOf(lines, i))]
    BY <2>1
  <2> HIDE DEF g
  <2>3. IsChaining(g, t, lines, m + 1)
    BY <2>2 DEF IsChaining
  <2>4. m + 1 - 0 = m + 1
    BY <1>0
  <2> HIDE DEF m
  <2> QED BY <2>3, <2>4
<1>2. ASSUME NEW n \in T PROVE n + 1 \in T
  <2>1. PICK g : IsChaining(g, t, lines, m + 1 - n)
    BY <1>2
  <2> DEFINE k == m + 1 - n
             Rule(h, i) == IF i > m THEN t ELSE Line(h[i+1], lines[i], NextOf(lines, i))
             h == [i \in k - 1 .. m + 1 |-> IF i < k THEN Line(g[i+1], lines[i], NextOf(lines, i)) ELSE g[i]]
  <2>2. k \in Int /\ k <= m + 1 /\ m \in Nat
    BY <1>0
  <2>3. g = [i \in k .. m + 1 |-> Rule(g, i)]
    BY <2>1 DEF IsChaining
  <2>4. m + 1 - (n + 1) = k - 1
    BY <1>0
  <2> HIDE DEF k, m
  <2>5. \A i \in k .. m + 1 : i \in k - 1 .. m + 1 /\ ~(i < k) /\ h[i] = g[i]
    BY <2>2
  <2>6. ASSUME NEW i \in k - 1 .. m + 1 PROVE h[i] = Rule(h, i)
    <3>1. CASE i < k
      <4>1. i + 1 \in k .. m + 1 /\ i <= m
        BY <2>2, <3>1
      <4>2. h[i] = Line(g[i+1], lines[i], NextOf(lines, i))
        BY <3>1
      <4>3. h[i+1] = g[i+1] /\ ~(i > m)
        BY <2>2, <2>5, <4>1
      <4> HIDE DEF h
      <4> QED BY <4>2, <4>3
    <3>2. CASE ~(i < k)
      <4>1. i \in k .. m + 1 /\ h[i] = g[i] /\ g[i] = Rule(g, i)
        BY <2>2, <2>3, <2>5, <3>2
      <4>2. ~(i > m) => i + 1 \in k .. m + 1
        BY <2>2, <4>1
      <4>3. ~(i > m) => h[i+1] = g[i+1]
        BY <2>5, <4>2
      <4> HIDE DEF h
      <4> QED BY <4>1, <4>3
    <3> QED BY <3>1, <3>2
  <2>7. h = [i \in k - 1 .. m + 1 |-> Rule(h, i)]
    BY <2>6
  <2> HIDE DEF h
  <2>8. IsChaining(h, t, lines, k - 1)
    BY <2>7 DEF IsChaining, m
  <2>9. \E f : IsChaining(f, t, lines, m + 1 - (n + 1))
    BY <2>4, <2>8
  <2> QED BY <2>9
<1>3. T = Nat
  <2>1. T \in SUBSET Nat
    OBVIOUS
  <2> HIDE DEF T
  <2> QED BY <2>1, <1>1, <1>2, NatSetInduction
<1>4. \E g : IsChaining(g, t, lines, 1)
  <2>1. m \in T
    BY <1>0, <1>3
  <2>2. m + 1 - m = 1
    BY <1>0
  <2> HIDE DEF m
  <2> QED BY <2>1, <2>2
<1> DEFINE from == CHOOSE g : IsChaining(g, t, lines, 1)
<1>5. Chain(t, lines) = from[1]
  BY DEF Chain, IsChaining, NextOf
<1>6. IsChaining(from, t, lines, 1)
  BY <1>4
<1> HIDE DEF from
<1> QED BY <1>5, <1>6

LEMMA ChainThreads ==
    ASSUME NEW t, NEW lines, Len(lines) \in Nat, NEW J, Threads(t, J),
           blkCount \in Int, sparse \in BOOLEAN,
           \A i \in 1 .. Len(lines) :
              /\ IsJoint(JointAt(lines, i)) /\ lines[i].last < blkCount
              /\ Fitting(J \cup JointsFrom(lines, 1), JointAt(lines, i))
    PROVE  Threads(Chain(t, lines), J \cup JointsFrom(lines, 1))
<1> DEFINE m == Len(lines)
           R(n) == J \cup JointsFrom(lines, m + 1 - n)
<1>1. PICK g : IsChaining(g, t, lines, 1) /\ Chain(t, lines) = g[1]
  BY ChainingExists
<1> DEFINE P(n) == Threads(g[m + 1 - n], R(n))
           T == {n \in Nat : n <= m => P(n)}
<1>2. m \in Nat /\ \A i \in 1 .. m + 1 :
          g[i] = IF i > m THEN t ELSE Line(g[i+1], lines[i], NextOf(lines, i))
  BY <1>1 DEF IsChaining
<1>3. 0 \in T
  <2>1. m + 1 - 0 = m + 1 /\ m + 1 \in 1 .. m + 1 /\ m + 1 > m
    BY <1>2
  <2>2. g[m + 1] = t
    BY <1>2, <2>1
  <2>3. JointsFrom(lines, m + 1) = {}
    BY <1>2 DEF JointsFrom
  <2> HIDE DEF m
  <2>4. R(0) = J
    BY <2>1, <2>3
  <2> HIDE DEF R
  <2> QED BY <2>1, <2>2, <2>4
<1>4. ASSUME NEW n \in T PROVE n + 1 \in T
  <2> SUFFICES ASSUME n + 1 <= m PROVE P(n + 1)
    <3> HIDE DEF P
    <3> QED OBVIOUS
  <2> DEFINE i == m - n
             l == JointAt(lines, i)
             K == R(n)
  <2>1. i \in 1 .. m /\ i + 1 = m + 1 - n /\ m + 1 - (n + 1) = i /\ n <= m /\ n \in Nat
    BY <1>2, <1>4
  <2>2. Threads(g[i + 1], K)
    BY <1>4, <2>1
  <2>3. g[i] = Line(g[i+1], lines[i], NextOf(lines, i))
    <3>1. i \in 1 .. m + 1 /\ ~(i > m)
      BY <1>2, <2>1
    <3> HIDE DEF i, m
    <3> QED BY <1>2, <3>1
  <2>4. R(n + 1) = K \cup {l}
    <3>1. JointsFrom(lines, i) = JointsFrom(lines, i + 1) \cup {l}
      <4> HIDE DEF i
      <4>1. i .. m = (i + 1 .. m) \cup {i}
        BY <1>2, <2>1
      <4> QED BY <4>1 DEF JointsFrom
    <3> HIDE DEF l, i
    <3>2. R(n + 1) = J \cup JointsFrom(lines, i) /\ K = J \cup JointsFrom(lines, i + 1)
      BY <2>1
    <3> QED BY <3>1, <3>2
  <2>5. K \subseteq J \cup JointsFrom(lines, 1)
    <3>1. i + 1 .. m \subseteq 1 .. m
      BY <1>2, <2>1
    <3>2. JointsFrom(lines, i + 1) \subseteq JointsFrom(lines, 1)
      <4> HIDE DEF i
      <4> QED BY <3>1 DEF JointsFrom
    <3>3. K = J \cup JointsFrom(lines, i + 1)
      BY <2>1
    <3> QED BY <3>2, <3>3
  <2> HIDE DEF i, K, R
  <2>6. IsJoint(l) /\ l.last = lines[i].last /\ l.last < blkCount /\ Fitting(J \cup JointsFrom(lines, 1), l)
    <3>1. l.last = lines[i].last
      BY DEF JointAt, Joint
    <3> QED BY <2>1, <3>1
  <2>7. Fitting(K, l)
    BY <2>5, <2>6 DEF Fitting
  <2>8. Amendment(g[i+1], g[i], l)
    BY <2>3, <2>6, LineAmends DEF JointAt
  <2> HIDE DEF l
  <2>9. Threads(g[i], K \cup {l})
    BY <2>2, <2>6, <2>7, <2>8, AmendmentThreads
  <2> QED BY <2>1, <2>4, <2>9
<1>5. T = Nat
  <2>1. T \in SUBSET Nat
    OBVIOUS
  <2> HIDE DEF T
  <2> QED BY <2>1, <1>3, <1>4, NatSetInduction
<1>6. P(m)
  <2> HIDE DEF P
  <2>1. \A n \in Nat : n <= m => P(n)
    BY <1>5
  <2> HIDE DEF m
  <2>2. m \in Nat /\ m <= m
    BY <1>2
  <2> QED BY <2>1, <2>2
<1>7. Threads(g[1], J \cup JointsFrom(lines, 1))
  <2>1. m + 1 - m = 1
    BY <1>2
  <2> QED BY <1>6, <2>1
<1> QED BY <1>1, <1>7
-----------------------------------------------------------------------------
(***************************************************************************)
(* Walks.  A reader who follows the links of lines that are chained comes  *)
(* by their clusters, one after the other, and to the end.                 *)
(***************************************************************************)
IsWalk(w, cluster, n) ==
    w = [k \in 0 .. n |->
            IF k = 0 THEN cluster ELSE IF w[k-1] = EndMark THEN EndMark ELSE Link(w[k-1])]

LEMMA WalkIs == ASSUME NEW cluster, NEW m \in Nat PROVE IsWalk(Walk(cluster, m), cluster, m)
<1> DEFINE Rule(h, k) == IF k = 0 THEN cluster ELSE IF h[k-1] = EndMark THEN EndMark ELSE Link(h[k-1])
           T == {n \in Nat : \E g : IsWalk(g, cluster, n)}
<1>1. 0 \in T
  <2> DEFINE g == [k \in 0 .. 0 |-> cluster]
  <2>1. g = [k \in 0 .. 0 |-> Rule(g, k)]
    OBVIOUS
  <2> HIDE DEF g
  <2>2. IsWalk(g, cluster, 0)
    BY <2>1 DEF IsWalk
  <2> QED BY <2>2
<1>2. ASSUME NEW n \in T PROVE n + 1 \in T
  <2>1. PICK g : IsWalk(g, cluster, n)
    BY <1>2
  <2> DEFINE h == [k \in 0 .. n + 1 |-> IF k <= n THEN g[k] ELSE Rule(g, k)]
  <2>2. n \in Nat /\ g = [k \in 0 .. n |-> Rule(g, k)]
    BY <2>1 DEF IsWalk
  <2>3. \A k \in 0 .. n : k \in 0 .. n + 1 /\ h[k] = g[k]
    BY <2>2
  <2>4. ASSUME NEW k \in 0 .. n + 1 PROVE h[k] = Rule(h, k)
    <3>1. h[k] = Rule(g, k)
      <4>1. CASE k <= n
        <5>1. k \in 0 .. n
          BY <2>2, <4>1
        <5> QED BY <2>2, <2>3, <5>1
      <4>2. CASE ~(k <= n)
        BY <4>2
      <4> QED BY <4>1, <4>2
    <3>2. k # 0 => h[k-1] = g[k-1]
      <4> HIDE DEF h
      <4>1. k # 0 => k - 1 \in 0 .. n
        BY <2>2
      <4> QED BY <2>3, <4>1
    <3> HIDE DEF h
    <3> QED BY <3>1, <3>2
  <2>5. h = [k \in 0 .. n + 1 |-> Rule(h, k)]
    BY <2>4
  <2> HIDE DEF h
  <2>6. IsWalk(h, cluster, n + 1) /\ n + 1 \in Nat
    BY <2>2, <2>5 DEF IsWalk
  <2> QED BY <2>6
<1>3. T = Nat
  <2>1. T \in SUBSET Nat
    OBVIOUS
  <2> HIDE DEF T
  <2> QED BY <2>1, <1>1, <1>2, NatSetInduction
<1>4. \E g : IsWalk(g, cluster, m)
  BY <1>3
<1> HIDE DEF T
<1> DEFINE w == CHOOSE g : IsWalk(g, cluster, m)
<1>5. Walk(cluster, m) = w
  BY DEF Walk, IsWalk
<1>6. IsWalk(w, cluster, m)
  BY <1>4
<1> HIDE DEF w
<1> QED BY <1>5, <1>6

\* Where each line of a chain starts, counted in clusters.
IsCount(at, lines) ==
    /\ at[1] = 0
    /\ \A i \in 1 .. Len(lines) : at[i] \in Nat /\ at[i+1] = at[i] + (lines[i].last - lines[i].first + 1)

Visits(w, at, lines, k) ==
    \A i \in 1 .. Len(lines) : \A c \in lines[i].first .. lines[i].last :
        at[i] + (c - lines[i].first) = k => w[k] = c

VisitedBy(at, lines, k) ==
    \E i \in 1 .. Len(lines) : \E c \in lines[i].first .. lines[i].last :
        at[i] + (c - lines[i].first) = k

LEMMA ChainWalked ==
    ASSUME NEW lines, Len(lines) \in Nat \ {0}, NEW at, IsCount(at, lines),
           \A i \in 1 .. Len(lines) :
              /\ lines[i].first \in Int /\ lines[i].last \in Int
              /\ Seeds <= lines[i].first /\ lines[i].first <= lines[i].last,
           Linked(links, JointsFrom(lines, 1))
    PROVE  LET w == Walk(lines[1].first, at[Len(lines) + 1]) IN
           /\ at[Len(lines) + 1] \in Nat /\ w[at[Len(lines) + 1]] = EndMark
           /\ \A k \in 0 .. at[Len(lines) + 1] - 1 : Visits(w, at, lines, k) /\ VisitedBy(at, lines, k)
<1> DEFINE m == Len(lines)
           n == at[m + 1]
           w == Walk(lines[1].first, n)
<1>1. m \in Nat \ {0} /\ m \in 1 .. m /\ 1 \in 1 .. m
  OBVIOUS
<1>2. ASSUME NEW i \in 1 .. m
      PROVE  /\ lines[i].first \in Int /\ lines[i].last \in Int
             /\ Seeds <= lines[i].first /\ lines[i].first <= lines[i].last
             /\ at[i] \in Nat /\ at[i+1] = at[i] + (lines[i].last - lines[i].first + 1)
  BY DEF IsCount
<1>3. n \in Nat
  <2> DEFINE a == at[m]
             f == lines[m].first
             l == lines[m].last
  <2>1. a \in Nat /\ f \in Int /\ l \in Int /\ f <= l /\ n = a + (l - f + 1)
    BY <1>1, <1>2
  <2> HIDE DEF a, f, l, n
  <2> QED BY <2>1
<1>4. w[0] = lines[1].first /\ \A k \in 0 .. n - 1 : w[k+1] = IF w[k] = EndMark THEN EndMark ELSE Link(w[k])
  <2>1. IsWalk(w, lines[1].first, n)
    BY <1>3, WalkIs
  <2> HIDE DEF w, n
  <2>2. \A k \in 0 .. n : w[k] = IF k = 0 THEN lines[1].first
                                 ELSE IF w[k-1] = EndMark THEN EndMark ELSE Link(w[k-1])
    BY <2>1 DEF IsWalk
  <2>3. 0 \in 0 .. n
    BY <1>3
  <2>4. ASSUME NEW k \in 0 .. n - 1 PROVE w[k+1] = IF w[k] = EndMark THEN EndMark ELSE Link(w[k])
    <3>1. k + 1 \in 0 .. n /\ k + 1 # 0 /\ (k + 1) - 1 = k
      BY <1>3
    <3> QED BY <2>2, <3>1
  <2> QED BY <2>2, <2>3, <2>4
<1>5. ASSUME NEW i \in 1 .. m, NEW c \in lines[i].first .. lines[i].last
      PROVE  Link(c) = (IF c = lines[i].last THEN NextOf(lines, i) ELSE c + 1) /\ c # EndMark /\ c \in Int
  <2>1. JointAt(lines, i) \in JointsFrom(lines, 1)
    BY DEF JointsFrom
  <2>2. /\ JointAt(lines, i).first = lines[i].first /\ JointAt(lines, i).last = lines[i].last
        /\ JointAt(lines, i).next = NextOf(lines, i)
    BY DEF JointAt, Joint
  <2>3. LinkIn(links, c) = IF c = lines[i].last THEN NextOf(lines, i) ELSE c + 1
    BY <2>1, <2>2 DEF Linked
  <2>4. Link(c) = LinkIn(links, c)
    BY DEF Link, LinkIn
  <2>5. c \in Int /\ c # EndMark
    BY <1>2 DEF Seeds, EndMark
  <2> QED BY <2>3, <2>4, <2>5
<1> HIDE DEF w
<1> DEFINE V(k) == Visits(w, at, lines, k)
           H(k) == VisitedBy(at, lines, k)
           T == {k \in Nat : k <= n - 1 => V(k) /\ H(k)}
<1>6. ASSUME NEW i \in 1 .. m PROVE i = 1 <=> at[i] = 0
  <2>1. at[1] = 0
    BY DEF IsCount
  <2>2. CASE i # 1
    <3>1. i - 1 \in 1 .. m /\ (i - 1) + 1 = i
      BY <1>1, <2>2
    <3>2. at[i] = at[i-1] + (lines[i-1].last - lines[i-1].first + 1)
      BY <1>2, <3>1
    <3>3. at[i] > 0
      BY <1>2, <3>1, <3>2
    <3> QED BY <2>2, <3>3
  <2> QED BY <2>1, <2>2
<1>7. 0 \in T
  <2>1. V(0)
    <3> SUFFICES ASSUME NEW i \in 1 .. m, NEW c \in lines[i].first .. lines[i].last,
                        at[i] + (c - lines[i].first) = 0
                 PROVE  w[0] = c
      BY DEF Visits
    <3>1. at[i] = 0 /\ c = lines[i].first
      BY <1>2
    <3> QED BY <1>4, <1>6, <3>1
  <2>2. H(0)
    <3>1. lines[1].first \in lines[1].first .. lines[1].last /\ at[1] + (lines[1].first - lines[1].first) = 0
      BY <1>1, <1>2 DEF IsCount
    <3> QED BY <1>1, <3>1 DEF VisitedBy
  <2> QED BY <2>1, <2>2
<1>8. ASSUME NEW k \in T PROVE k + 1 \in T
  <2> SUFFICES ASSUME k + 1 <= n - 1 PROVE V(k + 1) /\ H(k + 1)
    <3> HIDE DEF V, H, n
    <3> QED OBVIOUS
  <2>1. k \in 0 .. n - 1 /\ k \in Nat /\ V(k) /\ H(k)
    BY <1>3, <1>8
  <2>2. V(k + 1)
    <3> SUFFICES ASSUME NEW i \in 1 .. m, NEW c \in lines[i].first .. lines[i].last,
                        at[i] + (c - lines[i].first) = k + 1
                 PROVE  w[k + 1] = c
      BY DEF Visits
    <3>1. CASE c # lines[i].first
      <4>1. c - 1 \in lines[i].first .. lines[i].last /\ at[i] + ((c - 1) - lines[i].first) = k /\ c - 1 # lines[i].last
        <5> DEFINE a == at[i]
                   f == lines[i].first
                   l == lines[i].last
        <5>1. a \in Nat /\ f \in Int /\ l \in Int /\ c \in f .. l /\ a + (c - f) = k + 1 /\ c # f
          BY <1>2, <3>1
        <5> HIDE DEF a, f, l
        <5>2. c - 1 \in f .. l /\ a + ((c - 1) - f) = k /\ c - 1 # l
          BY <2>1, <5>1
        <5> QED BY <5>2 DEF a, f, l
      <4>2. w[k] = c - 1
        BY <2>1, <4>1 DEF Visits
      <4>3. Link(c - 1) = (c - 1) + 1 /\ c - 1 # EndMark /\ c \in Int
        BY <1>2, <1>5, <4>1
      <4> QED BY <1>4, <2>1, <4>2, <4>3
    <3>2. CASE c = lines[i].first
      <4>1. at[i] = k + 1 /\ i # 1
        BY <1>2, <1>6, <2>1, <3>2
      <4> DEFINE p == i - 1
      <4>2. p \in 1 .. m /\ p + 1 = i /\ p # m
        BY <1>1, <4>1
      <4> HIDE DEF p
      <4>3. lines[p].last \in lines[p].first .. lines[p].last /\ at[p] + (lines[p].last - lines[p].first) = k
        <5> DEFINE a == at[p]
                   f == lines[p].first
                   l == lines[p].last
        <5>1. a \in Nat /\ f \in Int /\ l \in Int /\ f <= l /\ a + (l - f + 1) = k + 1
          BY <1>2, <4>1, <4>2
        <5> HIDE DEF a, f, l
        <5>2. l \in f .. l /\ a + (l - f) = k
          BY <2>1, <5>1
        <5> QED BY <5>2 DEF a, f, l
      <4>4. w[k] = lines[p].last
        BY <2>1, <4>2, <4>3 DEF Visits
      <4>5. Link(lines[p].last) = lines[i].first /\ lines[p].last # EndMark
        BY <1>5, <4>2, <4>3 DEF NextOf
      <4> QED BY <1>4, <2>1, <3>2, <4>4, <4>5
    <3> QED BY <3>1, <3>2
  <2>3. H(k + 1)
    <3>1. PICK i \in 1 .. m : \E c \in lines[i].first .. lines[i].last : at[i] + (c - lines[i].first) = k
      BY <2>1 DEF VisitedBy
    <3>2. PICK c \in lines[i].first .. lines[i].last : at[i] + (c - lines[i].first) = k
      BY <3>1
    <3>3. CASE c # lines[i].last
      <4>1. c + 1 \in lines[i].first .. lines[i].last /\ at[i] + ((c + 1) - lines[i].first) = k + 1
        <5> DEFINE a == at[i]
                   f == lines[i].first
                   l == lines[i].last
        <5>1. a \in Nat /\ f \in Int /\ l \in Int /\ c \in f .. l /\ a + (c - f) = k /\ c # l
          BY <1>2, <3>2, <3>3
        <5> HIDE DEF a, f, l
        <5>2. c + 1 \in f .. l /\ a + ((c + 1) - f) = k + 1
          BY <2>1, <5>1
        <5> QED BY <5>2 DEF a, f, l
      <4> QED BY <4>1 DEF VisitedBy
    <3>4. CASE c = lines[i].last
      <4>1. at[i+1] = k + 1
        <5> DEFINE a == at[i]
                   f == lines[i].first
                   l == lines[i].last
        <5>1. a \in Nat /\ f \in Int /\ l \in Int /\ a + (l - f) = k /\ at[i+1] = a + (l - f + 1)
          BY <1>2, <3>2, <3>4
        <5> HIDE DEF a, f, l
        <5> QED BY <2>1, <5>1
      <4>2. i # m
        BY <1>3, <4>1
      <4>3. i + 1 \in 1 .. m
        BY <1>1, <4>2
      <4>4. /\ lines[i+1].first \in lines[i+1].first .. lines[i+1].last
            /\ at[i+1] + (lines[i+1].first - lines[i+1].first) = k + 1
        BY <1>2, <4>1, <4>3
      <4> QED BY <4>3, <4>4 DEF VisitedBy
    <3> QED BY <3>3, <3>4
  <2> QED BY <2>2, <2>3
<1>9. T = Nat
  <2>1. T \in SUBSET Nat
    OBVIOUS
  <2> HIDE DEF T
  <2> QED BY <2>1, <1>7, <1>8, NatSetInduction
<1>10. \A k \in 0 .. n - 1 : V(k) /\ H(k)
  <2> HIDE DEF V, H
  <2>1. \A k \in Nat : k <= n - 1 => V(k) /\ H(k)
    BY <1>9
  <2> HIDE DEF n, T
  <2> QED BY <1>3, <2>1
<1>11. w[n] = EndMark
  <2> DEFINE c == lines[m].last
  <2>1. at[m] \in Nat /\ n = at[m] + (c - lines[m].first + 1) /\ c \in lines[m].first .. lines[m].last
        /\ lines[m].first \in Int /\ c \in Int /\ lines[m].first <= c
    BY <1>1, <1>2
  <2>2. n - 1 \in 0 .. n - 1 /\ at[m] + (c - lines[m].first) = n - 1
    <3> DEFINE a == at[m]
               f == lines[m].first
    <3>1. a \in Nat /\ f \in Int /\ c \in Int /\ f <= c /\ n = a + (c - f + 1)
      BY <2>1
    <3> HIDE DEF n, a, f, c
    <3>2. n - 1 \in 0 .. n - 1 /\ a + (c - f) = n - 1
      BY <3>1
    <3> QED BY <3>2 DEF a, f
  <2>3. w[n-1] = c
    BY <1>1, <1>10, <2>1, <2>2 DEF Visits
  <2>4. Link(c) = EndMark /\ c # EndMark
    BY <1>1, <1>5, <2>1 DEF NextOf
  <2>5. (n - 1) + 1 = n
    BY <1>3
  <2> HIDE DEF n, c
  <2> QED BY <1>4, <2>2, <2>3, <2>4, <2>5
<1> QED BY <1>3, <1>10, <1>11 DEF w
-----------------------------------------------------------------------------
(***************************************************************************)
(* The lines of the files.  What a locator answers is chainable if files   *)
(* share extents as hard links do, all of them in the same order, if an    *)
(* extent is empty only where a file has no other, and if no extent is on  *)
(* what stands for a directory.                                            *)
(***************************************************************************)
SharedWhole ==
    \A t \in ExtentTrees \cup FileTrees : \A f, g \in Files : \A i \in DOMAIN t[f], j \in DOMAIN t[g] :
        t[f][i] = t[g][j] => t[f] = t[g] /\ i = j

EmptyAlone ==
    \A t \in ExtentTrees \cup FileTrees : \A f, g \in Files : \A i \in DOMAIN t[f] :
        t[f][i].len > 0 \/ Len(t[g]) <= 1

OffDirs == \A t \in ExtentTrees \cup FileTrees : \A f \in Files : \A i \in DOMAIN t[f] : t[f][i].med \notin Dirs

Chainable == NoneShared /\ SharedWhole /\ EmptyAlone /\ OffDirs

Lines(f) == [i \in DOMAIN layout[f] |-> Clusters(WithinArea(layout[f][i]), layout[f][i].len)]

FileJoints(f) == JointsFrom(Lines(f), 1)

Settled == stage \in {"planned", "burnt"}

LEMMA TreeOf ==
    ASSUME GeoInv, Laid
    PROVE  /\ tree \in ExtentTrees \cup FileTrees /\ DOMAIN layout = Files /\ blkSz \in SizeRange
           /\ blkSz \in Nat \ {0} /\ area \in Nat /\ area % blkSz = 0
           /\ \A f \in Files : layout[f] = tree[f] /\ layout[f] \in Seq(Extents)
           /\ \A f \in Files : \A i \in DOMAIN layout[f] :
                 layout[f][i] \in FileExtents /\ layout[f][i].len \in Nat /\ layout[f][i].off \in Nat
<1>1. /\ GeoTyped /\ DOMAIN layout = Files /\ blkSz \in Nat \ {0} /\ area \in Nat /\ area % blkSz = 0
      /\ blkSz \in SizeRange
  BY GeometryAssumption DEF GeoInv, Sized, Writing
<1>2. tree \in ExtentTrees \cup FileTrees /\ \A f \in Files : layout[f] = tree[f]
  BY <1>1 DEF GeoTyped
<1>3. \A f \in Files : \A i \in DOMAIN layout[f] : layout[f][i] \in FileExtents /\ layout[f][i] \in Extents
  BY <1>1, TreeTyped
<1>4. \A f \in Files : tree[f] \in Seq(Extents)
  BY <1>1, TreeTyped
<1> QED BY <1>1, <1>2, <1>3, <1>4 DEF Extents

LEMMA LinesAre ==
    ASSUME NoneShared, GeoInv, Stacked, Settled, NEW f \in Files
    PROVE  /\ Len(Lines(f)) = Len(layout[f]) /\ Len(Lines(f)) \in Nat /\ DOMAIN layout[f] = 1 .. Len(Lines(f))
           /\ \A i \in 1 .. Len(Lines(f)) :
                 IsLine(WithinArea(layout[f][i]), layout[f][i].len, Lines(f)[i])
                 /\ WithinArea(layout[f][i]) \in Nat /\ WithinArea(layout[f][i]) % blkSz = 0
<1> DEFINE n == Len(layout[f])
<1>1. Laid /\ stage \in {"planned", "burnt"}
  BY DEF Laid, Settled
<1>2. /\ layout[f] \in Seq(Extents) /\ blkSz \in Nat \ {0}
      /\ \A i \in DOMAIN layout[f] : layout[f][i] \in FileExtents /\ layout[f][i].len \in Nat
  BY <1>1, TreeOf
<1>3. n \in Nat /\ DOMAIN layout[f] = 1 .. n
  BY <1>2
<1>4. Undivided(FileExtents)
  BY <1>1, FileExtentsUndivided
<1>5. BlockAligned
  BY GeoBlockAligned
<1>6. DOMAIN Lines(f) = 1 .. n /\ Len(Lines(f)) = n
  <2>1. Lines(f) = [i \in 1 .. n |-> Clusters(WithinArea(layout[f][i]), layout[f][i].len)]
    BY <1>3 DEF Lines
  <2> HIDE DEF n
  <2> QED BY <1>3, <2>1
<1>7. ASSUME NEW i \in 1 .. n
      PROVE  /\ IsLine(WithinArea(layout[f][i]), layout[f][i].len, Lines(f)[i])
             /\ WithinArea(layout[f][i]) \in Nat /\ WithinArea(layout[f][i]) % blkSz = 0
  <2> DEFINE x == layout[f][i]
             a == WithinArea(x)
  <2>1. x \in FileExtents /\ x.len \in Nat
    BY <1>2, <1>3
  <2>2. a \in Nat
    <3> HIDE DEF x
    <3> QED BY <1>1, <1>4, <2>1, PlaceTyped
  <2>3. a % blkSz = 0
    BY <1>1, <1>3, <1>5 DEF BlockAligned
  <2>4. Lines(f)[i] = Clusters(a, x.len)
    BY <1>3 DEF Lines
  <2> HIDE DEF x, a
  <2>5. IsLine(a, x.len, Lines(f)[i])
    BY <1>2, <2>1, <2>2, <2>3, <2>4, ClustersAre
  <2> QED BY <2>2, <2>3, <2>5 DEF x, a
<1> QED BY <1>3, <1>6, <1>7

LEMMA FileJointsAre ==
    ASSUME Chainable, GeoInv, Stacked, Settled, NEW f \in Files, NEW i \in 1 .. Len(Lines(f))
    PROVE  IsJoint(JointAt(Lines(f), i))
<1> DEFINE j == JointAt(Lines(f), i)
           l == Lines(f)[i]
           x == layout[f][i]
<1>1. Laid
  BY DEF Laid, Settled
<1>2. blkSz \in Nat \ {0} /\ i \in DOMAIN layout[f] /\ x.len \in Nat /\ WithinArea(x) \in Nat
      /\ IsLine(WithinArea(x), x.len, l)
      /\ layout[f] = tree[f] /\ tree \in ExtentTrees \cup FileTrees
  BY <1>1, TreeOf, LinesAre DEF Chainable
<1>3. j.first = l.first /\ j.last = l.last /\ j.next = NextOf(Lines(f), i)
  BY DEF JointAt, Joint
<1>4. x.len = 0 => j.next = EndMark
  <2> SUFFICES ASSUME x.len = 0 PROVE Len(Lines(f)) <= 1
    BY <1>3, LinesAre DEF Chainable, NextOf
  <2>1. Len(tree[f]) <= 1
    BY <1>2 DEF Chainable, EmptyAlone
  <2> QED BY <1>2, <2>1, LinesAre DEF Chainable
<1> HIDE DEF l, x, j
<1>5. /\ l.first \in Int /\ l.last \in Int /\ Seeds <= l.first /\ l.first - 1 <= l.last
      /\ (x.len > 0 => l.first <= l.last)
  BY <1>2, LineBounds
<1>6. l.last < l.first => x.len = 0
  BY <1>2, <1>5
<1>7. IsJoint(j)
  BY <1>3, <1>4, <1>5, <1>6 DEF IsJoint
<1> QED BY <1>7 DEF j

\* The lines of files are apart, or they are those of hard links.
LEMMA FileJointsApart ==
    ASSUME Chainable, GeoInv, Stacked, Settled,
           NEW f \in Files, NEW i \in 1 .. Len(Lines(f)), NEW g \in Files, NEW h \in 1 .. Len(Lines(g))
    PROVE  LET l == JointAt(Lines(f), i)
               m == JointAt(Lines(g), h)
           IN  /\ l = m \/ l.last < m.first \/ m.last < l.first
               /\ l.last < l.first => m.next = EndMark
<1> DEFINE l == JointAt(Lines(f), i)
           m == JointAt(Lines(g), h)
           p == Lines(f)[i]
           q == Lines(g)[h]
           x == layout[f][i]
           y == layout[g][h]
<1>1. Laid /\ stage \in {"planned", "burnt"} /\ NoneShared
  BY DEF Laid, Settled, Chainable
<1>2. /\ blkSz \in Nat \ {0} /\ i \in DOMAIN layout[f] /\ h \in DOMAIN layout[g]
      /\ layout[f] = tree[f] /\ layout[g] = tree[g] /\ tree \in ExtentTrees \cup FileTrees
      /\ x \in FileExtents /\ y \in FileExtents /\ x.len \in Nat /\ y.len \in Nat
      /\ WithinArea(x) \in Nat /\ WithinArea(y) \in Nat
      /\ IsLine(WithinArea(x), x.len, p) /\ IsLine(WithinArea(y), y.len, q)
      /\ Len(Lines(g)) = Len(layout[g])
  BY <1>1, TreeOf, LinesAre
<1>3. l.first = p.first /\ l.last = p.last /\ m.first = q.first /\ m.last = q.last /\ m.next = NextOf(Lines(g), h)
  BY DEF JointAt, Joint
<1>4. x = y => l = m
  <2> SUFFICES ASSUME x = y PROVE l = m
    OBVIOUS
  <2>1. layout[f] = layout[g] /\ i = h
    BY <1>2 DEF Chainable, SharedWhole
  <2>2. Lines(f) = Lines(g)
    BY <2>1 DEF Lines
  <2> QED BY <2>1, <2>2
<1>5. p.last < p.first => m.next = EndMark
  <2> SUFFICES ASSUME p.last < p.first PROVE m.next = EndMark
    OBVIOUS
  <2>1. p.first \in Int /\ p.last \in Int /\ (x.len > 0 => p.first <= p.last)
    <3> HIDE DEF p, x
    <3> QED BY <1>2, LineBounds
  <2>2. ~(x.len > 0)
    <3> HIDE DEF p, x
    <3> QED BY <2>1
  <2>3. Len(tree[g]) <= 1
    BY <1>2, <2>2 DEF Chainable, EmptyAlone
  <2>4. h = Len(Lines(g))
    BY <1>2, <2>3
  <2> QED BY <1>3, <2>4 DEF NextOf
<1>6. x # y => p.last < q.first \/ q.last < p.first
  <2> SUFFICES ASSUME x # y PROVE p.last < q.first \/ q.last < p.first
    OBVIOUS
  <2> HIDE DEF x, y, p, q
  <2>1. Undivided(FileExtents)
    BY <1>1, FileExtentsUndivided
  <2>2. WithinArea(x) + x.len <= WithinArea(y) \/ WithinArea(y) + y.len <= WithinArea(x)
    BY <1>1, <1>2, <2>1, PlacesApart
  <2> QED BY <1>2, <2>2, LinesApart
<1> HIDE DEF l, m, p, q, x, y
<1>7. (l = m \/ l.last < m.first \/ m.last < l.first) /\ (l.last < l.first => m.next = EndMark)
  BY <1>3, <1>4, <1>5, <1>6
<1> QED BY <1>7 DEF l, m

\* What was appended to the planner so far is behind the lines of the files.
LEMMA FileJointsBelow ==
    ASSUME Chainable, GeoInv, Stacked, Settled, NEW at \in Nat,
           \A id \in DOMAIN cols : \A k \in DOMAIN cols[id] : Behind(id, k, area + at),
           NEW len \in Nat, NEW line, IsLine(at, len, line),
           NEW f \in Files, NEW j \in FileJoints(f)
    PROVE  j.last < line.first
<1>1. PICK i \in 1 .. Len(Lines(f)) : j = JointAt(Lines(f), i)
  BY DEF FileJoints, JointsFrom
<1> DEFINE p == Lines(f)[i]
           x == layout[f][i]
<1>2. Laid /\ stage \in {"planned", "burnt"} /\ NoneShared
  BY DEF Laid, Settled, Chainable
<1>3. /\ blkSz \in Nat \ {0} /\ i \in DOMAIN layout[f] /\ area \in Nat
      /\ x \in FileExtents /\ x.len \in Nat /\ WithinArea(x) \in Nat
      /\ IsLine(WithinArea(x), x.len, p)
  BY <1>2, TreeOf, LinesAre
<1>4. j.last = p.last
  BY <1>1 DEF JointAt, Joint
<1>5. Undivided(FileExtents)
  BY <1>2, FileExtentsUndivided
<1> HIDE DEF x, p
<1>6. area + WithinArea(x) + x.len <= area + at
  <2> DEFINE e == area + at
  <2>1. e \in Int /\ \A id \in DOMAIN cols : \A k \in DOMAIN cols[id] : Behind(id, k, e)
    BY <1>3
  <2> HIDE DEF e
  <2>2. area + WithinArea(x) + x.len <= e
    BY <1>2, <1>3, <1>5, <2>1, PlaceTyped
  <2> QED BY <2>2 DEF e
<1>7. WithinArea(x) + x.len <= at
  <2> DEFINE a == WithinArea(x)
  <2>1. a \in Nat /\ area + a + x.len <= area + at
    BY <1>3, <1>6
  <2> HIDE DEF a
  <2>2. a + x.len <= at
    BY <1>3, <2>1
  <2> QED BY <2>2 DEF a
<1>8. p.last < line.first
  BY <1>3, <1>7, LinesApart
<1> QED BY <1>4, <1>8
-----------------------------------------------------------------------------
(***************************************************************************)
(* The size of the table is a number.                                      *)
(***************************************************************************)
LEMMA ImageFinite ==
    ASSUME NEW f, IsFiniteSet(DOMAIN f)
    PROVE  IsFiniteSet({f[x] : x \in DOMAIN f})
<1> DEFINE S == DOMAIN f
           T == {f[x] : x \in S}
           g == [x \in S |-> f[x]]
<1>1. g \in Surjection(S, T)
  <2>1. g \in [S -> T]
    OBVIOUS
  <2>2. \A t \in T : \E s \in S : g[s] = t
    OBVIOUS
  <2> HIDE DEF g, S, T
  <2> QED BY <2>1, <2>2 DEF Surjection
<1> HIDE DEF g
<1>2. IsFiniteSet(S)
  OBVIOUS
<1> HIDE DEF S
<1>3. IsFiniteSet(T)
  <2> HIDE DEF T
  <2> QED BY <1>1, <1>2, FS_Surjection
<1> QED BY <1>3 DEF S

LEMMA ToSetFinite == ASSUME NEW S, NEW s \in Seq(S) PROVE IsFiniteSet(ToSet(s))
<1>1. DOMAIN s = 1 .. Len(s) /\ Len(s) \in Int /\ 1 \in Int
  OBVIOUS
<1>2. IsFiniteSet(DOMAIN s)
  BY <1>1, FS_Interval
<1> QED BY <1>2, ImageFinite DEF ToSet

LEMMA FileExtentsFinite == ASSUME GeoInv, Laid PROVE IsFiniteSet(FileExtents)
<1> DEFINE g == [f \in Files |-> ToSet(layout[f])]
           X == {g[f] : f \in DOMAIN g}
<1>1. DOMAIN layout = Files /\ \A f \in Files : layout[f] \in Seq(Extents)
  BY TreeOf
<1>2. DOMAIN g = Files /\ \A f \in Files : g[f] = ToSet(layout[f]) /\ IsFiniteSet(g[f])
  BY <1>1, ToSetFinite
<1> HIDE DEF g
<1>3. IsFiniteSet(DOMAIN g)
  BY <1>2, FatAssumption
<1>4. IsFiniteSet(X)
  BY <1>3, ImageFinite
<1>5. \A T \in X : IsFiniteSet(T)
  BY <1>2
<1>6. X = {ToSet(layout[f]) : f \in DOMAIN layout}
  BY <1>1, <1>2
<1> HIDE DEF X
<1>7. IsFiniteSet(UNION X)
  BY <1>4, <1>5, FS_UNION
<1> QED BY <1>6, <1>7 DEF FileExtents

LEMMA TotalLengthIsNat == ASSUME GeoInv, Laid PROVE TotalLength \in Nat
<1> DEFINE R == UNION {{id} \X DOMAIN plan[id] : id \in DOMAIN plan}
           length == [r \in R |-> plan[r[1]][r[2]] - r[2]]
           X == FileExtents
           g == [x \in X |-> <<Id[x.med], x.off>>]
           Y == {g[x] : x \in DOMAIN g}
<1>1. GeoTyped /\ Covers(Geo, FileExtents)
  BY DEF GeoInv, Writing
<1>2. \A r \in R : r[1] \in DOMAIN plan /\ r[2] \in DOMAIN plan[r[1]] /\ r = <<r[1], r[2]>>
  OBVIOUS
<1>3. DOMAIN g = X /\ IsFiniteSet(DOMAIN g) /\ \A x \in X : g[x] = <<Id[x.med], x.off>>
  BY FileExtentsFinite
<1> HIDE DEF g
<1>4. IsFiniteSet(Y)
  BY <1>3, ImageFinite
<1>5. R \subseteq Y
  <2> SUFFICES ASSUME NEW r \in R PROVE r \in Y
    OBVIOUS
  <2>1. r[1] \in DOMAIN plan /\ r[2] \in DOMAIN plan[r[1]] /\ r = <<r[1], r[2]>>
    BY <1>2
  <2>2. IsRange(r[1], r[2], plan[r[1]][r[2]], FileExtents)
    BY <1>1, <2>1 DEF Covers, Geo, Retains
  <2>3. PICK x \in FileExtents : Id[x.med] = r[1] /\ r[2] = x.off
    BY <2>2 DEF IsRange
  <2>4. r = g[x] /\ x \in DOMAIN g
    BY <1>3, <2>1, <2>3
  <2> QED BY <2>4
<1> HIDE DEF Y
<1>6. IsFiniteSet(R)
  BY <1>4, <1>5, FS_Subset
<1>7. DOMAIN length = R
  OBVIOUS
<1>8. \A r \in R : length[r] \in Nat
  <2> SUFFICES ASSUME NEW r \in R PROVE plan[r[1]][r[2]] - r[2] \in Nat
    OBVIOUS
  <2>1. r[1] \in DOMAIN plan /\ r[2] \in DOMAIN plan[r[1]]
    BY <1>2
  <2> DEFINE k == r[2]
             e == plan[r[1]][k]
  <2>2. k \in Nat /\ e \in Nat /\ k <= e
    BY <1>1, <2>1, RangeIs
  <2> HIDE DEF k, e
  <2>3. e - k \in Nat
    BY <2>2
  <2> QED BY <2>3 DEF e, k
<1>9. TotalLength = SumOf(length, DOMAIN length)
  BY DEF TotalLength, MapThenSumSet, MapThenFoldSet, SumOf, IsAdding, Added
<1> HIDE DEF R, length
<1>10. SumOf(length, DOMAIN length) \in Nat
  BY <1>6, <1>7, <1>8, SumIsNat
<1> QED BY <1>9, <1>10

LEMMA ReservedIsNat ==
    ASSUME GeoInv, Laid, sparse \in BOOLEAN
    PROVE  RoundUp(ClusterCount, blkSz \div LinkSize) \in Nat \ {0}
<1> DEFINE entries == Cardinality(Files) + 4 * Cardinality(Dirs)
           extra == IF sparse THEN RoundUp(XtraRoom, blkSz) ELSE 0
           footprint == TotalLength + entries + blkSz * Cardinality(Dirs) + extra
           n == RoundUp(footprint, blkSz) \div blkSz + Seeds
           per == blkSz \div LinkSize
<1>1. blkSz \in Nat \ {0} /\ LinkSize \in Nat \ {0} /\ LinkSize <= blkSz
      /\ XtraRoom \in Nat /\ MinClusters \in Nat
  BY TreeOf, FatAssumption
<1>2. entries \in Nat /\ Cardinality(Dirs) \in Nat
  <2>1. Cardinality(Files) \in Nat
    BY FatAssumption, FS_CardinalityType
  <2>2. IsFiniteSet(Dirs)
    BY FatAssumption, ToSetFinite DEF Dirs
  <2>3. Cardinality(Dirs) \in Nat
    BY <2>2, FS_CardinalityType
  <2> QED BY <2>1, <2>3
<1>3. extra \in Nat
  BY <1>1, RoundUpIs
<1>4. footprint \in Nat
  <2> DEFINE d == Cardinality(Dirs)
             a == blkSz * d
  <2>1. TotalLength \in Nat
    BY TotalLengthIsNat
  <2>2. d \in Nat
    BY <1>2
  <2> HIDE DEF d
  <2>3. a \in Nat
    BY <1>1, <2>2
  <2>4. footprint = TotalLength + entries + a + extra
    BY DEF d
  <2> HIDE DEF entries, extra, a, footprint
  <2> QED BY <1>2, <1>3, <2>1, <2>3, <2>4
<1> HIDE DEF footprint
<1>5. n \in Nat \ {0}
  <2> DEFINE m == RoundUp(footprint, blkSz) \div blkSz
  <2>1. m \in Nat
    BY <1>1, <1>4, RoundUpIs
  <2> HIDE DEF m
  <2>2. n = m + 2
    BY DEF m, Seeds
  <2> HIDE DEF n
  <2> QED BY <2>1, <2>2
<1>6. ClusterCount = Max({n, MinClusters})
  BY DEF ClusterCount, footprint
<1> HIDE DEF n
<1>7. ClusterCount \in Nat \ {0}
  <2>1. \E x \in {n, MinClusters} : \A y \in {n, MinClusters} : x >= y
    BY <1>1, <1>5
  <2>2. Max({n, MinClusters}) \in {n, MinClusters} /\ Max({n, MinClusters}) >= n
    BY <2>1 DEF Max
  <2> QED BY <1>1, <1>5, <1>6, <2>2
<1>8. per \in Nat \ {0}
  <2>1. per \in Int /\ blkSz % LinkSize \in 0 .. LinkSize - 1 /\ blkSz = LinkSize * per + (blkSz % LinkSize)
    BY <1>1, Division
  <2> DEFINE r == blkSz % LinkSize
  <2>2. r \in 0 .. LinkSize - 1 /\ blkSz = LinkSize * per + r
    BY <2>1
  <2> HIDE DEF per, r
  <2>3. 0 * LinkSize < (per + 1) * LinkSize
    BY <1>1, <2>1, <2>2
  <2>4. 0 < per + 1
    <3>1. 0 \in Int /\ per + 1 \in Int
      BY <2>1
    <3> QED BY <1>1, <2>3, <3>1, TimesOrdered
  <2>5. per # 0
    <3> SUFFICES ASSUME per = 0 PROVE FALSE
      OBVIOUS
    <3>1. blkSz = r
      BY <1>1, <2>2
    <3> QED BY <1>1, <2>2, <3>1
  <2> QED BY <2>1, <2>4, <2>5
<1> HIDE DEF per
<1>9. RoundUp(ClusterCount, per) \in Nat \ {0}
  BY <1>7, <1>8, RoundUpIs
<1> QED BY <1>9 DEF per
-----------------------------------------------------------------------------
(***************************************************************************)
(* The invariant.  Once the table is reserved it has the threads of what   *)
(* was chained and written; the directories lie behind the files, one      *)
(* behind the other, children before their parents.                        *)
(***************************************************************************)
DirJoint(d) == Joint(dirLayout[d], dirLayout[d] + Filled(d) - 1, EndMark)

Joints == (UNION {FileJoints(f) : f \in chained}) \cup {DirJoint(d) : d \in DOMAIN dirLayout}

InDir(b) ==
    \E d \in DOMAIN dirLayout : Place(dirLayout[d]) <= b /\ b < Place(dirLayout[d] + Filled(d))

Shape ==
    /\ sparse \in BOOLEAN /\ (sparse => ~mapped) /\ blkCount \in Nat /\ chained \subseteq Files
    /\ stage \in {"crawl", "adjusted"} \/ (stage = "optimized" /\ blkCount = 0) => links = <<>>
    /\ \/ Settled \/ stage = "aborted"
       \/ chained = {} /\ dirLayout = <<>> /\ start = <<>> /\ up = <<>> /\ free = <<>>
    /\ DOMAIN dirLayout # {} => chained = Files
    /\ free # <<>> => DOMAIN dirLayout = Dirs
    /\ stage = "burnt" => free # <<>>

Threading == Threads(links, Joints) /\ \A j \in Joints : IsJoint(j) /\ j.last < blkCount

Heaping ==
    stage # "burnt" /\ free = <<>> =>
        /\ Topped
        /\ \A d \in DOMAIN dirLayout : Place(dirLayout[d] + Filled(d)) <= Offset(out)
        /\ \A b \in Nat : b % blkSz = 0 /\ area <= b /\ b < Offset(out) => Covered(b) \/ InDir(b)

Ordering ==
    /\ IsFiniteSet(DOMAIN dirLayout) /\ Cardinality(DOMAIN dirLayout) <= Len(PathTable)
    /\ DOMAIN dirLayout =
           {PathTable[i] : i \in Len(PathTable) - Cardinality(DOMAIN dirLayout) + 1 .. Len(PathTable)}
    /\ \A d \in DOMAIN dirLayout : dirLayout[d] \in Int /\ Seeds <= dirLayout[d]

Listing ==
    /\ IsList(out)
    /\ \A i \in DOMAIN out : out[i].med \in Dirs =>
          /\ out[i].med \in DOMAIN dirLayout
          /\ Offset(SubSeq(out, 1, i - 1)) = Place(dirLayout[out[i].med])
    /\ \A d \in DOMAIN dirLayout : \E i \in DOMAIN out : out[i].med = d

Noting ==
    /\ \A d \in DOMAIN dirLayout :
          /\ \A e \in Entries[d] : e \in DOMAIN start /\ start[e] = FirstCluster(e)
          /\ \A e \in Entries[d] \cap Dirs : up[e] = dirLayout[d]
    /\ Root \in DOMAIN dirLayout => start[Root] = dirLayout[Root]
    /\ DOMAIN up = DOMAIN dirLayout \ {Root}

Freeing ==
    free # <<>> /\ sparse =>
        /\ free[1] \in Int /\ \A j \in Joints : j.last < free[1]
        /\ \A c \in Int : Seeds <= c /\ c < free[1] => Covered(Place(c)) \/ InDir(Place(c))

FatInv ==
    /\ Shape /\ Stacked
    /\ Laid => Threading /\ Heaping /\ Ordering /\ Listing /\ Noting /\ Freeing

LEMMA SameLines ==
    ASSUME layout' = layout, cols' = cols, area' = area, blkSz' = blkSz
    PROVE  /\ \A f : Lines(f)' = Lines(f) /\ FileJoints(f)' = FileJoints(f)
           /\ \A d : Filled(d)' = Filled(d)
           /\ \A c : Place(c)' = Place(c)
<1>1. \A x : WithinArea(x)' = WithinArea(x)
  BY DEF WithinArea, WithinDisk
<1>2. \A o, n : Clusters(o, n)' = Clusters(o, n)
  BY DEF Clusters
<1>3. \A f : Lines(f)' = Lines(f)
  BY <1>1, <1>2 DEF Lines
<1>4. \A f : FileJoints(f)' = FileJoints(f)
  BY <1>3 DEF FileJoints
<1>5. \A d : Filled(d)' = Filled(d)
  BY DEF Filled, FileSize
<1>6. \A c : Place(c)' = Place(c)
  BY DEF Place
<1> QED BY <1>3, <1>4, <1>5, <1>6

\* A step that only changes the stage.
LEMMA SameFatInv ==
    ASSUME FatInv, Laid, layout' = layout, cols' = cols, plan' = plan, area' = area, blkSz' = blkSz,
           out' = out, mapped' = mapped, UNCHANGED fatVars, stage' # "optimized" \/ stage' = stage,
           stage' \in {"optimized", "planned", "burnt"}, stage' = "burnt" => free # <<>>,
           stage = "burnt" => stage' = "burnt"
    PROVE  FatInv'
<1>1. /\ sparse' = sparse /\ blkCount' = blkCount /\ links' = links /\ chained' = chained
      /\ dirLayout' = dirLayout /\ start' = start /\ up' = up /\ free' = free
  BY DEF fatVars
<1>2. Shape'
  BY <1>1 DEF FatInv, Shape, Settled, Laid
<1>3. Stacked'
  BY DEF FatInv, Stacked, Behind, Laid
<1>4. Joints' = Joints
  <2>1. \A f : FileJoints(f)' = FileJoints(f)
    BY SameLines
  <2>2. \A d : DirJoint(d)' = DirJoint(d)
    BY <1>1, SameLines DEF DirJoint
  <2> QED BY <1>1, <2>1, <2>2 DEF Joints
<1>5. Threading'
  BY <1>1, <1>4 DEF FatInv, Threading, Threads, Linked, LinkIn, AmendedBelow, AmendedAround, Strays
<1>6. (\A b : Covered(b)' = Covered(b)) /\ (\A b : InDir(b)' = InDir(b))
  <2>1. \A b : Covered(b)' = Covered(b)
    BY DEF Covered
  <2>2. \A b : InDir(b)' = InDir(b)
    BY <1>1, SameLines DEF InDir, Place
  <2> QED BY <2>1, <2>2
<1>7. IsList(out)' /\ \A d : FirstCluster(d)' = FirstCluster(d)
  <2>1. \A x : WithinArea(x)' = WithinArea(x)
    BY DEF WithinArea, WithinDisk
  <2>2. \A e : FirstCluster(e)' = FirstCluster(e)
    BY <1>1, <2>1 DEF FirstCluster, Clusters
  <2> QED BY <2>2 DEF FatInv, Listing, IsList, Laid
<1>8. Heaping'
  <2>1. stage' # "burnt" /\ free' = <<>> =>
          /\ Topped
          /\ \A d \in DOMAIN dirLayout : Place(dirLayout[d] + Filled(d)) <= Offset(out)
          /\ \A b \in Nat : b % blkSz = 0 /\ area <= b /\ b < Offset(out) => Covered(b) \/ InDir(b)
    BY <1>1 DEF FatInv, Heaping, Laid
  <2>2. Topped => Topped'
    BY DEF Topped, Behind
  <2> QED BY <1>1, <1>6, <2>1, <2>2, SameLines DEF Heaping
<1>9. Ordering' /\ Noting'
  BY <1>1, <1>7 DEF FatInv, Ordering, Noting
<1>10. Listing'
  BY <1>1, <1>7, SameLines DEF FatInv, Listing
<1>11. Freeing'
  BY <1>1, <1>4, <1>6, SameLines DEF FatInv, Freeing
<1> QED BY <1>2, <1>3, <1>5, <1>8, <1>9, <1>10, <1>11 DEF FatInv
-----------------------------------------------------------------------------
(***************************************************************************)
(* The steps up to the files' extents.                                     *)
(***************************************************************************)
LEMMA NoneIs == ASSUME NEW f, f = <<>> PROVE DOMAIN f = {}
OBVIOUS

LEMMA InitFatInv == FatInit => FatInv
<1> SUFFICES ASSUME FatInit PROVE FatInv
  OBVIOUS
<1>1. /\ stage = "crawl" /\ sparse \in BOOLEAN /\ (sparse => ~mapped) /\ blkCount = 0 /\ links = <<>>
      /\ chained = {} /\ dirLayout = <<>> /\ start = <<>> /\ up = <<>> /\ free = <<>>
  BY DEF FatInit, Init
<1>2. ~Laid
  BY <1>1 DEF Laid
<1>3. Shape
  BY <1>1, NoneIs DEF Shape
<1>4. Stacked
  BY <1>2 DEF Stacked
<1> QED BY <1>2, <1>3, <1>4 DEF FatInv

LEMMA CrawlFatInv ==
    ASSUME FatInv, stage \in {"crawl", "adjusted"}, ~Laid', stage' \in {"crawl", "adjusted", "aborted"},
           mapped' = mapped, UNCHANGED fatVars
    PROVE  FatInv'
<1>1. /\ sparse' = sparse /\ blkCount' = blkCount /\ links' = links /\ chained' = chained
      /\ dirLayout' = dirLayout /\ start' = start /\ up' = up /\ free' = free
  BY DEF fatVars
<1>2. Shape'
  BY <1>1 DEF FatInv, Shape, Settled
<1>3. Stacked'
  BY DEF Stacked
<1> QED BY <1>2, <1>3 DEF FatInv

\* What is appended is not on a directory.
NoDir(list) == \A i \in DOMAIN list : list[i].med \notin Dirs

LEMMA AppendedNoDir ==
    ASSUME NEW s \in Seq(Extents), NEW x \in Extents, NoDir(s), x.med \notin Dirs
    PROVE  NoDir(Appended(s, x))
<1>1. NoDir(Append(s, x))
  BY DEF NoDir
<1> QED BY <1>1 DEF Appended

LEMMA ZeroNoDir == Zero \notin Dirs
BY FatAssumption, GeometryAssumption

LEMMA PadToNoDir ==
    ASSUME NEW s \in Seq(Extents), NEW b \in Nat \ {0}, NoDir(s)
    PROVE  NoDir(PadTo(s, b))
<1> DEFINE pad == (b - (Offset(s) % b)) % b
           x == Extent(Zero, 0, pad)
<1>1. Offset(s) \in Nat
  BY OffsetNat
<1>2. pad \in Nat
  BY <1>1, Padding
<1>3. PadTo(s, b) = Appended(s, x)
  BY DEF PadTo
<1> HIDE DEF pad
<1>4. x \in Extents /\ x.med = Zero
  BY <1>2, GeometryAssumption DEF Extent, Extents
<1> HIDE DEF x
<1> QED BY <1>3, <1>4, AppendedNoDir, ZeroNoDir

LEMMA OptimizeFatInv == ASSUME GeoInv, GeoInv', FatInv, Optimize, UNCHANGED fatVars PROVE FatInv'
<1> DEFINE head == <<Extent(Zero, 0, HeaderLen)>>
<1>1. /\ sparse' = sparse /\ blkCount' = blkCount /\ links' = links /\ chained' = chained
      /\ dirLayout' = dirLayout /\ start' = start /\ up' = up /\ free' = free
  BY DEF fatVars
<1>2. /\ stage = "adjusted" /\ stage' = "optimized" /\ mapped' = mapped /\ cols' = cols /\ blkSz' = blkSz
      /\ out' = PadTo(head, blkSz) /\ area' = Offset(out')
  BY DEF Optimize, OptimizeBehind, config
<1>3. /\ cols = <<>> /\ links = <<>> /\ chained = {} /\ dirLayout = <<>> /\ start = <<>> /\ up = <<>>
      /\ free = <<>>
  BY <1>2 DEF GeoInv, Charting, FatInv, Shape, Settled
<1>4. Shape'
  BY <1>1, <1>2, <1>3 DEF FatInv, Shape, Settled
<1>5. DOMAIN cols' = {} /\ DOMAIN links' = {} /\ DOMAIN dirLayout' = {} /\ DOMAIN up' = {}
  BY <1>1, <1>2, <1>3, NoneIs
<1>6. Stacked'
  BY <1>5 DEF Stacked
<1>7. Joints' = {}
  BY <1>1, <1>3, <1>5 DEF Joints
<1>8. Threading'
  BY <1>5, <1>7 DEF Threading, Threads, Linked, AmendedBelow, AmendedAround, Strays
<1>9. out' \in Seq(Extents) /\ Offset(out') \in Nat /\ Offset(out') % blkSz' = 0 /\ blkSz' \in Nat \ {0}
  BY <1>2, GeometryAssumption DEF GeoInv, Cursor, Sized, Laid
<1>10. Topped'
  BY <1>2, <1>5, <1>9 DEF Topped
<1>11. Heaping'
  BY <1>2, <1>5, <1>9, <1>10 DEF Heaping
<1>12. Ordering'
  BY <1>5, FatAssumption, FS_EmptySet DEF Ordering
<1>13. NoDir(out')
  <2>1. head \in Seq(Extents) /\ NoDir(head)
    BY ZeroNoDir, GeometryAssumption DEF NoDir, Extent, Extents
  <2> QED BY <1>2, <1>9, <2>1, PadToNoDir
<1>14. Listing'
  BY <1>5, <1>9, <1>13 DEF Listing, NoDir, IsList
<1>15. Noting'
  BY <1>1, <1>5 DEF Noting
<1>16. Freeing'
  BY <1>1, <1>3 DEF Freeing
<1> QED BY <1>4, <1>6, <1>8, <1>11, <1>12, <1>14, <1>15, <1>16 DEF FatInv

LEMMA WriteFatInv ==
    ASSUME OffDirs, GeoInv, GeoInv', FatInv, WriteRange, UNCHANGED fatVars
    PROVE  FatInv'
<1>1. /\ sparse' = sparse /\ blkCount' = blkCount /\ links' = links /\ chained' = chained
      /\ dirLayout' = dirLayout /\ start' = start /\ up' = up /\ free' = free
  BY DEF fatVars
<1>2. /\ stage = "optimized" /\ stage' = "optimized" /\ mapped' = mapped /\ blkSz' = blkSz
      /\ area' = area /\ plan' = plan
  BY DEF WriteRange, config
<1>3. chained = {} /\ dirLayout = <<>> /\ start = <<>> /\ up = <<>> /\ free = <<>> /\ Shape
  BY <1>2 DEF FatInv, Shape, Settled
<1>4. Stacked /\ Threading /\ Heaping /\ Ordering /\ Listing /\ Noting /\ Freeing
  BY <1>2 DEF FatInv, Laid
<1>5. Shape'
  BY <1>1, <1>2, <1>3 DEF Shape, Settled
<1>6. DOMAIN dirLayout = {} /\ DOMAIN dirLayout' = {} /\ DOMAIN up' = {}
  BY <1>1, <1>3, NoneIs
<1>7. Joints = {} /\ Joints' = {}
  BY <1>1, <1>3, <1>6 DEF Joints
<1>8. Threading'
  BY <1>1, <1>4, <1>7 DEF Threading, Threads, Linked, AmendedBelow, AmendedAround, Strays
<1>9. Topped /\ Tiled
  BY <1>2, <1>3, <1>4, <1>6 DEF Heaping, Tiled, InDir
<1>10. PICK id, k : Writes(id, k)
  BY WritesOne
<1>11. Stacked' /\ Topped' /\ Tiled'
  BY <1>2, <1>4, <1>9, <1>10, WritesStacked
<1>12. Heaping'
  BY <1>6, <1>11 DEF Heaping, Tiled
<1>13. Ordering' /\ Noting' /\ Freeing'
  BY <1>1, <1>3, <1>4, <1>6 DEF Ordering, Noting, Freeing
<1>14. NoDir(out)
  BY <1>4, <1>6 DEF Listing, NoDir
<1>15. NoDir(out') /\ out' \in Seq(Extents)
  <2> DEFINE x == Extent(dMap[id], k, plan[id][k] - k)
  <2>1. /\ GeoTyped /\ Covers(Geo, FileExtents) /\ blkSz \in Nat \ {0} /\ out \in Seq(Extents) /\ Laid
        /\ tree \in ExtentTrees \cup FileTrees /\ DOMAIN layout = Files
        /\ \A f \in Files : layout[f] = tree[f]
    BY <1>2, GeometryAssumption, TreeOf DEF GeoInv, Writing, Sized, Laid, Cursor
  <2>2. /\ id \in DOMAIN plan /\ k \in DOMAIN plan[id]
        /\ out' = PadTo(Appended(out, x), blkSz)
    BY <1>10 DEF Writes
  <2>3. x \in Extents
    BY <2>1, <2>2, RangeIs
  <2>4. dMap[id] \notin Dirs
    <3>1. IsMedium(id, dMap[id], FileExtents)
      BY <2>1, <2>2 DEF Covers, Geo
    <3>2. PICK y \in FileExtents : dMap[id] = y.med
      BY <3>1 DEF IsMedium
    <3>3. PICK f \in DOMAIN layout : \E i \in DOMAIN layout[f] : y = layout[f][i]
      BY <2>1, TreeTyped
    <3> QED BY <2>1, <3>2, <3>3 DEF OffDirs
  <2>5. x.med = dMap[id]
    BY DEF Extent
  <2> HIDE DEF x
  <2>6. Appended(out, x) \in Seq(Extents) /\ NoDir(Appended(out, x))
    BY <1>14, <2>1, <2>3, <2>4, <2>5, AppendedIs, AppendedNoDir
  <2> QED BY <2>1, <2>2, <2>6, PadToIs, PadToNoDir
<1>16. Listing'
  BY <1>6, <1>15 DEF Listing, NoDir, IsList
<1> QED BY <1>5, <1>8, <1>11, <1>12, <1>13, <1>16 DEF FatInv

LEMMA ReserveFatInv == ASSUME GeoInv, FatInv, ReserveFat PROVE FatInv'
<1>1. /\ sparse' = sparse /\ chained' = chained /\ dirLayout' = dirLayout /\ start' = start /\ up' = up
      /\ free' = free /\ stage = "optimized" /\ stage' = stage /\ blkCount = 0
      /\ blkCount' = RoundUp(ClusterCount, blkSz \div LinkSize)
      /\ links' = IF sparse THEN links ELSE SetNext(links, blkCount' - 1, EndMark)
      /\ UNCHANGED vars
  BY DEF ReserveFat, vars
<1>2. /\ layout' = layout /\ cols' = cols /\ plan' = plan /\ area' = area /\ blkSz' = blkSz
      /\ out' = out /\ mapped' = mapped
  BY <1>1 DEF vars, config
<1>3. /\ chained = {} /\ dirLayout = <<>> /\ start = <<>> /\ up = <<>> /\ free = <<>> /\ Shape
      /\ links = <<>>
  BY <1>1 DEF FatInv, Shape, Settled
<1>4. Stacked /\ Threading /\ Heaping /\ Ordering /\ Listing /\ Noting /\ Freeing /\ Laid
  BY <1>1 DEF FatInv, Laid
<1>5. blkCount' \in Nat \ {0}
  BY <1>1, <1>3, <1>4, ReservedIsNat DEF Shape
<1>6. Shape'
  BY <1>1, <1>2, <1>3, <1>5 DEF Shape, Settled
<1>7. DOMAIN dirLayout = {} /\ DOMAIN dirLayout' = {} /\ DOMAIN up' = {} /\ DOMAIN links = {}
  BY <1>1, <1>3, NoneIs
<1>8. Joints' = {}
  BY <1>1, <1>3, <1>7 DEF Joints
<1>9. Threading'
  <2>1. sparse => DOMAIN links' = {}
    BY <1>1, <1>7
  <2>2. ~sparse => DOMAIN links' = {blkCount' - 1} /\ links'[blkCount' - 1] = EndMark
    BY <1>1, <1>7 DEF SetNext, Put
  <2> QED BY <1>1, <1>3, <1>5, <1>8, <2>1, <2>2
          DEF Shape, Threading, Threads, Linked, AmendedBelow, AmendedAround, Strays
<1>10. Stacked'
  BY <1>1, <1>2, <1>4 DEF Stacked, Behind, Laid
<1>11. Topped /\ Tiled
  BY <1>1, <1>3, <1>4, <1>7 DEF Heaping, Tiled, InDir
<1>12. Topped' /\ Tiled'
  BY <1>2, <1>11 DEF Topped, Tiled, Behind, Covered
<1>13. Heaping'
  BY <1>7, <1>12 DEF Heaping, Tiled
<1>14. Ordering' /\ Noting' /\ Freeing'
  BY <1>1, <1>3, <1>4, <1>7 DEF Ordering, Noting, Freeing
<1>15. Listing'
  BY <1>1, <1>2, <1>4, <1>7 DEF Listing, IsList
<1> QED BY <1>6, <1>9, <1>10, <1>13, <1>14, <1>15 DEF FatInv

LEMMA PlannedFatInv == ASSUME FatInv, Planned, UNCHANGED fatVars PROVE FatInv'
<1>1. /\ layout' = layout /\ cols' = cols /\ plan' = plan /\ area' = area /\ blkSz' = blkSz
      /\ out' = out /\ mapped' = mapped /\ stage = "optimized" /\ stage' = "planned"
  BY DEF Planned, config
<1> QED BY <1>1, SameFatInv DEF Laid

LEMMA CommitFatInv ==
    ASSUME FatInv, CommitMapped \/ CommitCopied, free # <<>>, UNCHANGED fatVars
    PROVE  FatInv'
<1>1. /\ layout' = layout /\ cols' = cols /\ plan' = plan /\ area' = area /\ blkSz' = blkSz
      /\ out' = out /\ mapped' = mapped /\ stage = "planned" /\ stage' = "burnt"
  BY DEF CommitMapped, CommitCopied, config
<1> QED BY <1>1, SameFatInv DEF Laid


LEMMA StutterFatInv == ASSUME FatInv, UNCHANGED allVars PROVE FatInv'
<1>1. /\ layout' = layout /\ cols' = cols /\ plan' = plan /\ area' = area /\ blkSz' = blkSz
      /\ out' = out /\ mapped' = mapped /\ stage' = stage /\ UNCHANGED fatVars
  BY DEF allVars, vars, config
<1>2. CASE Laid
  <2>1. stage = "burnt" => free # <<>>
    BY DEF FatInv, Shape
  <2> QED BY <1>1, <1>2, <2>1, SameFatInv DEF Laid
<1>3. CASE ~Laid
  <2>1. /\ sparse' = sparse /\ blkCount' = blkCount /\ links' = links /\ chained' = chained
        /\ dirLayout' = dirLayout /\ start' = start /\ up' = up /\ free' = free
    BY <1>1 DEF fatVars
  <2>2. ~Laid'
    BY <1>1, <1>3 DEF Laid
  <2>3. Shape'
    BY <1>1, <2>1 DEF FatInv, Shape, Settled
  <2>4. Stacked'
    BY <2>2 DEF Stacked
  <2> QED BY <2>2, <2>3, <2>4 DEF FatInv
<1> QED BY <1>2, <1>3
-----------------------------------------------------------------------------
(***************************************************************************)
(* A file is chained.                                                      *)
(***************************************************************************)
LEMMA ChainFatInv ==
    ASSUME Chainable, GeoInv, FatInv, NEW f \in Files, ChainFile(f)
    PROVE  FatInv'
<1>1. /\ stage = "planned" /\ f \notin chained /\ layout' = layout /\ cols' = cols /\ plan' = plan
      /\ area' = area /\ blkSz' = blkSz /\ out' = out /\ mapped' = mapped
      /\ sparse' = sparse /\ blkCount' = blkCount /\ dirLayout' = dirLayout /\ start' = start /\ up' = up
      /\ free' = free /\ Laid /\ Settled
  BY DEF ChainFile, config, Laid, Settled
<1>2. /\ Shape /\ Stacked /\ Threading /\ Heaping /\ Ordering /\ Listing /\ Noting /\ Freeing
  BY <1>1 DEF FatInv
<1>3. IF Reserved(Lines(f))
      THEN links' = Chain(links, Lines(f)) /\ chained' = chained \cup {f} /\ stage' = stage
      ELSE stage' = "aborted" /\ links' = links /\ chained' = chained
  BY DEF ChainFile, Lines
<1>4. DOMAIN dirLayout = {} /\ free = <<>>
  <2>1. DOMAIN dirLayout = {}
    BY <1>1, <1>2 DEF Shape
  <2>2. Dirs # {}
    BY FatAssumption DEF Dirs, ToSet
  <2> QED BY <1>2, <2>1, <2>2 DEF Shape
<1>5. CASE ~Reserved(Lines(f))
  <2>1. ~Laid' /\ stage' = "aborted" /\ links' = links /\ chained' = chained
    BY <1>3, <1>5 DEF Laid
  <2>2. Shape'
    BY <1>1, <1>2, <1>4, <2>1 DEF Shape
  <2>3. Stacked'
    BY <2>1 DEF Stacked
  <2> QED BY <2>1, <2>2, <2>3 DEF FatInv
<1>6. CASE Reserved(Lines(f))
  <2>1. /\ links' = Chain(links, Lines(f)) /\ chained' = chained \cup {f} /\ stage' = "planned"
        /\ Laid' /\ Settled'
    BY <1>1, <1>3, <1>6 DEF Laid, Settled
  <2>2. Shape'
    BY <1>1, <1>2, <1>4, <2>1 DEF Shape
  <2>3. Stacked'
    BY <1>1, <1>2, <2>1 DEF Stacked, Behind, Laid
  <2>4. /\ \A g : FileJoints(g)' = FileJoints(g)
        /\ \A g : Filled(g)' = Filled(g)
        /\ \A c : Place(c)' = Place(c)
    BY <1>1, SameLines
  <2>5. Joints = UNION {FileJoints(g) : g \in chained} /\ Joints' = Joints \cup FileJoints(f)
    BY <1>1, <1>4, <2>1, <2>4 DEF Joints
  <2> DEFINE lines == Lines(f)
  <2>6. /\ Len(lines) \in Nat /\ blkCount \in Int /\ sparse \in BOOLEAN /\ chained \subseteq Files
        /\ \A i \in 1 .. Len(lines) : lines[i].last < blkCount
    <3>1. DOMAIN lines = DOMAIN layout[f] /\ Len(lines) \in Nat /\ DOMAIN layout[f] = 1 .. Len(lines)
      BY <1>1, <1>2, LinesAre DEF Chainable, Lines
    <3> QED BY <1>2, <1>6, <3>1 DEF Shape, Reserved
  <2>7. ASSUME NEW i \in 1 .. Len(lines)
        PROVE  IsJoint(JointAt(lines, i)) /\ Fitting(Joints \cup JointsFrom(lines, 1), JointAt(lines, i))
    <3> DEFINE l == JointAt(lines, i)
    <3>1. IsJoint(l)
      BY <1>1, <1>2, FileJointsAre
    <3>2. ASSUME NEW j \in Joints \cup JointsFrom(lines, 1)
          PROVE  /\ IsJoint(j)
                 /\ j = l \/ j.last < l.first \/ l.last < j.first
                 /\ l.last < l.first => j.next = EndMark
      <4>1. PICK g \in Files : j \in FileJoints(g)
        BY <2>5, <2>6 DEF FileJoints
      <4>2. PICK h \in 1 .. Len(Lines(g)) : j = JointAt(Lines(g), h)
        BY <4>1 DEF FileJoints, JointsFrom
      <4>3. IsJoint(j)
        BY <1>1, <1>2, <4>2, FileJointsAre
      <4>4. /\ l = j \/ l.last < j.first \/ j.last < l.first
            /\ l.last < l.first => j.next = EndMark
        BY <1>1, <1>2, <4>2, FileJointsApart
      <4> HIDE DEF l
      <4> QED BY <4>3, <4>4
    <3> HIDE DEF l
    <3>3. Fitting(Joints \cup JointsFrom(lines, 1), l)
      BY <3>2 DEF Fitting
    <3> QED BY <3>1, <3>3 DEF l
  <2>8. Threads(Chain(links, lines), Joints \cup JointsFrom(lines, 1))
    <3> HIDE DEF lines
    <3> QED BY <1>2, <2>6, <2>7, ChainThreads DEF Threading
  <2>9. ASSUME NEW j \in FileJoints(f) PROVE IsJoint(j) /\ j.last < blkCount
    <3>1. PICK i \in 1 .. Len(lines) : j = JointAt(lines, i)
      BY DEF FileJoints, JointsFrom
    <3> QED BY <2>6, <2>7, <3>1 DEF JointAt, Joint
  <2>10. Threading'
    <3>1. Threads(links', Joints')
      BY <2>1, <2>5, <2>8 DEF FileJoints
    <3>2. Threads(links, Joints)' <=> Threads(links', Joints')
      BY <1>1 DEF Threads, Linked, LinkIn, AmendedBelow, AmendedAround, Strays
    <3> QED BY <1>1, <1>2, <2>5, <2>9, <3>1, <3>2 DEF Threading
  <2>11. Heaping'
    <3>1. Topped => Topped'
      BY <1>1 DEF Topped, Behind
    <3>2. \A b : Covered(b)' = Covered(b)
      BY <1>1 DEF Covered
    <3>3. \A b : ~InDir(b)
      BY <1>4 DEF InDir
    <3> QED BY <1>1, <1>2, <1>4, <3>1, <3>2, <3>3 DEF Heaping
  <2>12. Ordering' /\ Noting'
    BY <1>1, <1>2, <1>4 DEF Ordering, Noting
  <2>13. Listing'
    BY <1>1, <1>2, <1>4 DEF Listing, IsList
  <2>14. Freeing'
    BY <1>1, <1>4 DEF Freeing
  <2> QED BY <2>2, <2>3, <2>10, <2>11, <2>12, <2>13, <2>14 DEF FatInv
<1> QED BY <1>5, <1>6
-----------------------------------------------------------------------------
(***************************************************************************)
(* A directory is written.                                                 *)
(***************************************************************************)
LEMMA PathTableIs ==
    /\ Len(PathTable) \in Nat \ {0} /\ Root = PathTable[1] /\ Root \in Dirs
    /\ Dirs = {PathTable[i] : i \in 1 .. Len(PathTable)}
    /\ \A i, j \in 1 .. Len(PathTable) : PathTable[i] = PathTable[j] => i = j
    /\ \A i \in 1 .. Len(PathTable) : \A e \in Entries[PathTable[i]] \cap Dirs :
          \E j \in 1 .. Len(PathTable) : i < j /\ e = PathTable[j]
<1>1. PathTable \in Seq(Dirs) /\ PathTable # <<>>
  BY FatAssumption
<1>2. Len(PathTable) \in Nat \ {0} /\ DOMAIN PathTable = 1 .. Len(PathTable)
  BY <1>1
<1>3. Root = PathTable[1]
  BY <1>1 DEF Root
<1>4. Dirs = {PathTable[i] : i \in 1 .. Len(PathTable)}
  BY <1>2 DEF Dirs, ToSet
<1>5. \A i, j \in 1 .. Len(PathTable) : PathTable[i] = PathTable[j] => i = j
  BY <1>2, FatAssumption DEF IsInjective
<1>6. \A i \in 1 .. Len(PathTable) : \A e \in Entries[PathTable[i]] \cap Dirs :
          \E j \in 1 .. Len(PathTable) : i < j /\ e = PathTable[j]
  BY <1>2, FatAssumption
<1>7. Root \in Dirs
  BY <1>2, <1>3, <1>4
<1> QED BY <1>2, <1>3, <1>4, <1>5, <1>6, <1>7

LEMMA RootIsNoEntry == ASSUME NEW d \in Dirs PROVE Root \notin Entries[d]
<1> SUFFICES ASSUME Root \in Entries[d] PROVE FALSE
  OBVIOUS
<1>1. PICK i \in 1 .. Len(PathTable) : d = PathTable[i]
  BY PathTableIs
<1>2. PICK j \in 1 .. Len(PathTable) : i < j /\ Root = PathTable[j]
  BY <1>1, PathTableIs
<1>3. Len(PathTable) \in Nat \ {0} /\ 1 \in 1 .. Len(PathTable)
  BY PathTableIs
<1>4. j = 1
  BY <1>2, <1>3, PathTableIs
<1> QED BY <1>2, <1>3, <1>4

LEMMA DirSlotsIs == ASSUME NEW d \in Dirs PROVE DirSlots(d) \in Nat \ {0}
<1> DEFINE E == Entries[d]
           n == SumOf(Slots, E)
<1>1. E \subseteq Files \cup Dirs /\ Root \notin E
  BY FatAssumption, RootIsNoEntry
<1>2. IsFiniteSet(E)
  <2>1. IsFiniteSet(Dirs)
    BY FatAssumption, ToSetFinite DEF Dirs
  <2>2. IsFiniteSet(Files \cup Dirs)
    BY <2>1, FatAssumption, FS_Union
  <2> QED BY <1>1, <2>2, FS_Subset
<1>3. \A e \in E : Slots[e] \in Nat
  BY <1>1, FatAssumption
<1>4. n \in Nat
  <2> HIDE DEF E
  <2> QED BY <1>2, <1>3, SumIsNat
<1>5. MapThenSumSet(LAMBDA e : Slots[e], Entries[d]) = n
  BY DEF MapThenSumSet, MapThenFoldSet, SumOf, IsAdding, Added
<1>6. DirSlots(d) = (IF d = Root THEN 1 ELSE 2) + n + 1
  BY <1>5 DEF DirSlots
<1> HIDE DEF n
<1> QED BY <1>4, <1>6

LEMMA FilledIs ==
    ASSUME NEW d \in Dirs, blkSz \in Nat \ {0}
    PROVE  LET len == RoundUp(DirSlots(d), blkSz) IN
           /\ len \in Nat \ {0} /\ len % blkSz = 0
           /\ Filled(d) \in Nat \ {0} /\ len = Filled(d) * blkSz
<1> DEFINE n == DirSlots(d)
           len == RoundUp(n, blkSz)
           q == len \div blkSz
<1>1. n \in Nat \ {0}
  BY DirSlotsIs
<1>2. Filled(d) = q
  BY DEF Filled
<1> HIDE DEF n
<1>3. len \in Nat /\ len % blkSz = 0 /\ n <= len /\ q \in Nat /\ len = q * blkSz
  BY <1>1, RoundUpIs
<1> HIDE DEF len, q
<1>4. len # 0
  BY <1>1, <1>3
<1>5. q # 0
  BY <1>3, <1>4
<1> QED BY <1>2, <1>3, <1>4, <1>5 DEF len, n

LEMMA PlacesOrdered ==
    ASSUME blkSz \in Nat \ {0}, area \in Int, NEW c \in Int, NEW d \in Int
    PROVE  /\ Place(c) \in Int /\ Place(c + d) = Place(c) + d * blkSz
           /\ Place(c) < Place(d) <=> c < d
           /\ Place(c) <= Place(d) <=> c <= d
<1> DEFINE p == c - Seeds
           q == d - Seeds
<1>1. p \in Int /\ q \in Int /\ p = c - 2 /\ q = d - 2
  BY DEF Seeds
<1>2. Place(c) = area + p * blkSz /\ Place(d) = area + q * blkSz /\ Place(c + d) = area + (p + d) * blkSz
  <2> DEFINE e == c + d
             r == e - Seeds
  <2>1. r = p + d
    BY DEF Seeds
  <2>2. Place(c) = area + p * blkSz /\ Place(d) = area + q * blkSz /\ Place(e) = area + r * blkSz
    <3> HIDE DEF e
    <3> QED BY DEF Place
  <2> HIDE DEF p, q, r
  <2> QED BY <2>1, <2>2
<1> HIDE DEF p, q
<1> DEFINE a == p * blkSz
           b == q * blkSz
<1>3. a \in Int /\ b \in Int /\ d * blkSz \in Int /\ (p + d) * blkSz = a + d * blkSz
  BY <1>1
<1>4. p < q => a < b
  BY <1>1
<1>5. q < p => b < a
  BY <1>1
<1>6. p = q => a = b
  OBVIOUS
<1>7. Place(c) = area + a /\ Place(d) = area + b /\ Place(c + d) = area + (a + d * blkSz)
  BY <1>2, <1>3
<1>8. a < b <=> c < d
  <2> HIDE DEF a, b
  <2> QED BY <1>1, <1>3, <1>4, <1>5, <1>6
<1>9. a <= b <=> c <= d
  <2> HIDE DEF a, b
  <2> QED BY <1>1, <1>3, <1>4, <1>5, <1>6
<1> HIDE DEF a, b
<1> DEFINE e == d * blkSz
<1>10. e \in Int /\ Place(c + d) = area + (a + e)
  BY <1>3, <1>7
<1> HIDE DEF e
<1>11. Place(c + d) = Place(c) + e
  BY <1>3, <1>7, <1>10
<1> QED BY <1>3, <1>7, <1>8, <1>9, <1>11 DEF e

\* The next directory of the loop; what is written has its entries in it.
LEMMA NextDir ==
    ASSUME Ordering, DOMAIN dirLayout # Dirs
    PROVE  LET n == Cardinality(DOMAIN dirLayout)
               d == PathTable[Len(PathTable) - n]
               D == DOMAIN dirLayout
           IN  /\ d \in Dirs /\ d \notin D /\ D \subseteq Dirs /\ Root \notin D
               /\ Entries[d] \cap Dirs \subseteq D
               /\ \A e \in D : Entries[e] \cap Dirs \subseteq D
               /\ IsFiniteSet(D \cup {d}) /\ Cardinality(D \cup {d}) = n + 1 /\ n + 1 <= Len(PathTable)
               /\ D \cup {d} = {PathTable[i] : i \in Len(PathTable) - (n + 1) + 1 .. Len(PathTable)}
<1> DEFINE D == DOMAIN dirLayout
           n == Cardinality(D)
           m == Len(PathTable)
           d == PathTable[m - n]
<1>1. IsFiniteSet(D) /\ n <= m /\ D = {PathTable[i] : i \in m - n + 1 .. m} /\ D # Dirs
  BY DEF Ordering
<1>2. n \in Nat /\ m \in Nat \ {0}
  BY <1>1, FS_CardinalityType, PathTableIs
<1>3. /\ Root = PathTable[1] /\ Root \in Dirs /\ Dirs = {PathTable[i] : i \in 1 .. m}
      /\ \A i, j \in 1 .. m : PathTable[i] = PathTable[j] => i = j
      /\ \A i \in 1 .. m : \A e \in Entries[PathTable[i]] \cap Dirs :
            \E j \in 1 .. m : i < j /\ e = PathTable[j]
  BY PathTableIs
<1> HIDE DEF D, n, m
<1>4. n # m
  <2> SUFFICES ASSUME n = m PROVE FALSE
    OBVIOUS
  <2>1. m - n + 1 = 1
    BY <1>2
  <2> QED BY <1>1, <1>3, <2>1
<1>5. m - n \in 1 .. m /\ m - (n + 1) + 1 = m - n /\ 1 \in 1 .. m /\ n + 1 <= m
  BY <1>1, <1>2, <1>4
<1>6. \A i \in m - n + 1 .. m : i \in 1 .. m /\ i # m - n /\ i # 1
  BY <1>1, <1>2, <1>5
<1>7. d \in Dirs /\ d \notin D /\ D \subseteq Dirs /\ Root \notin D
  BY <1>1, <1>3, <1>5, <1>6
<1>8. ASSUME NEW i \in m - n .. m, NEW e \in Entries[PathTable[i]] \cap Dirs PROVE e \in D
  <2>1. i \in 1 .. m
    BY <1>2, <1>5
  <2>2. PICK j \in 1 .. m : i < j /\ e = PathTable[j]
    BY <1>3, <2>1
  <2>3. j \in m - n + 1 .. m
    BY <1>2, <2>2
  <2> QED BY <1>1, <2>2, <2>3
<1>9. Entries[d] \cap Dirs \subseteq D
  <2>1. m - n \in m - n .. m
    BY <1>2
  <2> QED BY <1>8, <2>1
<1>10. ASSUME NEW e \in D PROVE Entries[e] \cap Dirs \subseteq D
  <2>1. PICK i \in m - n + 1 .. m : e = PathTable[i]
    BY <1>1
  <2>2. i \in m - n .. m
    BY <1>2
  <2> QED BY <1>8, <2>1, <2>2
<1>11. IsFiniteSet(D \cup {d}) /\ Cardinality(D \cup {d}) = n + 1
  BY <1>1, <1>7, FS_AddElement DEF n
<1>12. D \cup {d} = {PathTable[i] : i \in m - n .. m}
  <2>1. \A i \in m - n .. m : i = m - n \/ i \in m - n + 1 .. m
    BY <1>2
  <2>2. m - n \in m - n .. m /\ \A i \in m - n + 1 .. m : i \in m - n .. m
    BY <1>2
  <2> QED BY <1>1, <2>1, <2>2
<1> HIDE DEF d
<1> QED BY <1>5, <1>7, <1>9, <1>10, <1>11, <1>12 DEF D, d, m, n

\* The line of a directory begins where the planner ends.
LEMMA DirLine ==
    ASSUME GeoInv, Laid, Topped, NEW d \in Dirs
    PROVE  LET len == RoundUp(DirSlots(d), blkSz)
               line == Clusters(Offset(out) - area, len)
           IN  /\ Offset(out) - area \in Nat /\ IsLine(Offset(out) - area, len, line)
               /\ len \in Nat \ {0} /\ len % blkSz = 0 /\ Filled(d) \in Nat \ {0} /\ len = Filled(d) * blkSz
               /\ line.first \in Int /\ Seeds <= line.first /\ line.last = line.first + Filled(d) - 1
               /\ Place(line.first) = Offset(out) /\ Place(line.first + Filled(d)) = Offset(out) + len
<1> DEFINE len == RoundUp(DirSlots(d), blkSz)
           end == Offset(out)
           at == end - area
           line == Clusters(at, len)
           n == Filled(d)
           p == line.first
           q == line.last
<1>1. blkSz \in Nat \ {0} /\ area \in Nat /\ area % blkSz = 0 /\ end \in Nat /\ end % blkSz = 0 /\ area <= end
  BY TreeOf DEF Topped
<1>2. len \in Nat \ {0} /\ len % blkSz = 0 /\ n \in Nat \ {0} /\ len = n * blkSz
  BY <1>1, FilledIs
<1> HIDE DEF len, n, end
<1>3. at \in Nat
  BY <1>1
<1>4. at % blkSz = 0
  <2>1. end \in Int /\ area \in Int
    BY <1>1
  <2> QED BY <1>1, <2>1, SumOfMultiples
<1>5. at = end - area
  OBVIOUS
<1> HIDE DEF at
<1>6. IsLine(at, len, line)
  BY <1>1, <1>2, <1>3, <1>4, ClustersAre
<1>7. p \in Int /\ q \in Int /\ Seeds <= p /\ p <= q
  BY <1>1, <1>2, <1>3, <1>6, LineBounds
<1>8. /\ p * blkSz = at + 2 * blkSz
      /\ q * blkSz < at + 2 * blkSz + n * blkSz
      /\ at + 2 * blkSz + n * blkSz <= (q + 1) * blkSz
  BY <1>2, <1>6 DEF IsLine, Seeds
<1> HIDE DEF p, q
<1>9. q = p + n - 1
  <2>1. (p + n) * blkSz = at + 2 * blkSz + n * blkSz
    BY <1>1, <1>2, <1>3, <1>7, <1>8
  <2>2. q * blkSz < (p + n) * blkSz /\ (p + n) * blkSz <= (q + 1) * blkSz
    BY <1>8, <2>1
  <2>3. q < p + n
    <3>1. p + n \in Int
      BY <1>2, <1>7
    <3> QED BY <1>1, <1>7, <2>2, <3>1, TimesOrdered
  <2>4. ~(q + 1 < p + n)
    <3> SUFFICES ASSUME q + 1 < p + n PROVE FALSE
      OBVIOUS
    <3> DEFINE e == p + n - (q + 1)
    <3>1. e \in Nat \ {0} /\ e * blkSz > 0 /\ (p + n) * blkSz = (q + 1) * blkSz + e * blkSz
      <4>1. e \in Nat \ {0} /\ p + n = q + 1 + e
        BY <1>2, <1>7
      <4> HIDE DEF e
      <4>2. e * blkSz > 0
        BY <1>1, <4>1
      <4>3. (p + n) * blkSz = (q + 1) * blkSz + e * blkSz
        BY <1>1, <1>7, <4>1
      <4> QED BY <4>1, <4>2, <4>3
    <3> DEFINE u == (p + n) * blkSz
               v == (q + 1) * blkSz
               w == e * blkSz
    <3>2. u \in Int /\ v \in Int /\ w \in Int /\ w > 0 /\ u = v + w /\ u <= v
      BY <1>1, <1>2, <1>7, <2>2, <3>1
    <3> HIDE DEF u, v, w
    <3> QED BY <3>2
  <2> QED BY <1>2, <1>7, <2>3, <2>4
<1>10. Place(p) = end
  <2> DEFINE r == p - Seeds
  <2>1. r \in Int /\ p = r + 2
    BY <1>7 DEF Seeds
  <2>2. Place(p) = area + r * blkSz
    BY DEF Place
  <2> HIDE DEF r
  <2>3. r * blkSz = at
    BY <1>1, <1>3, <1>8, <2>1
  <2> QED BY <1>1, <1>5, <2>2, <2>3
<1>11. Place(p + n) = end + len
  <2>1. p \in Int /\ n \in Int /\ area \in Int
    BY <1>1, <1>2, <1>7
  <2>2. Place(p + n) = Place(p) + n * blkSz
    BY <1>1, <2>1, PlacesOrdered
  <2> QED BY <1>2, <1>10, <2>2
<1> HIDE DEF line
<1> QED BY <1>2, <1>3, <1>5, <1>6, <1>7, <1>9, <1>10, <1>11 DEF at, end, len, line, n, p, q

\* What is chained or written lies before what comes next.
LEMMA JointsBelow ==
    ASSUME Chainable, GeoInv, FatInv, stage = "planned", free = <<>>,
           NEW len \in Nat, NEW line, IsLine(Offset(out) - area, len, line), NEW j \in Joints
    PROVE  /\ Offset(out) - area \in Nat /\ Place(line.first) = Offset(out)
           /\ line.first \in Int /\ Seeds <= line.first /\ j.last < line.first
<1> DEFINE end == Offset(out)
           at == end - area
           p == line.first
<1>1. Laid /\ Settled /\ Stacked /\ Topped /\ Shape /\ Ordering /\ chained \subseteq Files
      /\ \A e \in DOMAIN dirLayout : Place(dirLayout[e] + Filled(e)) <= Offset(out)
  BY DEF FatInv, Laid, Settled, Heaping, Shape
<1>2. /\ blkSz \in Nat \ {0} /\ area \in Nat /\ end \in Nat /\ area <= end
      /\ \A id \in DOMAIN cols : \A k \in DOMAIN cols[id] : Behind(id, k, Offset(out))
  BY <1>1, TreeOf DEF Topped
<1>3. IsLine(at, len, line)
  OBVIOUS
<1> HIDE DEF end
<1>4. at \in Nat /\ area + at = end
  BY <1>2
<1>5. at = end - area
  OBVIOUS
<1> HIDE DEF at
<1>6. p \in Int /\ Seeds <= p
  BY <1>2, <1>3, <1>4, LineBounds
<1>7. p * blkSz = at + 2 * blkSz
  BY <1>3 DEF IsLine, Seeds
<1> HIDE DEF p
<1>8. Place(p) = end
  <2> DEFINE r == p - Seeds
  <2>1. r \in Int /\ p = r + 2
    BY <1>6 DEF Seeds
  <2>2. Place(p) = area + r * blkSz
    BY DEF Place
  <2> HIDE DEF r
  <2>3. r * blkSz = at
    BY <1>2, <1>4, <1>7, <2>1
  <2> QED BY <1>2, <1>4, <2>2, <2>3
<1>9. CASE \E f \in Files : j \in FileJoints(f)
  <2>1. \A id \in DOMAIN cols : \A k \in DOMAIN cols[id] : Behind(id, k, area + at)
    BY <1>2, <1>4 DEF end
  <2>2. j.last < line.first
    BY <1>1, <1>3, <1>4, <1>9, <2>1, FileJointsBelow
  <2> QED BY <1>4, <1>5, <1>6, <1>8, <2>2 DEF end, p
<1>10. CASE \E e \in DOMAIN dirLayout : j = DirJoint(e)
  <2>1. PICK e \in DOMAIN dirLayout : j = DirJoint(e)
    BY <1>10
  <2> DEFINE c == dirLayout[e]
             k == Filled(e)
  <2>2. e \in Dirs
    <3>1. \A i \in Len(PathTable) - Cardinality(DOMAIN dirLayout) + 1 .. Len(PathTable) :
              i \in 1 .. Len(PathTable)
      <4>1. Cardinality(DOMAIN dirLayout) \in Nat /\ Cardinality(DOMAIN dirLayout) <= Len(PathTable)
        BY <1>1, FS_CardinalityType DEF Ordering
      <4> QED BY <4>1, PathTableIs
    <3> QED BY <1>1, <3>1, PathTableIs DEF Ordering
  <2>3. c \in Int /\ k \in Nat \ {0} /\ j.last = c + k - 1
    BY <1>1, <1>2, <2>1, <2>2, FilledIs DEF Ordering, DirJoint, Joint
  <2>4. Place(c + k) <= Place(p)
    BY <1>1, <1>8 DEF end
  <2> HIDE DEF c, k
  <2>5. c + k <= p
    <3>1. c + k \in Int /\ p \in Int /\ area \in Int
      BY <1>2, <1>6, <2>3
    <3> QED BY <1>2, <2>4, <3>1, PlacesOrdered
  <2>6. j.last < p
    BY <1>6, <2>3, <2>5
  <2> QED BY <1>4, <1>5, <1>6, <1>8, <2>6 DEF end, p
<1>11. (\E f \in Files : j \in FileJoints(f)) \/ \E e \in DOMAIN dirLayout : j = DirJoint(e)
  BY <1>1 DEF Joints
<1> QED BY <1>9, <1>10, <1>11

\* The iteration of the loop that writes a directory.
WritesDir(d, line) ==
    /\ stage = "planned" /\ stage' = "planned" /\ chained = Files /\ DOMAIN dirLayout # Dirs
    /\ d = PathTable[Len(PathTable) - Cardinality(DOMAIN dirLayout)]
    /\ line = Clusters(Offset(out) - area, RoundUp(DirSlots(d), blkSz)) /\ line.last < blkCount
    /\ links' = Chain(links, <<line>>)
    /\ out' = Append(out, Extent(d, 0, RoundUp(DirSlots(d), blkSz)))
    /\ dirLayout' = Put(dirLayout, d, line.first)
    /\ start' = [e \in DOMAIN start \cup Entries[d] \cup ({d} \cap {Root}) |->
                    CASE e \in Entries[d] -> FirstCluster(e)
                      [] e = d            -> line.first
                      [] OTHER            -> start[e]]
    /\ up' = Dots(d, line.first)

DirKept ==
    /\ layout' = layout /\ cols' = cols /\ plan' = plan /\ area' = area /\ blkSz' = blkSz /\ mapped' = mapped
    /\ sparse' = sparse /\ blkCount' = blkCount /\ chained' = chained /\ free' = free

LEMMA WriteDirIs ==
    ASSUME WriteDir
    PROVE  /\ DirKept /\ stage = "planned"
           /\ \/ \E d, line : WritesDir(d, line)
              \/ stage' = "aborted" /\ dirLayout' = dirLayout
<1> DEFINE d == PathTable[Len(PathTable) - Cardinality(DOMAIN dirLayout)]
           line == Clusters(Offset(out) - area, RoundUp(DirSlots(d), blkSz))
<1>1. DirKept /\ stage = "planned" /\ chained = Files /\ DOMAIN dirLayout # Dirs
  BY DEF WriteDir, config, DirKept
<1>2. IF Reserved(<<line>>)
      THEN /\ links' = Chain(links, <<line>>)
           /\ out' = Append(out, Extent(d, 0, RoundUp(DirSlots(d), blkSz)))
           /\ dirLayout' = Put(dirLayout, d, line.first)
           /\ start' = [e \in DOMAIN start \cup Entries[d] \cup ({d} \cap {Root}) |->
                           CASE e \in Entries[d] -> FirstCluster(e)
                             [] e = d            -> line.first
                             [] OTHER            -> start[e]]
           /\ up' = Dots(d, line.first)
           /\ stage' = stage
      ELSE stage' = "aborted" /\ dirLayout' = dirLayout
  BY DEF WriteDir
<1>3. Reserved(<<line>>) => line.last < blkCount
  BY DEF Reserved
<1>4. line = Clusters(Offset(out) - area, RoundUp(DirSlots(d), blkSz))
  OBVIOUS
<1>5. d = PathTable[Len(PathTable) - Cardinality(DOMAIN dirLayout)]
  OBVIOUS
<1> HIDE DEF d, line
<1>6. CASE Reserved(<<line>>)
  <2>1. WritesDir(d, line)
    BY <1>1, <1>2, <1>3, <1>4, <1>5, <1>6 DEF WritesDir
  <2> QED BY <1>1, <2>1
<1> QED BY <1>1, <1>2, <1>6

LEMMA WritesDirFatInv ==
    ASSUME Chainable, GeoInv, FatInv, DirKept, NEW d, NEW line, WritesDir(d, line)
    PROVE  FatInv'
<1> DEFINE m == Cardinality(DOMAIN dirLayout)
           len == RoundUp(DirSlots(d), blkSz)
           at == Offset(out) - area
           x == Extent(d, 0, len)
           first == line.first
           n == Filled(d)
<1>1. /\ stage = "planned" /\ stage' = "planned" /\ Laid /\ Settled /\ Laid' /\ Settled'
      /\ chained = Files /\ DOMAIN dirLayout # Dirs
      /\ layout' = layout /\ cols' = cols /\ plan' = plan
      /\ area' = area /\ blkSz' = blkSz /\ mapped' = mapped
      /\ sparse' = sparse /\ blkCount' = blkCount /\ chained' = chained /\ free' = free
  BY DEF WritesDir, DirKept, Laid, Settled
<1>2. /\ Shape /\ Stacked /\ Threading /\ Heaping /\ Ordering /\ Listing /\ Noting /\ Freeing
  BY <1>1 DEF FatInv
<1>3. free = <<>>
  BY <1>1, <1>2 DEF Shape
<1>4. /\ links' = Chain(links, <<line>>)
      /\ out' = Append(out, x)
      /\ dirLayout' = Put(dirLayout, d, first)
      /\ start' = [e \in DOMAIN start \cup Entries[d] \cup ({d} \cap {Root}) |->
                      CASE e \in Entries[d] -> FirstCluster(e)
                        [] e = d            -> first
                        [] OTHER            -> start[e]]
      /\ up' = Dots(d, first)
  BY DEF WritesDir
<1>5. Topped /\ \A e \in DOMAIN dirLayout : Place(dirLayout[e] + Filled(e)) <= Offset(out)
  BY <1>1, <1>2, <1>3 DEF Heaping
<1>6. /\ d \in Dirs /\ d \notin DOMAIN dirLayout /\ DOMAIN dirLayout \subseteq Dirs /\ Root \notin DOMAIN dirLayout
      /\ Entries[d] \cap Dirs \subseteq DOMAIN dirLayout
      /\ \A e \in DOMAIN dirLayout : Entries[e] \cap Dirs \subseteq DOMAIN dirLayout
      /\ IsFiniteSet(DOMAIN dirLayout \cup {d}) /\ Cardinality(DOMAIN dirLayout \cup {d}) = m + 1
      /\ m + 1 <= Len(PathTable)
      /\ DOMAIN dirLayout \cup {d} =
            {PathTable[i] : i \in Len(PathTable) - (m + 1) + 1 .. Len(PathTable)}
  BY <1>1, <1>2, NextDir DEF WritesDir
<1>7. /\ at \in Nat /\ IsLine(at, len, line)
      /\ len \in Nat \ {0} /\ len % blkSz = 0 /\ n \in Nat \ {0} /\ len = n * blkSz
      /\ first \in Int /\ Seeds <= first /\ line.last = first + n - 1
      /\ Place(first) = Offset(out) /\ Place(first + n) = Offset(out) + len
  <2>1. line = Clusters(at, len) /\ d \in Dirs
    BY <1>6 DEF WritesDir
  <2> QED BY <1>1, <1>5, <2>1, DirLine
<1>8. x.med = d /\ x.len = len /\ x \in Extents
  BY <1>6, <1>7, FatAssumption, GeometryAssumption DEF Extent, Extents
<1>9. /\ \A f : FileJoints(f)' = FileJoints(f) /\ Lines(f)' = Lines(f)
      /\ \A e : Filled(e)' = Filled(e)
      /\ \A c : Place(c)' = Place(c)
  BY <1>1, SameLines
<1>10. blkSz \in Nat \ {0} /\ area \in Nat /\ area \in Int
  BY <1>1, TreeOf
<1>11. /\ Offset(out) \in Nat /\ Offset(out) % blkSz = 0 /\ area <= Offset(out) /\ out \in Seq(Extents)
       /\ \A id \in DOMAIN cols : \A k \in DOMAIN cols[id] : Behind(id, k, Offset(out))
  BY <1>5 DEF Topped
<1>12. line.last < blkCount /\ blkCount \in Int /\ sparse \in BOOLEAN
  BY <1>2 DEF Shape, WritesDir
<1>13. at = Offset(out) - area
  OBVIOUS
<1> HIDE DEF m, len, at, first, n, x
<1>14. /\ DOMAIN dirLayout' = DOMAIN dirLayout \cup {d} /\ dirLayout'[d] = first
       /\ \A e \in DOMAIN dirLayout : dirLayout'[e] = dirLayout[e]
  BY <1>4, <1>6 DEF Put
<1>15. Shape'
  BY <1>1, <1>2, <1>3 DEF Shape
<1>16. Stacked'
  BY <1>1, <1>2 DEF Stacked, Behind, Laid
<1>17. Joints' = Joints \cup {DirJoint(d)'} /\ DirJoint(d)' = Joint(first, line.last, EndMark)
       /\ \A e \in DOMAIN dirLayout : DirJoint(e)' = DirJoint(e)
  <2>1. DirJoint(d)' = Joint(first, line.last, EndMark)
    BY <1>7, <1>9, <1>14 DEF DirJoint, n
  <2>2. \A e \in DOMAIN dirLayout : DirJoint(e)' = DirJoint(e)
    BY <1>9, <1>14 DEF DirJoint
  <2>3. Joints' = (UNION {FileJoints(f) : f \in chained}) \cup {DirJoint(e)' : e \in DOMAIN dirLayout \cup {d}}
    BY <1>1, <1>9, <1>14 DEF Joints
  <2> QED BY <2>1, <2>2, <2>3 DEF Joints
<1>18. \A e \in Files \cup DOMAIN dirLayout : FirstCluster(e)' = FirstCluster(e)
  <2>1. \A y : WithinArea(y)' = WithinArea(y)
    BY <1>1 DEF WithinArea, WithinDisk
  <2>2. \A e \in DOMAIN dirLayout : FirstCluster(e)' = FirstCluster(e)
    BY <1>6, <1>14 DEF FirstCluster
  <2>3. \A e \in Files : FirstCluster(e)' = FirstCluster(e)
    BY <1>1, <2>1, FatAssumption DEF FirstCluster, Clusters
  <2> QED BY <2>2, <2>3
<1>19. ASSUME NEW j \in Joints PROVE IsJoint(j) /\ j.last < first
  <2>1. IsJoint(j)
    BY <1>2 DEF Threading
  <2>2. len \in Nat /\ IsLine(Offset(out) - area, len, line)
    BY <1>7 DEF at
  <2> QED BY <1>1, <1>3, <2>1, <2>2, JointsBelow DEF first
<1>20. Threads(Chain(links, <<line>>), Joints \cup {DirJoint(d)'}) /\ IsJoint(DirJoint(d)')
  <2> DEFINE lines == <<line>>
             l == Joint(first, line.last, EndMark)
  <2>1. Len(lines) = 1 /\ lines[1] = line
    OBVIOUS
  <2> HIDE DEF lines
  <2>2. JointAt(lines, 1) = l /\ NextOf(lines, 1) = EndMark
    BY <2>1 DEF JointAt, NextOf, first
  <2>3. JointsFrom(lines, 1) = {l}
    BY <2>1, <2>2 DEF JointsFrom
  <2>4. l.first = first /\ l.last = line.last /\ l.next = EndMark
    BY DEF Joint
  <2> HIDE DEF l
  <2>5. IsJoint(l)
    BY <1>7, <2>4 DEF IsJoint
  <2>6. Fitting(Joints \cup {l}, l)
    <3> SUFFICES ASSUME NEW j \in Joints \cup {l}
                 PROVE  /\ IsJoint(j)
                        /\ j = l \/ j.last < l.first \/ l.last < j.first
                        /\ l.last < l.first /\ j.last = l.last => j.next = EndMark
      BY DEF Fitting
    <3>1. l.first <= l.last /\ l.first \in Int /\ l.last \in Int
      BY <1>7, <2>4
    <3> QED BY <1>19, <2>4, <2>5, <3>1
  <2>7. \A i \in 1 .. Len(lines) :
           /\ IsJoint(JointAt(lines, i)) /\ lines[i].last < blkCount
           /\ Fitting(Joints \cup JointsFrom(lines, 1), JointAt(lines, i))
    BY <1>12, <2>1, <2>2, <2>3, <2>5, <2>6
  <2>8. Threads(Chain(links, lines), Joints \cup JointsFrom(lines, 1))
    <3>1. Threads(links, Joints) /\ Len(lines) \in Nat
      BY <1>2, <2>1 DEF Threading
    <3> QED BY <1>12, <2>7, <3>1, ChainThreads
  <2>9. DirJoint(d)' = l
    BY <1>17 DEF l
  <2> QED BY <2>3, <2>5, <2>8, <2>9 DEF lines
<1>21. Threading'
  <2>1. Threads(links', Joints')
    BY <1>4, <1>17, <1>20
  <2>2. Threads(links, Joints)' <=> Threads(links', Joints')
    BY <1>1 DEF Threads, Linked, LinkIn, AmendedBelow, AmendedAround, Strays
  <2>3. \A j \in Joints' : IsJoint(j) /\ j.last < blkCount
    <3>1. DirJoint(d)'.last = line.last
      BY <1>17 DEF Joint
    <3> QED BY <1>2, <1>12, <1>17, <1>20, <3>1 DEF Threading
  <2> QED BY <1>1, <2>1, <2>2, <2>3 DEF Threading
<1>22. out' \in Seq(Extents) /\ Offset(out') = Offset(out) + len /\ Len(out') = Len(out) + 1
  BY <1>4, <1>8, <1>11, OffsetAppend
<1>23. Topped'
  <2> DEFINE end == Offset(out)
  <2>1. end \in Nat /\ end % blkSz = 0 /\ len \in Nat /\ len % blkSz = 0 /\ area <= end
    BY <1>7, <1>11
  <2>2. Offset(out') = end + len
    BY <1>22
  <2> HIDE DEF end
  <2>3. (end + len) % blkSz = 0
    <3>1. end \in Int /\ len \in Int
      BY <2>1
    <3> QED BY <1>10, <2>1, <3>1, SumOfMultiples
  <2>4. end + len \in Nat /\ area <= end + len
    BY <1>10, <2>1
  <2>5. ASSUME NEW id \in DOMAIN cols, NEW k \in DOMAIN cols[id]
        PROVE  Behind(id, k, end + len)
    <3> DEFINE y == cols[id][k]
               z == plan[id][k]
    <3>1. y + (z - k) <= end
      BY <1>11 DEF Behind, end
    <3>2. y \in Nat /\ z \in Nat /\ k \in Nat
      <4>1. GeoTyped /\ Covers(Geo, FileExtents) /\ Columns
        BY <1>1 DEF GeoInv, Writing
      <4>2. id \in DOMAIN plan /\ k \in DOMAIN plan[id] /\ y \in Nat
        BY <4>1 DEF Columns, Column
      <4> QED BY <4>1, <4>2, RangeIs
    <3> HIDE DEF y, z
    <3>3. y + (z - k) <= end + len
      BY <2>1, <3>1, <3>2
    <3> QED BY <3>3 DEF Behind, y, z
  <2>6. \A id \in DOMAIN cols : \A k \in DOMAIN cols[id] : Behind(id, k, Offset(out))'
    BY <1>1, <2>2, <2>5 DEF Behind
  <2> QED BY <1>1, <1>22, <2>1, <2>2, <2>3, <2>4, <2>6 DEF Topped
<1>24. Heaping'
  <2>1. ASSUME NEW e \in DOMAIN dirLayout'
        PROVE  Place(dirLayout'[e] + Filled(e)) <= Offset(out')
    <3>1. CASE e = d
      <4>1. Place(first + n) = Offset(out')
        BY <1>7, <1>22
      <4>2. Offset(out') \in Nat
        BY <1>23 DEF Topped
      <4> QED BY <1>14, <3>1, <4>1, <4>2 DEF n
    <3>2. CASE e # d
      <4> DEFINE p == Place(dirLayout[e] + Filled(e))
                 end == Offset(out)
                 ends == Offset(out')
      <4>1. e \in DOMAIN dirLayout /\ dirLayout'[e] = dirLayout[e]
        BY <1>14, <3>2
      <4>2. p \in Int /\ p <= end /\ end \in Nat /\ ends = end + len /\ len \in Nat
        <5>1. dirLayout[e] + Filled(e) \in Int
          <6>1. dirLayout[e] \in Int /\ Filled(e) \in Nat \ {0}
            BY <1>2, <1>6, <1>10, <4>1, FilledIs DEF Ordering
          <6> QED BY <6>1
        <5> QED BY <1>5, <1>7, <1>10, <1>11, <1>22, <4>1, <5>1, PlacesOrdered
      <4>3. Place(dirLayout'[e] + Filled(e)) = p
        BY <4>1
      <4> HIDE DEF p, end
      <4>4. p <= ends
        BY <4>2
      <4> QED BY <4>3, <4>4
    <3> QED BY <3>1, <3>2
  <2>2. ASSUME NEW b \in Nat, b % blkSz = 0, area <= b, b < Offset(out')
        PROVE  Covered(b)' \/ InDir(b)'
    <3>1. CASE b < Offset(out)
      <4>1. Covered(b) \/ InDir(b)
        BY <1>1, <1>2, <1>3, <2>2, <3>1 DEF Heaping
      <4>2. Covered(b) => Covered(b)'
        BY <1>1 DEF Covered
      <4>3. InDir(b) => InDir(b)'
        BY <1>9, <1>14 DEF InDir
      <4> QED BY <4>1, <4>2, <4>3
    <3>2. CASE ~(b < Offset(out))
      <4>1. Offset(out) <= b
        BY <1>11, <3>2
      <4>2. Place(first) <= b /\ b < Place(first + n)
        BY <1>7, <1>22, <2>2, <4>1
      <4> QED BY <1>9, <1>14, <4>2 DEF InDir, n
    <3> QED BY <3>1, <3>2
  <2>3. (\A e \in DOMAIN dirLayout : Place(dirLayout[e] + Filled(e)) <= Offset(out))'
    BY <1>9, <2>1
  <2>4. (\A b \in Nat : b % blkSz = 0 /\ area <= b /\ b < Offset(out) => Covered(b) \/ InDir(b))'
    BY <1>1, <2>2
  <2> QED BY <1>23, <2>3, <2>4 DEF Heaping
<1>25. Ordering'
  <2>1. DOMAIN dirLayout' = DOMAIN dirLayout \cup {d} /\ Cardinality(DOMAIN dirLayout') = m + 1
    BY <1>6, <1>14
  <2>2. \A e \in DOMAIN dirLayout' : dirLayout'[e] \in Int /\ Seeds <= dirLayout'[e]
    BY <1>2, <1>7, <1>14 DEF Ordering
  <2> QED BY <1>6, <2>1, <2>2 DEF Ordering
<1>26. Listing'
  <2>1. IsList(out') /\ DOMAIN out' = 1 .. Len(out) + 1 /\ DOMAIN out = 1 .. Len(out) /\ Len(out) \in Nat
    BY <1>11, <1>22 DEF IsList
  <2>2. \A i \in 1 .. Len(out) : out'[i] = out[i]
    BY <1>4, <1>8, <1>11
  <2>3. out'[Len(out) + 1] = x
    BY <1>4, <1>8, <1>11
  <2>4. \A i \in 1 .. Len(out) + 1 : Offset(SubSeq(out', 1, i - 1)) = Offset(SubSeq(out, 1, i - 1))
    BY <1>4, <1>8, <1>11, FrontOf
  <2>5. Offset(SubSeq(out, 1, (Len(out) + 1) - 1)) = Offset(out)
    <3>1. SubSeq(out, 1, (Len(out) + 1) - 1) = out
      BY <1>11
    <3> QED BY <3>1
  <2>6. ASSUME NEW i \in DOMAIN out', out'[i].med \in Dirs
        PROVE  /\ out'[i].med \in DOMAIN dirLayout'
               /\ Offset(SubSeq(out', 1, i - 1)) = Place(dirLayout'[out'[i].med])
    <3>1. CASE i = Len(out) + 1
      <4>1. out'[i] = x /\ Offset(SubSeq(out', 1, i - 1)) = Offset(out)
        BY <2>1, <2>3, <2>4, <2>5, <3>1
      <4> QED BY <1>7, <1>8, <1>14, <4>1
    <3>2. CASE i # Len(out) + 1
      <4>1. i \in 1 .. Len(out)
        BY <2>1, <3>2
      <4>2. out'[i] = out[i] /\ Offset(SubSeq(out', 1, i - 1)) = Offset(SubSeq(out, 1, i - 1))
        BY <2>1, <2>2, <2>4, <4>1
      <4>3. /\ out[i].med \in DOMAIN dirLayout
            /\ Offset(SubSeq(out, 1, i - 1)) = Place(dirLayout[out[i].med])
        BY <1>2, <2>1, <2>6, <4>1, <4>2 DEF Listing
      <4> QED BY <1>14, <4>2, <4>3
    <3> QED BY <3>1, <3>2
  <2>7. ASSUME NEW e \in DOMAIN dirLayout' PROVE \E i \in DOMAIN out' : out'[i].med = e
    <3>1. CASE e = d
      <4>1. Len(out) + 1 \in DOMAIN out' /\ out'[Len(out) + 1].med = e
        BY <1>8, <2>1, <2>3, <3>1
      <4> QED BY <4>1
    <3>2. CASE e # d
      <4>1. PICK i \in DOMAIN out : out[i].med = e
        BY <1>2, <1>14, <3>2 DEF Listing
      <4>2. i \in DOMAIN out' /\ out'[i].med = e
        BY <2>1, <2>2, <4>1
      <4> QED BY <4>2
    <3> QED BY <3>1, <3>2
  <2> QED BY <1>9, <2>1, <2>6, <2>7 DEF Listing
<1>27. Noting'
  <2>1. /\ DOMAIN start' = DOMAIN start \cup Entries[d] \cup ({d} \cap {Root})
        /\ \A e \in Entries[d] : start'[e] = FirstCluster(e)
        /\ \A e \in DOMAIN start : e \notin Entries[d] /\ e # d => start'[e] = start[e]
        /\ d = Root /\ Root \notin Entries[d] => start'[Root] = first
    <3> DEFINE D == DOMAIN start \cup Entries[d] \cup ({d} \cap {Root})
    <3>1. start' = [e \in D |-> CASE e \in Entries[d] -> FirstCluster(e)
                                [] e = d            -> first
                                [] OTHER            -> start[e]]
      BY <1>4
    <3>2. /\ \A e \in Entries[d] : e \in D
          /\ \A e \in DOMAIN start : e \in D
          /\ d = Root => Root \in D
      OBVIOUS
    <3>3. DOMAIN start' = D
      BY <3>1
    <3> HIDE DEF D
    <3>4. \A e \in Entries[d] : start'[e] = FirstCluster(e)
      <4>1. \A e \in Entries[d] : e # d
        BY <1>6
      <4> QED BY <3>1, <3>2, <4>1
    <3>5. \A e \in DOMAIN start : e \notin Entries[d] /\ e # d => start'[e] = start[e]
      BY <3>1, <3>2
    <3>6. d = Root /\ Root \notin Entries[d] => start'[Root] = first
      BY <3>1, <3>2
    <3> QED BY <3>3, <3>4, <3>5, <3>6 DEF D
  <2>2. /\ DOMAIN up' = (DOMAIN up \cup {d}) \ {Root}
        /\ \A e \in DOMAIN up' : up'[e] = IF e = d \/ e \in Entries[d] THEN first ELSE up[e]
    BY <1>4 DEF Dots
  <2>3. /\ \A c \in DOMAIN dirLayout :
              /\ \A e \in Entries[c] : e \in DOMAIN start /\ start[e] = FirstCluster(e)
              /\ \A e \in Entries[c] \cap Dirs : up[e] = dirLayout[c]
        /\ DOMAIN up = DOMAIN dirLayout \ {Root}
    BY <1>2 DEF Noting
  <2>4. \A c \in Dirs : Entries[c] \subseteq Files \cup Dirs /\ Root \notin Entries[c]
    BY FatAssumption, RootIsNoEntry
  <2>5. \A c, e \in Dirs : Entries[c] \cap Entries[e] \cap Dirs # {} => c = e
    BY FatAssumption
  <2>6. ASSUME NEW c \in DOMAIN dirLayout', NEW e \in Entries[c]
        PROVE  /\ e \in DOMAIN start' /\ start'[e] = FirstCluster(e)'
               /\ e \in Dirs => up'[e] = dirLayout'[c]
    <3>1. c = d \/ c \in DOMAIN dirLayout
      BY <1>14
    <3>2. e \in Files \cup DOMAIN dirLayout /\ e # Root
      BY <1>6, <2>4, <3>1
    <3>3. FirstCluster(e)' = FirstCluster(e) /\ e # d
      BY <1>6, <1>18, <3>2, FatAssumption
    <3>4. CASE c = d
      <4>1. e \in DOMAIN start' /\ start'[e] = FirstCluster(e)
        BY <2>1, <3>4
      <4>2. e \in Dirs => e \in DOMAIN up'
        BY <1>6, <2>2, <2>3, <3>2, FatAssumption
      <4>3. e \in Dirs => up'[e] = first
        BY <2>2, <3>4, <4>2
      <4> QED BY <1>14, <3>3, <3>4, <4>1, <4>3
    <3>5. CASE c # d
      <4>1. c \in DOMAIN dirLayout /\ e \in DOMAIN start /\ start[e] = FirstCluster(e)
        BY <2>3, <3>1, <3>5
      <4>2. e \in DOMAIN start' /\ start'[e] = FirstCluster(e)
        BY <2>1, <3>3, <4>1
      <4>3. ASSUME e \in Dirs PROVE up'[e] = dirLayout[c]
        <5>1. e \notin Entries[d]
          BY <1>6, <2>5, <3>5, <4>1, <4>3
        <5>2. e \in DOMAIN up'
          BY <2>2, <2>3, <3>2, <4>3, FatAssumption
        <5> QED BY <2>2, <2>3, <3>3, <4>1, <4>3, <5>1, <5>2
      <4> QED BY <1>14, <3>3, <4>1, <4>2, <4>3
    <3> QED BY <3>4, <3>5
  <2>7. Root \in DOMAIN dirLayout' => start'[Root] = dirLayout'[Root]
    BY <1>6, <1>14, <2>1, <2>4
  <2>8. DOMAIN up' = DOMAIN dirLayout' \ {Root}
    BY <1>14, <2>2, <2>3
  <2> QED BY <2>6, <2>7, <2>8 DEF Noting
<1>28. Freeing'
  BY <1>1, <1>3 DEF Freeing
<1> QED BY <1>15, <1>16, <1>21, <1>24, <1>25, <1>26, <1>27, <1>28 DEF FatInv

LEMMA WriteDirFatInv == ASSUME Chainable, GeoInv, FatInv, WriteDir PROVE FatInv'
<1>1. DirKept /\ stage = "planned"
  BY WriteDirIs
<1>2. CASE \E d, line : WritesDir(d, line)
  <2>1. PICK d, line : WritesDir(d, line)
    BY <1>2
  <2> QED BY <1>1, <2>1, WritesDirFatInv
<1>3. CASE stage' = "aborted" /\ dirLayout' = dirLayout
  <2>1. ~Laid'
    BY <1>3 DEF Laid
  <2>2. Shape'
    BY <1>1, <1>3 DEF FatInv, Shape, DirKept, Settled
  <2>3. Stacked'
    BY <2>1 DEF Stacked
  <2> QED BY <2>1, <2>2, <2>3 DEF FatInv
<1> QED BY <1>2, <1>3, WriteDirIs
-----------------------------------------------------------------------------
(***************************************************************************)
(* What remains is claimed.                                                *)
(***************************************************************************)
LEMMA ClaimFatInv == ASSUME Chainable, GeoInv, FatInv, Claim PROVE FatInv'
<1> DEFINE at == Offset(out) - area
           room == blkCount * blkSz - at
           x == Extent(Zero, 0, room)
           c0 == at \div blkSz + Seeds
<1>1. /\ stage = "planned" /\ DOMAIN dirLayout = Dirs /\ free = <<>> /\ Laid /\ Settled
      /\ layout' = layout /\ cols' = cols /\ plan' = plan /\ area' = area /\ blkSz' = blkSz /\ mapped' = mapped
      /\ sparse' = sparse /\ blkCount' = blkCount /\ chained' = chained /\ links' = links
      /\ dirLayout' = dirLayout /\ start' = start /\ up' = up
  BY DEF Claim, config, Laid, Settled
<1>2. /\ Shape /\ Stacked /\ Threading /\ Heaping /\ Ordering /\ Listing /\ Noting
  BY <1>1 DEF FatInv
<1>3. IF room >= 0
      THEN /\ out' = Appended(out, x)
           /\ free' = IF sparse THEN <<c0, room \div blkSz>> ELSE <<blkCount - 1, 0>>
           /\ stage' = stage
      ELSE stage' = "aborted" /\ free' = free
  BY DEF Claim
<1>4. CASE ~(room >= 0)
  <2>1. ~Laid' /\ stage' = "aborted" /\ free' = free
    BY <1>3, <1>4 DEF Laid
  <2>2. Shape'
    BY <1>1, <1>2, <2>1 DEF Shape
  <2>3. Stacked'
    BY <2>1 DEF Stacked
  <2> QED BY <2>1, <2>2, <2>3 DEF FatInv
<1>5. CASE room >= 0
  <2>1. /\ out' = Appended(out, x)
        /\ free' = IF sparse THEN <<c0, room \div blkSz>> ELSE <<blkCount - 1, 0>>
        /\ stage' = "planned" /\ Laid' /\ Settled'
    BY <1>1, <1>3, <1>5 DEF Laid, Settled
  <2>2. free' # <<>>
    <3>1. CASE sparse
      BY <2>1, <3>1
    <3>2. CASE ~sparse
      BY <2>1, <3>2
    <3> QED BY <3>1, <3>2
  <2>3. sparse => free'[1] = c0
    BY <2>1
  <2>4. /\ Topped /\ out \in Seq(Extents) /\ Offset(out) \in Nat /\ Offset(out) % blkSz = 0 /\ area <= Offset(out)
        /\ blkSz \in Nat \ {0} /\ area \in Nat /\ area % blkSz = 0 /\ blkCount \in Nat
    BY <1>1, <1>2, TreeOf DEF Heaping, Topped, Shape
  <2>5. at \in Nat /\ at % blkSz = 0
    <3> DEFINE end == Offset(out)
    <3>1. end \in Int /\ area \in Int /\ end % blkSz = 0 /\ area % blkSz = 0 /\ end \in Nat /\ area <= end
      BY <2>4
    <3> HIDE DEF end
    <3>2. end - area \in Nat
      BY <2>4, <3>1
    <3>3. (end - area) % blkSz = 0
      BY <2>4, <3>1, SumOfMultiples
    <3> QED BY <3>2, <3>3 DEF end
  <2>6. x \in Extents /\ x.med = Zero
    <3>1. room \in Nat
      <4> HIDE DEF at
      <4>1. room \in Int
        BY <2>4, <2>5
      <4> QED BY <1>5, <4>1
    <3> HIDE DEF room
    <3> QED BY <3>1, GeometryAssumption DEF Extent, Extents
  <2>7. /\ \A f : FileJoints(f)' = FileJoints(f)
        /\ \A e : Filled(e)' = Filled(e)
        /\ \A c : Place(c)' = Place(c)
    BY <1>1, SameLines
  <2>8. Joints' = Joints
    <3>1. \A e : DirJoint(e)' = DirJoint(e)
      BY <1>1, <2>7 DEF DirJoint
    <3> QED BY <1>1, <2>7, <3>1 DEF Joints
  <2>9. c0 \in Int /\ IsLine(at, 0, [first |-> c0, last |-> c0 - 1])
    <3> DEFINE q == at \div blkSz
    <3>1. at \in Int /\ blkSz \in Nat \ {0}
      BY <2>4, <2>5
    <3>2. q \in Int /\ at % blkSz \in 0 .. blkSz - 1 /\ at = blkSz * q + (at % blkSz)
      <4> HIDE DEF at
      <4> QED BY <3>1, Division DEF q
    <3>3. at = blkSz * q + 0
      BY <2>5, <3>2
    <3>4. c0 = q + 2
      BY DEF Seeds
    <3> HIDE DEF at, q, c0
    <3>5. c0 * blkSz = at + 2 * blkSz /\ (c0 - 1) * blkSz < at + 2 * blkSz + 0
          /\ at + 2 * blkSz + 0 <= (c0 - 1 + 1) * blkSz /\ c0 \in Int
      BY <3>1, <3>2, <3>3, <3>4
    <3> DEFINE l == [first |-> c0, last |-> c0 - 1]
    <3>6. l.first = c0 /\ l.last = c0 - 1
      OBVIOUS
    <3> HIDE DEF l
    <3>7. IsLine(at, 0, l)
      BY <3>5, <3>6 DEF IsLine, Seeds
    <3> QED BY <3>5, <3>7 DEF l
  <2>10. Shape'
    BY <1>1, <1>2, <2>1 DEF Shape
  <2>11. Stacked'
    BY <1>1, <1>2, <2>1 DEF Stacked, Behind, Laid
  <2>12. Threading'
    BY <1>1, <1>2, <2>8 DEF Threading, Threads, Linked, LinkIn, AmendedBelow, AmendedAround, Strays
  <2>13. Heaping'
    BY <2>2 DEF Heaping
  <2>14. Ordering'
    BY <1>1, <1>2 DEF Ordering
  <2>15. Noting'
    <3>1. \A y : WithinArea(y)' = WithinArea(y)
      BY <1>1 DEF WithinArea, WithinDisk
    <3>2. \A e : FirstCluster(e)' = FirstCluster(e)
      BY <1>1, <3>1 DEF FirstCluster, Clusters
    <3> QED BY <1>1, <1>2, <3>2 DEF Noting
  <2> HIDE DEF x, at, c0, room
  <2>16. Listing'
    <3>1. CASE out' = out
      BY <1>1, <1>2, <2>7, <3>1 DEF Listing, IsList
    <3>2. CASE out' = Append(out, x)
      <4>1. out' \in Seq(Extents) /\ DOMAIN out' = 1 .. Len(out) + 1 /\ DOMAIN out = 1 .. Len(out) /\ Len(out) \in Nat
        BY <2>4, <2>6, <3>2
      <4>2. \A i \in 1 .. Len(out) : out'[i] = out[i]
        BY <2>4, <2>6, <3>2
      <4>3. out'[Len(out) + 1] = x
        BY <2>4, <2>6, <3>2
      <4>4. \A i \in 1 .. Len(out) + 1 : Offset(SubSeq(out', 1, i - 1)) = Offset(SubSeq(out, 1, i - 1))
        BY <2>4, <2>6, <3>2, FrontOf
      <4>5. ASSUME NEW i \in DOMAIN out', out'[i].med \in Dirs
            PROVE  /\ out'[i].med \in DOMAIN dirLayout
                   /\ Offset(SubSeq(out', 1, i - 1)) = Place(dirLayout[out'[i].med])
        <5>1. i # Len(out) + 1
          BY <2>6, <4>3, <4>5, ZeroNoDir
        <5>2. i \in 1 .. Len(out)
          BY <4>1, <5>1
        <5>3. out'[i] = out[i] /\ Offset(SubSeq(out', 1, i - 1)) = Offset(SubSeq(out, 1, i - 1))
          BY <4>1, <4>2, <4>4, <5>2
        <5> QED BY <1>2, <4>1, <4>5, <5>2, <5>3 DEF Listing
      <4>6. ASSUME NEW e \in DOMAIN dirLayout PROVE \E i \in DOMAIN out' : out'[i].med = e
        <5>1. PICK i \in DOMAIN out : out[i].med = e
          BY <1>2 DEF Listing
        <5>2. i \in DOMAIN out' /\ out'[i].med = e
          BY <4>1, <4>2, <5>1
        <5> QED BY <5>2
      <4> QED BY <1>1, <2>7, <4>1, <4>5, <4>6 DEF Listing, IsList
    <3> QED BY <2>1, <3>1, <3>2 DEF Appended
  <2>17. Freeing'
    <3> DEFINE l == [first |-> c0, last |-> c0 - 1]
    <3>1. l.first = c0 /\ IsLine(Offset(out) - area, 0, l)
      BY <2>9 DEF at
    <3> HIDE DEF l
    <3>2. \A j \in Joints : j.last < c0
      <4> SUFFICES ASSUME NEW j \in Joints PROVE j.last < c0
        OBVIOUS
      <4>1. 0 \in Nat
        OBVIOUS
      <4> QED BY <1>1, <3>1, <4>1, JointsBelow
    <3>3. Place(c0) = Offset(out)
      <4> DEFINE r == c0 - Seeds
      <4>1. r = at \div blkSz
        <5> DEFINE q == at \div blkSz
        <5>1. q \in Int
          BY <2>4, <2>5, Division
        <5>2. c0 = q + 2
          BY DEF c0, Seeds
        <5> HIDE DEF q
        <5>3. r = q
          BY <5>1, <5>2 DEF Seeds
        <5> QED BY <5>3 DEF q
      <4>2. Place(c0) = area + r * blkSz
        BY DEF Place
      <4> HIDE DEF r
      <4>3. r \in Int /\ at % blkSz \in 0 .. blkSz - 1 /\ at = blkSz * r + (at % blkSz)
        <5>1. at \in Int
          BY <2>5
        <5> QED BY <2>4, <4>1, <5>1, Division
      <4>4. at = blkSz * r + 0
        BY <2>5, <4>3
      <4>5. area + at = Offset(out)
        <5> DEFINE end == Offset(out)
        <5>1. at = end - area /\ end \in Nat
          BY <2>4 DEF at
        <5> HIDE DEF end
        <5>2. area + at = end
          BY <2>4, <5>1
        <5> QED BY <5>2 DEF end
      <4>6. r * blkSz = at
        BY <2>4, <2>5, <4>3, <4>4
      <4> QED BY <4>2, <4>5, <4>6
    <3>4. ASSUME NEW c \in Int, Seeds <= c, c < c0 PROVE Covered(Place(c)) \/ InDir(Place(c))
      <4> DEFINE k == c - Seeds
                 u == k * blkSz
                 b == Place(c)
      <4>1. k \in Nat
        BY <3>4 DEF Seeds
      <4>2. b = area + u
        BY DEF Place
      <4>3. u \in Nat /\ u % blkSz = 0
        <5>1. k \in Int /\ u = blkSz * k
          <6> HIDE DEF k
          <6> QED BY <2>4, <4>1
        <5>2. (blkSz * k) % blkSz = 0
          <6> HIDE DEF k
          <6> QED BY <2>4, <5>1, MultipleIs
        <5>3. u \in Nat
          <6> HIDE DEF k
          <6> QED BY <2>4, <4>1
        <5> HIDE DEF u
        <5> QED BY <5>1, <5>2, <5>3
      <4> HIDE DEF k, u
      <4>4. (area + u) % blkSz = 0
        <5>1. area \in Int /\ u \in Int
          BY <2>4, <4>3
        <5> QED BY <2>4, <4>3, <5>1, SumOfMultiples
      <4>5. b < Place(c0)
        <5>1. area \in Int
          BY <2>4
        <5> QED BY <2>4, <2>9, <3>4, <5>1, PlacesOrdered
      <4> HIDE DEF b
      <4>6. b \in Nat /\ b % blkSz = 0 /\ area <= b /\ b < Offset(out)
        <5>1. b \in Nat /\ area <= b
          BY <2>4, <4>2, <4>3
        <5> QED BY <3>3, <4>2, <4>4, <4>5, <5>1
      <4>7. Covered(b) \/ InDir(b)
        BY <1>1, <1>2, <4>6 DEF Heaping
      <4> QED BY <4>7 DEF b
    <3>5. (\A b : Covered(b)' = Covered(b)) /\ (\A b : InDir(b)' = InDir(b))
      <4>1. \A b : Covered(b)' = Covered(b)
        BY <1>1 DEF Covered
      <4>2. \A b : InDir(b)' = InDir(b)
        BY <1>1, <2>7 DEF InDir, Place
      <4> QED BY <4>1, <4>2
    <3> QED BY <1>1, <2>3, <2>7, <2>8, <2>9, <3>2, <3>4, <3>5 DEF Freeing
  <2> QED BY <2>10, <2>11, <2>12, <2>13, <2>14, <2>15, <2>16, <2>17 DEF FatInv
<1> QED BY <1>4, <1>5

LEMMA FatAlways == ASSUME Chainable PROVE FatSpec => [](GeoInv /\ FatInv)
<1>1. FatSpec => []GeoInv
  BY FatGeoInv
<1>2. FatInit => FatInv
  BY InitFatInv
<1>3. ASSUME GeoInv, GeoInv', FatInv, [FatNext]_allVars PROVE FatInv'
  <2>1. OffDirs
    BY DEF Chainable
  <2>2. ASSUME Layout, UNCHANGED fatVars PROVE FatInv'
    <3>1. ASSUME NEW f \in Files, OnFileFd(f) PROVE FatInv'
      <4>1. stage = "crawl" /\ stage' = stage /\ mapped' = mapped
        BY <3>1 DEF OnFileFd, config
      <4>2. ~Laid'
        BY <4>1 DEF Laid
      <4> QED BY <1>3, <2>2, <4>1, <4>2, CrawlFatInv
    <3>2. CASE Adjust
      <4>1. stage = "crawl" /\ stage' \in {"adjusted", "aborted"} /\ mapped' = mapped
        BY <3>2 DEF Adjust, config
      <4>2. ~Laid'
        BY <4>1 DEF Laid
      <4> QED BY <1>3, <2>2, <4>1, <4>2, CrawlFatInv
    <3>3. CASE Optimize
      BY <1>3, <2>2, <3>3, OptimizeFatInv
    <3>4. CASE WriteRange
      BY <1>3, <2>1, <2>2, <3>4, WriteFatInv
    <3>5. CASE Planned
      BY <1>3, <2>2, <3>5, PlannedFatInv
    <3>6. CASE free # <<>> /\ (CommitMapped \/ CommitCopied)
      BY <1>3, <2>2, <3>6, CommitFatInv
    <3> QED BY <2>2, <3>1, <3>2, <3>3, <3>4, <3>5, <3>6 DEF Layout
  <2>3. CASE ReserveFat
    BY <1>3, <2>3, ReserveFatInv
  <2>4. ASSUME NEW f \in Files, ChainFile(f) PROVE FatInv'
    BY <1>3, <2>4, ChainFatInv
  <2>5. CASE WriteDir
    BY <1>3, <2>5, WriteDirFatInv
  <2>6. CASE Claim
    BY <1>3, <2>6, ClaimFatInv
  <2>7. CASE UNCHANGED allVars
    BY <1>3, <2>7, StutterFatInv
  <2> QED BY <1>3, <2>2, <2>3, <2>4, <2>5, <2>6, <2>7 DEF FatNext
<1> QED BY <1>1, <1>2, <1>3, PTL DEF FatSpec
-----------------------------------------------------------------------------
(***************************************************************************)
(* What a reader of the volume finds.                                      *)
(***************************************************************************)
LEMMA BurntIs ==
    ASSUME FatInv, stage = "burnt"
    PROVE  /\ Laid /\ Settled /\ chained = Files /\ DOMAIN dirLayout = Dirs
           /\ Shape /\ Stacked /\ Threading /\ Ordering /\ Listing /\ Noting /\ Freeing /\ free # <<>>
           /\ \A f \in Files : FileJoints(f) \subseteq Joints
           /\ \A d \in Dirs : DirJoint(d) \in Joints
           /\ \A j \in Joints : (\E f \in Files : j \in FileJoints(f)) \/ \E d \in Dirs : j = DirJoint(d)
<1>1. /\ Laid /\ Settled /\ Shape /\ Stacked /\ Threading /\ Ordering /\ Listing /\ Noting /\ Freeing
      /\ free # <<>>
  BY DEF FatInv, Laid, Settled, Shape
<1>2. DOMAIN dirLayout = Dirs
  BY <1>1 DEF Shape
<1>3. chained = Files
  BY <1>1, <1>2, PathTableIs DEF Shape
<1>4. Joints = (UNION {FileJoints(f) : f \in Files}) \cup {DirJoint(d) : d \in Dirs}
  BY <1>2, <1>3 DEF Joints
<1>5. /\ \A f \in Files : FileJoints(f) \subseteq Joints
      /\ \A d \in Dirs : DirJoint(d) \in Joints
      /\ \A j \in Joints : (\E f \in Files : j \in FileJoints(f)) \/ \E d \in Dirs : j = DirJoint(d)
  BY <1>4
<1> QED BY <1>1, <1>2, <1>3, <1>5

LEMMA EntryFound ==
    ASSUME FatInv, stage = "burnt", NEW e \in Files \cup Dirs
    PROVE  start[e] = FirstCluster(e)
<1>1. Noting /\ DOMAIN dirLayout = Dirs
  BY BurntIs
<1>2. CASE e = Root
  <2>1. Root \in Dirs
    BY PathTableIs
  <2> QED BY <1>1, <1>2, <2>1 DEF Noting, FirstCluster
<1>3. CASE e # Root
  <2>1. PICK d \in Dirs : e \in Entries[d]
    BY <1>3, FatAssumption
  <2> QED BY <1>1, <2>1 DEF Noting
<1> QED BY <1>2, <1>3

\* A reader goes on as long as there is no end.
LEMMA WalkGoesOn ==
    ASSUME NEW cluster, NEW m \in Nat, NEW k \in 0 .. m - 1, Walk(cluster, m)[k] # EndMark
    PROVE  Walk(cluster, m)[k+1] = Link(Walk(cluster, m)[k])
<1> DEFINE w == Walk(cluster, m)
<1>1. IsWalk(w, cluster, m)
  BY WalkIs
<1> HIDE DEF w
<1>2. w = [l \in 0 .. m |-> IF l = 0 THEN cluster ELSE IF w[l-1] = EndMark THEN EndMark ELSE Link(w[l-1])]
  BY <1>1 DEF IsWalk
<1>3. k + 1 \in 0 .. m /\ k + 1 # 0 /\ k + 1 - 1 = k
  OBVIOUS
<1>4. w[k+1] = IF w[k+1-1] = EndMark THEN EndMark ELSE Link(w[k+1-1])
  BY <1>2, <1>3
<1> QED BY <1>3, <1>4 DEF w

LEMMA DirWalked ==
    ASSUME Chainable, GeoInv, FatInv, stage = "burnt", NEW d \in Dirs
    PROVE  LET w == Walk(start[d], Filled(d)) IN
           /\ Filled(d) \in Nat \ {0} /\ start[d] = dirLayout[d] /\ dirLayout[d] \in Int /\ Seeds <= dirLayout[d]
           /\ w[Filled(d)] = EndMark /\ \A k \in 0 .. Filled(d) - 1 : w[k] = dirLayout[d] + k
<1> DEFINE p == dirLayout[d]
           n == Filled(d)
           line == [first |-> p, last |-> p + n - 1]
           lines == <<line>>
           at == [i \in 1 .. 2 |-> IF i = 1 THEN 0 ELSE n]
<1>1. /\ Laid /\ Threading /\ Ordering /\ DOMAIN dirLayout = Dirs /\ DirJoint(d) \in Joints
      /\ start[d] = FirstCluster(d) /\ blkSz \in Nat \ {0}
  BY BurntIs, EntryFound, TreeOf
<1>2. start[d] = p /\ p \in Int /\ Seeds <= p /\ n \in Nat \ {0}
  BY <1>1, FilledIs DEF FirstCluster, Ordering
<1>3. DirJoint(d) = Joint(p, p + n - 1, EndMark)
  BY DEF DirJoint
<1> HIDE DEF p, n
<1>4. Len(lines) = 1 /\ lines[1] = line /\ line.first = p /\ line.last = p + n - 1
  OBVIOUS
<1>5. at[1] = 0 /\ at[2] = n /\ at[1 + 1] = n
  OBVIOUS
<1> HIDE DEF lines, line, at
<1>6. JointsFrom(lines, 1) = {DirJoint(d)}
  BY <1>3, <1>4 DEF JointsFrom, JointAt, NextOf
<1>7. Linked(links, JointsFrom(lines, 1))
  BY <1>1, <1>6 DEF Threading, Threads, Linked
<1>8. IsCount(at, lines)
  <2>1. n = 0 + ((p + n - 1) - p + 1)
    BY <1>2
  <2> QED BY <1>4, <1>5, <2>1 DEF IsCount
<1>9. \A i \in 1 .. Len(lines) :
         /\ lines[i].first \in Int /\ lines[i].last \in Int
         /\ Seeds <= lines[i].first /\ lines[i].first <= lines[i].last
  BY <1>2, <1>4
<1> DEFINE w == Walk(lines[1].first, at[Len(lines) + 1])
<1>10. /\ w[at[Len(lines) + 1]] = EndMark
       /\ \A k \in 0 .. at[Len(lines) + 1] - 1 : Visits(w, at, lines, k) /\ VisitedBy(at, lines, k)
  <2>1. Len(lines) \in Nat \ {0}
    BY <1>4
  <2> QED BY <1>7, <1>8, <1>9, <2>1, ChainWalked
<1>11. w = Walk(start[d], n) /\ at[Len(lines) + 1] = n
  BY <1>2, <1>4, <1>5
<1> HIDE DEF w
<1>12. ASSUME NEW k \in 0 .. n - 1 PROVE w[k] = p + k
  <2>1. p + k \in line.first .. line.last /\ 0 + ((p + k) - p) = k
    BY <1>2, <1>4
  <2>2. Visits(w, at, lines, k)
    BY <1>10, <1>11
  <2> QED BY <1>4, <1>5, <2>1, <2>2 DEF Visits
<1> QED BY <1>2, <1>10, <1>11, <1>12 DEF p, n

LEMMA FatDirectoriesLinked == ASSUME Chainable, GeoInv, FatInv PROVE DirectoriesLinked
<1> SUFFICES ASSUME stage = "burnt", NEW d \in Dirs
             PROVE  LET w == Walk(start[d], Filled(d))
                        i == CHOOSE i \in DOMAIN out : out[i].med = d
                    IN  /\ w[Filled(d)] = EndMark
                        /\ \A k \in 0 .. Filled(d) - 1 :
                              Place(w[k]) = Offset(SubSeq(out, 1, i - 1)) + k * blkSz
                        /\ \A e \in Entries[d] \cap Dirs : up[e] = start[d]
  BY DEF DirectoriesLinked
<1> DEFINE w == Walk(start[d], Filled(d))
           i == CHOOSE i \in DOMAIN out : out[i].med = d
<1>1. /\ Laid /\ Listing /\ Noting /\ DOMAIN dirLayout = Dirs /\ blkSz \in Nat \ {0} /\ area \in Int
  BY BurntIs, TreeOf
<1>2. /\ Filled(d) \in Nat \ {0} /\ start[d] = dirLayout[d] /\ dirLayout[d] \in Int
      /\ w[Filled(d)] = EndMark /\ \A k \in 0 .. Filled(d) - 1 : w[k] = dirLayout[d] + k
  BY DirWalked
<1>3. i \in DOMAIN out /\ out[i].med = d
  BY <1>1 DEF Listing
<1>4. Offset(SubSeq(out, 1, i - 1)) = Place(dirLayout[d])
  BY <1>1, <1>3 DEF Listing
<1> HIDE DEF i, w
<1>5. ASSUME NEW k \in 0 .. Filled(d) - 1 PROVE Place(w[k]) = Offset(SubSeq(out, 1, i - 1)) + k * blkSz
  <2>1. k \in Int
    OBVIOUS
  <2>2. Place(dirLayout[d] + k) = Place(dirLayout[d]) + k * blkSz
    BY <1>1, <1>2, <2>1, PlacesOrdered
  <2> QED BY <1>2, <1>4, <2>2
<1>6. \A e \in Entries[d] \cap Dirs : up[e] = start[d]
  BY <1>1, <1>2 DEF Noting
<1> QED BY <1>2, <1>5, <1>6 DEF i, w

\* A directory is found from its parent, and leads back to it.
THEOREM DirectoriesLinkedAlways == ASSUME Chainable PROVE FatSpec => []DirectoriesLinked
<1>1. GeoInv /\ FatInv => DirectoriesLinked
  BY FatDirectoriesLinked
<1> QED BY <1>1, FatAlways, PTL
-----------------------------------------------------------------------------
\* The blocks that a number of bytes fills.
LEMMA Blocks ==
    ASSUME NEW b \in Nat \ {0}, NEW len \in Nat, NEW m \in Int, NEW n \in Int,
           (m - 1) * b < len, len <= m * b, (n - 1) * b < len, len <= n * b
    PROVE  m = n
<1> DEFINE p == (m - 1) * b
           q == m * b
           r == (n - 1) * b
           s == n * b
<1>1. p \in Int /\ q \in Int /\ r \in Int /\ s \in Int /\ p < s /\ r < q
  BY SMT
<1>2. m - 1 \in Int /\ n - 1 \in Int
  OBVIOUS
<1>3. m - 1 < n
  <2>1. (m - 1) * b < n * b
    BY <1>1
  <2> QED BY <1>2, <2>1, TimesOrdered
<1>4. n - 1 < m
  <2>1. (n - 1) * b < m * b
    BY <1>1
  <2> QED BY <1>2, <2>1, TimesOrdered
<1> QED BY <1>3, <1>4

LEMMA LineBlocks ==
    ASSUME blkSz \in Nat \ {0}, NEW off \in Nat, NEW len \in Nat, NEW l, IsLine(off, len, l)
    PROVE  LET n == l.last - l.first + 1 IN n \in Int /\ (n - 1) * blkSz < len /\ len <= n * blkSz
<1> DEFINE p == l.first
           q == l.last
           n == q - p + 1
<1>1. /\ p \in Int /\ q \in Int /\ p * blkSz = off + 2 * blkSz
      /\ q * blkSz < off + 2 * blkSz + len /\ off + 2 * blkSz + len <= (q + 1) * blkSz
  BY DEF IsLine, Seeds
<1> HIDE DEF p, q
<1>2. n \in Int /\ q = p + n - 1
  BY <1>1
<1> HIDE DEF n
<1>3. q * blkSz = p * blkSz + (n - 1) * blkSz /\ (q + 1) * blkSz = p * blkSz + n * blkSz
  BY <1>1, <1>2
<1> DEFINE u == p * blkSz
           v == (n - 1) * blkSz
           x == n * blkSz
           y == q * blkSz
           z == (q + 1) * blkSz
           t == off + 2 * blkSz
<1>4. /\ u \in Int /\ v \in Int /\ x \in Int /\ y \in Int /\ z \in Int /\ t \in Int
      /\ u = t /\ y < t + len /\ t + len <= z /\ y = u + v /\ z = u + x
  BY <1>1, <1>2, <1>3
<1> HIDE DEF u, v, x, y, z, t
<1>5. v < len /\ len <= x
  BY <1>4
<1> QED BY <1>2, <1>5 DEF n, p, q, v, x

\* The bytes before an extent, and those before the next one.
LEMMA BytesAre ==
    ASSUME GeoInv, Laid, NEW f \in Files
    PROVE  /\ BytesUpTo(f, 1) = 0 /\ FileSize(f) \in Nat
           /\ \A i \in 1 .. Len(layout[f]) :
                 BytesUpTo(f, i) \in Nat /\ BytesUpTo(f, i + 1) = BytesUpTo(f, i) + layout[f][i].len
           /\ BytesUpTo(f, Len(layout[f]) + 1) = FileSize(f)
<1> DEFINE s == layout[f]
           n == Len(s)
<1>1. s \in Seq(Extents) /\ n \in Nat /\ DOMAIN s = 1 .. n
  BY TreeOf
<1>2. BytesUpTo(f, 1) = Offset(SubSeq(s, 1, 0)) /\ FileSize(f) = Offset(s)
      /\ \A i : BytesUpTo(f, i) = Offset(SubSeq(s, 1, i - 1))
  BY DEF BytesUpTo, FileSize
<1> HIDE DEF s
<1>3. SubSeq(s, 1, 0) = <<>> /\ SubSeq(s, 1, (n + 1) - 1) = s
  BY <1>1
<1>4. BytesUpTo(f, 1) = 0 /\ FileSize(f) \in Nat /\ BytesUpTo(f, n + 1) = FileSize(f)
  <2>1. Offset(SubSeq(s, 1, (n + 1) - 1)) = Offset(s)
    BY <1>3
  <2> QED BY <1>1, <1>2, <1>3, <2>1, OffsetEmpty, OffsetNat
<1>5. ASSUME NEW i \in 1 .. n
      PROVE  BytesUpTo(f, i) \in Nat /\ BytesUpTo(f, i + 1) = BytesUpTo(f, i) + s[i].len
  <2> DEFINE t == SubSeq(s, 1, i - 1)
             u == SubSeq(s, 1, (i + 1) - 1)
  <2>1. t \in Seq(Extents) /\ s[i] \in Extents
    BY <1>1
  <2>2. u = Append(t, s[i])
    BY <1>1
  <2>3. BytesUpTo(f, i) = Offset(t) /\ BytesUpTo(f, i + 1) = Offset(u)
    BY <1>2
  <2> HIDE DEF t, u
  <2>4. Offset(t) \in Nat /\ Offset(Append(t, s[i])) = Offset(t) + s[i].len
    BY <2>1, OffsetNat, OffsetAppend
  <2> QED BY <2>2, <2>3, <2>4
<1> QED BY <1>4, <1>5 DEF s

\* A walk through a file: at its i-th line it has come by at[i] clusters.
Goes(f, at) ==
    LET lines == Lines(f)
        w == Walk(start[f], Filled(f))
    IN  /\ Filled(f) \in Nat /\ w[Filled(f)] = EndMark
        /\ \A i \in 1 .. Len(lines) : at[i] \in Nat /\ BytesUpTo(f, i) = at[i] * blkSz
        /\ \A k \in 0 .. Filled(f) - 1 : Visits(w, at, lines, k) /\ VisitedBy(at, lines, k)
        /\ \A i \in 1 .. Len(lines) : \A c \in lines[i].first .. lines[i].last :
              at[i] + (c - lines[i].first) \in 0 .. Filled(f) - 1

LEMMA FillsAre ==
    ASSUME Chainable, GeoInv, FatInv, stage = "burnt", NEW f \in Files, FileSize(f) > 0
    PROVE  \E at :
              /\ Len(layout[f]) \in Nat \ {0} /\ Len(Lines(f)) = Len(layout[f]) /\ IsCount(at, Lines(f))
              /\ at[Len(layout[f]) + 1] = Filled(f) /\ Filled(f) \in Nat
              /\ \A i \in 1 .. Len(layout[f]) :
                    /\ at[i] \in Nat /\ BytesUpTo(f, i) = at[i] * blkSz
                    /\ Lines(f)[i].first \in Int /\ Lines(f)[i].last \in Int
                    /\ Seeds <= Lines(f)[i].first /\ Lines(f)[i].first <= Lines(f)[i].last
<1> DEFINE s == layout[f]
           lines == Lines(f)
           m == Len(s)
           full == RoundUp(FileSize(f), blkSz)
           n == Filled(f)
           before(i) == BytesUpTo(f, i)
           at == [i \in 1 .. m + 1 |-> IF i = m + 1 THEN n ELSE before(i) \div blkSz]
           T == {i \in Nat : i + 1 <= m => before(i + 1) % blkSz = 0}
<1>1. /\ Laid /\ Settled /\ Stacked /\ NoneShared /\ stage \in {"planned", "burnt"}
      /\ blkSz \in Nat \ {0} /\ s = tree[f] /\ tree \in ExtentTrees \cup FileTrees /\ s \in Seq(Extents)
  BY BurntIs, TreeOf DEF Chainable
<1>2. /\ m \in Nat /\ DOMAIN s = 1 .. m /\ Len(lines) = m
      /\ \A i \in 1 .. m : /\ IsLine(WithinArea(s[i]), s[i].len, lines[i])
                           /\ WithinArea(s[i]) \in Nat /\ s[i].len \in Nat
  BY <1>1, LinesAre, TreeOf
<1>3. /\ before(1) = 0 /\ before(m + 1) = FileSize(f) /\ FileSize(f) \in Nat
      /\ \A i \in 1 .. m : before(i) \in Nat /\ before(i + 1) = before(i) + s[i].len
  BY <1>1, BytesAre
<1>4. m # 0
  <2> SUFFICES ASSUME m = 0 PROVE FALSE
    OBVIOUS
  <2>1. m + 1 = 1
    BY <1>2
  <2> QED BY <1>3, <2>1
<1>5. \A i \in 1 .. m : s[i].len > 0
  <2> SUFFICES ASSUME NEW i \in 1 .. m, ~(s[i].len > 0) PROVE FALSE
    OBVIOUS
  <2>1. m <= 1
    <3>1. EmptyAlone /\ i \in DOMAIN tree[f] /\ s = tree[f]
      BY <1>1, <1>2 DEF Chainable
    <3>2. tree[f][i].len > 0 \/ Len(tree[f]) <= 1
      BY <1>1, <3>1 DEF EmptyAlone
    <3> QED BY <3>1, <3>2
  <2>2. i = 1 /\ m = 1 /\ m + 1 = 1 + 1
    <3>1. m \in Nat
      BY <1>2
    <3> HIDE DEF m
    <3> QED BY <2>1, <3>1
  <2>3. s[1].len = 0 /\ before(1 + 1) = before(1) + s[1].len
    BY <1>2, <1>3, <2>2
  <2>4. before(1 + 1) = 0
    BY <1>3, <2>3
  <2> QED BY <1>3, <2>2, <2>4
<1>6. \A i \in 1 .. m : i < m => s[i].len % blkSz = 0
  <2>1. BlockAligned
    BY GeoBlockAligned
  <2> QED BY <1>1, <1>2, <2>1 DEF BlockAligned
<1>7. full \in Nat /\ FileSize(f) <= full /\ full < FileSize(f) + blkSz /\ n \in Nat /\ full = n * blkSz
  <2>1. n = full \div blkSz
    BY FatAssumption DEF Filled
  <2> HIDE DEF n
  <2> QED BY <1>1, <1>3, <2>1, RoundUpIs
<1> HIDE DEF s, lines, m, full, n, before
<1>8. 0 \in T
  <2>1. before(0 + 1) % blkSz = 0
    <3>1. blkSz * 0 = 0 /\ 0 \in Int
      BY <1>1
    <3>2. (blkSz * 0) % blkSz = 0
      BY <1>1, <3>1, MultipleIs
    <3> QED BY <1>3, <3>1, <3>2
  <2> QED BY <2>1
<1>9. ASSUME NEW i \in T PROVE i + 1 \in T
  <2> SUFFICES ASSUME i + 1 + 1 <= m PROVE before(i + 1 + 1) % blkSz = 0
    OBVIOUS
  <2>1. i \in Nat /\ i + 1 \in 1 .. m /\ i + 1 < m /\ before(i + 1) % blkSz = 0
    BY <1>2, <1>9
  <2> DEFINE x == before(i + 1)
             y == s[i + 1].len
  <2>2. x \in Int /\ y \in Int /\ before(i + 1 + 1) = x + y
    <3>1. PICK j \in 1 .. m : j = i + 1
      BY <2>1
    <3>2. before(j) \in Nat /\ s[j].len \in Nat /\ before(j + 1) = before(j) + s[j].len
      BY <1>2, <1>3
    <3> QED BY <3>1, <3>2
  <2>3. x % blkSz = 0
    BY <2>1
  <2>4. y % blkSz = 0
    BY <1>6, <2>1
  <2> HIDE DEF x, y
  <2> QED BY <1>1, <2>2, <2>3, <2>4, SumOfMultiples
<1>10. T = Nat
  <2>1. T \in SUBSET Nat
    OBVIOUS
  <2> HIDE DEF T
  <2> QED BY <2>1, <1>8, <1>9, NatSetInduction
<1>11. ASSUME NEW i \in 1 .. m
       PROVE  at[i] \in Nat /\ before(i) = at[i] * blkSz
  <2>1. i - 1 \in Nat /\ i - 1 + 1 = i /\ i # m + 1 /\ i \in 1 .. m + 1
    BY <1>2
  <2>2. before(i) % blkSz = 0
    <3>1. i - 1 \in T
      BY <1>10, <2>1
    <3>2. i - 1 + 1 <= m
      BY <1>2
    <3>3. before(i - 1 + 1) % blkSz = 0
      BY <3>1, <3>2
    <3> QED BY <2>1, <3>3
  <2> DEFINE x == before(i)
             q == x \div blkSz
  <2>3. x \in Nat /\ at[i] = q
    BY <1>3, <2>1
  <2> HIDE DEF at
  <2>4. q \in Int /\ x = blkSz * q + (x % blkSz)
    <3>1. x \in Int
      BY <2>3
    <3> HIDE DEF x
    <3> QED BY <1>1, <3>1, Division DEF q
  <2>5. x = blkSz * q + 0
    BY <2>2, <2>4
  <2> HIDE DEF x, q
  <2>6. x = q * blkSz
    BY <1>1, <2>4, <2>5
  <2>7. q \in Nat
    <3>1. 0 * blkSz < (q + 1) * blkSz
      BY <1>1, <2>3, <2>4, <2>6
    <3>2. 0 \in Int /\ q + 1 \in Int
      BY <2>4
    <3>3. 0 < q + 1
      BY <1>1, <3>1, <3>2, TimesOrdered
    <3> QED BY <2>4, <3>3
  <2> QED BY <2>3, <2>6, <2>7 DEF x
<1>12. at[m + 1] = n /\ m + 1 \in 1 .. m + 1
  BY <1>2
<1>13. at[1] = 0
  <2>1. 1 \in 1 .. m
    BY <1>2, <1>4
  <2> DEFINE a == at[1]
  <2>2. a \in Nat /\ 0 = a * blkSz
    BY <1>3, <1>11, <2>1
  <2> HIDE DEF a
  <2>3. a = 0
    BY <1>1, <2>2
  <2> QED BY <2>3 DEF a
<1> HIDE DEF at, T
<1>14. ASSUME NEW i \in 1 .. m
       PROVE  /\ at[i+1] = at[i] + (lines[i].last - lines[i].first + 1)
              /\ lines[i].first \in Int /\ lines[i].last \in Int
              /\ Seeds <= lines[i].first /\ lines[i].first <= lines[i].last
  <2> DEFINE len == s[i].len
             l == lines[i]
             k == l.last - l.first + 1
             a == at[i]
             e == at[i+1]
             off == WithinArea(s[i])
  <2>1. off \in Nat /\ len \in Nat /\ len > 0 /\ IsLine(off, len, l)
    BY <1>2, <1>5
  <2> HIDE DEF off, len, l
  <2>2. k \in Int /\ (k - 1) * blkSz < len /\ len <= k * blkSz
    BY <1>1, <2>1, LineBlocks
  <2>3. l.first \in Int /\ l.last \in Int /\ Seeds <= l.first /\ l.first <= l.last
    BY <1>1, <2>1, LineBounds
  <2> HIDE DEF k
  <2>4. a \in Nat /\ before(i) = a * blkSz /\ before(i + 1) = before(i) + len
    BY <1>3, <1>11 DEF len
  <2>5. e \in Int /\ before(i + 1) <= e * blkSz /\ e * blkSz < before(i + 1) + blkSz
    <3>1. CASE i = m
      <4>1. e = n /\ before(i + 1) = FileSize(f)
        BY <1>3, <1>12, <3>1
      <4> QED BY <1>7, <4>1
    <3>2. CASE i # m
      <4>1. i + 1 \in 1 .. m
        BY <1>2, <3>2
      <4>2. e \in Nat /\ before(i + 1) = e * blkSz
        BY <1>11, <4>1
      <4> DEFINE u == e * blkSz
      <4>3. u \in Int
        BY <1>1, <4>2
      <4> HIDE DEF u, e
      <4>4. u <= u /\ u < u + blkSz
        BY <1>1, <4>3
      <4> QED BY <4>2, <4>4 DEF u
    <3> QED BY <3>1, <3>2
  <2> HIDE DEF a, e
  <2>6. (e - a - 1) * blkSz < len /\ len <= (e - a) * blkSz
    <3> DEFINE u == a * blkSz
               v == e * blkSz
    <3>1. u \in Int /\ v \in Int /\ (e - a - 1) * blkSz = v - u - blkSz /\ (e - a) * blkSz = v - u
      BY <1>1, <2>4, <2>5
    <3>2. u + len <= v /\ v < u + len + blkSz
      BY <2>4, <2>5
    <3> HIDE DEF u, v
    <3>3. v - u - blkSz < len /\ len <= v - u
      BY <1>1, <2>1, <3>1, <3>2
    <3> QED BY <3>1, <3>3
  <2>7. e - a = k
    <3>1. e - a \in Int
      BY <2>4, <2>5
    <3> QED BY <1>1, <2>1, <2>2, <2>6, <3>1, Blocks
  <2>8. e = a + k
    BY <2>2, <2>4, <2>5, <2>7
  <2> QED BY <2>3, <2>8 DEF a, e, k, l
<1>15. IsCount(at, lines)
  BY <1>2, <1>11, <1>13, <1>14 DEF IsCount
<1> QED BY <1>2, <1>4, <1>7, <1>11, <1>12, <1>14, <1>15 DEF s, m, lines, n, before

\* No line is counted beyond the end.
LEMMA CountBounded ==
    ASSUME NEW lines, Len(lines) \in Nat, NEW at, IsCount(at, lines), at[Len(lines) + 1] \in Int,
           \A i \in 1 .. Len(lines) :
              lines[i].first \in Int /\ lines[i].last \in Int /\ lines[i].first <= lines[i].last
    PROVE  \A i \in 1 .. Len(lines) : at[i + 1] <= at[Len(lines) + 1]
<1> DEFINE m == Len(lines)
           T == {j \in Nat : j < m => at[m + 1 - j] \in Int /\ at[m + 1 - j] <= at[m + 1]}
<1>1. /\ m \in Nat /\ at[m + 1] \in Int
      /\ \A i \in 1 .. m : /\ at[i] \in Nat /\ at[i+1] = at[i] + (lines[i].last - lines[i].first + 1)
                           /\ lines[i].first \in Int /\ lines[i].last \in Int /\ lines[i].first <= lines[i].last
  BY DEF IsCount
<1> HIDE DEF m
<1>2. 0 \in T
  <2>1. m + 1 - 0 = m + 1
    BY <1>1
  <2> QED BY <1>1, <2>1
<1>3. ASSUME NEW j \in T PROVE j + 1 \in T
  <2> SUFFICES ASSUME j + 1 < m PROVE at[m + 1 - (j + 1)] \in Int /\ at[m + 1 - (j + 1)] <= at[m + 1]
    OBVIOUS
  <2>1. PICK i \in 1 .. m : i = m - j
    BY <1>1
  <2>2. m + 1 - (j + 1) = i /\ m + 1 - j = i + 1
    BY <1>1, <2>1
  <2>3. at[i + 1] \in Int /\ at[i + 1] <= at[m + 1]
    <3>1. j < m => at[m + 1 - j] \in Int /\ at[m + 1 - j] <= at[m + 1]
      BY <1>3
    <3>2. j < m
      BY <1>1
    <3> QED BY <2>2, <3>1, <3>2
  <2> DEFINE a == at[i]
             e == at[i + 1]
             p == lines[i].first
             q == lines[i].last
             z == at[m + 1]
  <2>4. a \in Nat /\ e = a + (q - p + 1) /\ p \in Int /\ q \in Int /\ p <= q /\ z \in Int /\ e <= z
    BY <1>1, <2>3
  <2> HIDE DEF a, e, p, q, z
  <2>5. a \in Int /\ a <= z
    BY <2>4
  <2> QED BY <2>2, <2>5 DEF a, z
<1>4. T = Nat
  <2>1. T \in SUBSET Nat
    OBVIOUS
  <2> HIDE DEF T
  <2> QED BY <2>1, <1>2, <1>3, NatSetInduction
<1>5. ASSUME NEW i \in 1 .. m PROVE at[i + 1] <= at[m + 1]
  <2>1. PICK j \in Nat : j = m - i
    BY <1>1
  <2>2. m + 1 - j = i + 1 /\ j < m
    BY <1>1, <2>1
  <2>3. j \in T
    BY <1>4
  <2> QED BY <2>2, <2>3
<1> QED BY <1>5 DEF m

LEMMA FileWalked ==
    ASSUME Chainable, GeoInv, FatInv, stage = "burnt", NEW f \in Files, FileSize(f) > 0
    PROVE  \E at : Goes(f, at)
<1> DEFINE s == layout[f]
           lines == Lines(f)
           m == Len(lines)
           n == Filled(f)
<1>1. PICK at : /\ Len(s) \in Nat \ {0} /\ m = Len(s) /\ IsCount(at, lines)
                /\ at[Len(s) + 1] = n /\ n \in Nat
                /\ \A i \in 1 .. Len(s) :
                      /\ at[i] \in Nat /\ BytesUpTo(f, i) = at[i] * blkSz
                      /\ lines[i].first \in Int /\ lines[i].last \in Int
                      /\ Seeds <= lines[i].first /\ lines[i].first <= lines[i].last
  BY FillsAre
<1>2. /\ Laid /\ Threading /\ FileJoints(f) \subseteq Joints /\ DOMAIN layout = Files /\ s \in Seq(Extents)
  BY BurntIs, TreeOf
<1>3. start[f] = lines[1].first
  <2>1. start[f] = FirstCluster(f)
    BY EntryFound
  <2>2. f \notin Dirs
    BY FatAssumption
  <2>3. s # <<>> /\ 1 \in DOMAIN s
    BY <1>1, <1>2
  <2>4. FirstCluster(f) = Clusters(WithinArea(s[1]), 0).first
    BY <2>2, <2>3 DEF FirstCluster
  <2>5. lines[1] = Clusters(WithinArea(s[1]), s[1].len)
    BY <2>3 DEF Lines
  <2> QED BY <2>1, <2>4, <2>5 DEF Clusters
<1>4. Linked(links, JointsFrom(lines, 1))
  BY <1>2 DEF Threading, Threads, Linked, FileJoints
<1> HIDE DEF lines, s, n, m
<1> DEFINE w == Walk(lines[1].first, at[Len(lines) + 1])
<1>5. m \in Nat \ {0} /\ at[m + 1] = n /\ n \in Nat
  BY <1>1
<1>6. \A i \in 1 .. m :
         /\ lines[i].first \in Int /\ lines[i].last \in Int
         /\ Seeds <= lines[i].first /\ lines[i].first <= lines[i].last
  BY <1>1
<1>7. /\ w[at[m + 1]] = EndMark
      /\ \A k \in 0 .. at[m + 1] - 1 : Visits(w, at, lines, k) /\ VisitedBy(at, lines, k)
  BY <1>1, <1>4, <1>5, <1>6, ChainWalked DEF m
<1>8. w = Walk(start[f], n)
  BY <1>3, <1>5 DEF m
<1>9. ASSUME NEW i \in 1 .. m, NEW c \in lines[i].first .. lines[i].last
      PROVE  at[i] + (c - lines[i].first) \in 0 .. n - 1
  <2>1. at[i + 1] <= at[m + 1]
    <3>1. at[m + 1] \in Int /\ m \in Nat /\ IsCount(at, lines)
      BY <1>1, <1>5
    <3>2. \A h \in 1 .. m :
             lines[h].first \in Int /\ lines[h].last \in Int /\ lines[h].first <= lines[h].last
      BY <1>6
    <3> QED BY <3>1, <3>2, CountBounded DEF m
  <2> DEFINE a == at[i]
             p == lines[i].first
             q == lines[i].last
  <2>2. a \in Nat /\ p \in Int /\ q \in Int /\ c \in p .. q /\ at[i + 1] = a + (q - p + 1)
    BY <1>1, <1>6 DEF IsCount, m
  <2>3. a + (q - p + 1) <= n /\ n \in Nat
    BY <1>5, <2>1, <2>2
  <2> HIDE DEF a, p, q
  <2>4. a + (c - p) \in 0 .. n - 1
    BY <2>2, <2>3
  <2> QED BY <2>4 DEF a, p
<1> HIDE DEF w
<1>10. Goes(f, at)
  BY <1>1, <1>5, <1>7, <1>8, <1>9 DEF Goes, lines, n, m
<1> QED BY <1>10
-----------------------------------------------------------------------------
\* The links that are followed are those of the joints.
LEMMA FollowedIs ==
    /\ \A e \in Files \cup Dirs : \A k \in 0 .. Filled(e) - 1 :
          <<Walk(start[e], Filled(e))[k], Walk(start[e], Filled(e))[k+1]>> \in Followed
    /\ \A p \in Followed : \E e \in Files \cup Dirs : \E k \in 0 .. Filled(e) - 1 :
          p = <<Walk(start[e], Filled(e))[k], Walk(start[e], Filled(e))[k+1]>>
<1> DEFINE w(e) == Walk(start[e], Filled(e))
           Steps(e) == {<<w(e)[k], w(e)[k+1]>> : k \in 0 .. Filled(e) - 1}
<1>1. Followed = UNION {Steps(e) : e \in Files \cup Dirs}
  BY DEF Followed
<1> HIDE DEF w
<1>2. ASSUME NEW e \in Files \cup Dirs, NEW k \in 0 .. Filled(e) - 1
      PROVE  <<w(e)[k], w(e)[k+1]>> \in Followed
  <2>1. <<w(e)[k], w(e)[k+1]>> \in Steps(e)
    OBVIOUS
  <2> QED BY <1>1, <2>1
<1>3. ASSUME NEW p \in Followed
      PROVE  \E e \in Files \cup Dirs : \E k \in 0 .. Filled(e) - 1 : p = <<w(e)[k], w(e)[k+1]>>
  <2>1. PICK e \in Files \cup Dirs : p \in Steps(e)
    BY <1>1
  <2> QED BY <2>1
<1> QED BY <1>2, <1>3 DEF w

\* A file with a line that has a cluster has a byte.
LEMMA LineFilled ==
    ASSUME Chainable, GeoInv, FatInv, stage = "burnt", NEW f \in Files, NEW i \in 1 .. Len(Lines(f)),
           Lines(f)[i].first <= Lines(f)[i].last
    PROVE  FileSize(f) > 0
<1> DEFINE l == Lines(f)[i]
           m == Len(layout[f])
<1>1. /\ Laid /\ Settled /\ Stacked /\ NoneShared /\ blkSz \in Nat \ {0}
      /\ layout[f] = tree[f] /\ tree \in ExtentTrees \cup FileTrees
  BY BurntIs, TreeOf DEF Chainable
<1>2. /\ m \in Nat /\ i \in 1 .. m /\ DOMAIN layout[f] = 1 .. m
      /\ \A h \in 1 .. m : layout[f][h].len \in Nat
      /\ IsLine(WithinArea(layout[f][i]), layout[f][i].len, l) /\ WithinArea(layout[f][i]) \in Nat
  BY <1>1, LinesAre, TreeOf
<1>3. layout[f][i].len > 0
  <2> DEFINE len == layout[f][i].len
  <2>1. len \in Nat
    BY <1>2
  <2>2. l.first \in Int /\ l.last \in Int /\ (len = 0 => l.last < l.first)
    <3>1. IsLine(WithinArea(layout[f][i]), len, l) /\ WithinArea(layout[f][i]) \in Nat
      BY <1>2
    <3> HIDE DEF l, len
    <3> QED BY <1>1, <2>1, <3>1, LineBounds
  <2>3. l.first <= l.last
    OBVIOUS
  <2> HIDE DEF l, len
  <2>4. len > 0
    BY <2>1, <2>2, <2>3
  <2> QED BY <2>4 DEF len
<1>4. m <= 1 \/ \A h \in 1 .. m : layout[f][h].len > 0
  BY <1>1, <1>2 DEF Chainable, EmptyAlone
<1>5. /\ BytesUpTo(f, m + 1) = FileSize(f) /\ FileSize(f) \in Nat
      /\ \A h \in 1 .. m : BytesUpTo(f, h) \in Nat /\ BytesUpTo(f, h + 1) = BytesUpTo(f, h) + layout[f][h].len
  BY <1>1, BytesAre
<1> HIDE DEF m, l
<1>6. m \in 1 .. m
  BY <1>2
<1>7. layout[f][m].len > 0
  <2>1. CASE m <= 1
    <3>1. m = i
      BY <1>2, <2>1
    <3> QED BY <1>3, <3>1
  <2>2. CASE \A h \in 1 .. m : layout[f][h].len > 0
    BY <1>6, <2>2
  <2> QED BY <1>4, <2>1, <2>2
<1> DEFINE x == BytesUpTo(f, m)
           y == layout[f][m].len
           z == FileSize(f)
<1>8. x \in Nat /\ y \in Nat /\ z = x + y /\ y > 0
  BY <1>2, <1>5, <1>6, <1>7
<1> HIDE DEF x, y, z
<1>9. z > 0
  BY <1>8
<1> QED BY <1>9 DEF z

LEMMA JointFollowed ==
    ASSUME Chainable, GeoInv, FatInv, stage = "burnt", NEW j \in Joints, NEW c \in j.first .. j.last
    PROVE  <<c, Link(c)>> \in Followed
<1>2. j.first \in Int /\ Seeds <= j.first /\ c \in Int /\ c # EndMark
  <2>1. IsJoint(j)
    BY BurntIs DEF Threading
  <2>2. j.first \in Int /\ j.last \in Int /\ Seeds <= j.first
    BY <2>1 DEF IsJoint
  <2>3. c \in Int /\ j.first <= c
    BY <2>2
  <2> QED BY <2>2, <2>3 DEF Seeds, EndMark
<1>3. ASSUME NEW e \in Files \cup Dirs, NEW k \in 0 .. Filled(e) - 1, Filled(e) \in Nat,
             Walk(start[e], Filled(e))[k] = c
      PROVE  <<c, Link(c)>> \in Followed
  <2>1. Walk(start[e], Filled(e))[k+1] = Link(c)
    BY <1>2, <1>3, WalkGoesOn
  <2> QED BY <1>3, <2>1, FollowedIs
<1>4. CASE \E d \in Dirs : j = DirJoint(d)
  <2>1. PICK d \in Dirs : j = DirJoint(d)
    BY <1>4
  <2> DEFINE n == Filled(d)
             p == dirLayout[d]
             w == Walk(start[d], n)
  <2>2. n \in Nat \ {0} /\ p \in Int /\ \A k \in 0 .. n - 1 : w[k] = p + k
    BY DirWalked
  <2>3. j.first = p /\ j.last = p + n - 1
    BY <2>1 DEF DirJoint, Joint
  <2> HIDE DEF n, p, w
  <2> DEFINE k == c - p
  <2>4. k \in 0 .. n - 1 /\ p + k = c
    BY <2>2, <2>3
  <2> HIDE DEF k
  <2>5. w[k] = c
    BY <2>2, <2>4
  <2> QED BY <1>3, <2>2, <2>4, <2>5 DEF w, n
<1>5. CASE \E f \in Files : j \in FileJoints(f)
  <2>1. PICK f \in Files : j \in FileJoints(f)
    BY <1>5
  <2>2. PICK i \in 1 .. Len(Lines(f)) : j = JointAt(Lines(f), i)
    BY <2>1 DEF FileJoints, JointsFrom
  <2> DEFINE l == Lines(f)[i]
             n == Filled(f)
             w == Walk(start[f], n)
  <2>3. j.first = l.first /\ j.last = l.last
    BY <2>2 DEF JointAt, Joint
  <2>4. FileSize(f) > 0
    <3>1. j.last \in Int /\ j.first <= j.last
      <4>1. IsJoint(j)
        BY BurntIs DEF Threading
      <4>2. j.first \in Int /\ j.last \in Int
        BY <4>1 DEF IsJoint
      <4> QED BY <4>2
    <3> QED BY <2>3, <3>1, LineFilled
  <2>5. PICK at : Goes(f, at)
    BY <2>4, FileWalked
  <2> DEFINE k == at[i] + (c - l.first)
  <2>6. n \in Nat /\ k \in 0 .. n - 1
    BY <2>3, <2>5 DEF Goes
  <2>7. Visits(w, at, Lines(f), k)
    BY <2>5, <2>6 DEF Goes
  <2>8. w[k] = c
    BY <2>3, <2>7 DEF Visits
  <2> HIDE DEF k
  <2> QED BY <1>3, <2>6, <2>8
<1>6. (\E f \in Files : j \in FileJoints(f)) \/ \E d \in Dirs : j = DirJoint(d)
  BY BurntIs
<1> QED BY <1>4, <1>5, <1>6

\* A file without a byte has no cluster.
LEMMA EmptyFillsNone ==
    ASSUME GeoInv, FatInv, stage = "burnt", NEW f \in Files, NEW k \in 0 .. Filled(f) - 1
    PROVE  FileSize(f) > 0
<1> SUFFICES ASSUME ~(FileSize(f) > 0) PROVE FALSE
  OBVIOUS
<1> DEFINE q == Filled(f)
           full == RoundUp(FileSize(f), blkSz)
<1>1. Laid /\ blkSz \in Nat \ {0} /\ FileSize(f) \in Nat
  BY BurntIs, TreeOf, BytesAre
<1>2. f \notin Dirs
  BY FatAssumption
<1>3. q = full \div blkSz
  BY <1>2 DEF Filled
<1>4. full \in Nat /\ full < FileSize(f) + blkSz /\ q \in Nat /\ full = q * blkSz
  BY <1>1, <1>3, RoundUpIs
<1>5. FileSize(f) = 0
  BY <1>1
<1>6. q > 0
  <2>1. q \in Nat
    BY <1>4
  <2> HIDE DEF q
  <2> QED BY <2>1 DEF q
<1> HIDE DEF q, full
<1>7. q * blkSz < 1 * blkSz /\ q \in Int /\ 1 \in Int
  BY <1>1, <1>4, <1>5
<1>8. q < 1
  BY <1>1, <1>7, TimesOrdered
<1> QED BY <1>4, <1>6, <1>8

LEMMA UsedByJoint ==
    ASSUME Chainable, GeoInv, FatInv, stage = "burnt", NEW u \in InUse
    PROVE  u \in Int /\ Seeds <= u /\ \E j \in Joints : u \in j.first .. j.last
<1>1. PICK p \in Followed : u = p[1]
  BY DEF InUse
<1>2. PICK e \in Files \cup Dirs : \E k \in 0 .. Filled(e) - 1 :
         p = <<Walk(start[e], Filled(e))[k], Walk(start[e], Filled(e))[k+1]>>
  BY FollowedIs
<1>3. PICK k \in 0 .. Filled(e) - 1 :
         p = <<Walk(start[e], Filled(e))[k], Walk(start[e], Filled(e))[k+1]>>
  BY <1>2
<1>4. u = Walk(start[e], Filled(e))[k]
  BY <1>1, <1>3
<1>5. \A j \in Joints : IsJoint(j)
  BY BurntIs DEF Threading
<1>6. ASSUME NEW j \in Joints, u \in j.first .. j.last
      PROVE  u \in Int /\ Seeds <= u
  <2>1. j.first \in Int /\ j.last \in Int /\ Seeds <= j.first
    BY <1>5 DEF IsJoint
  <2> QED BY <1>6, <2>1 DEF Seeds
<1>7. \E j \in Joints : u \in j.first .. j.last
  <2>1. CASE e \in Dirs
    <3>1. /\ Filled(e) \in Nat \ {0} /\ dirLayout[e] \in Int
          /\ Walk(start[e], Filled(e))[k] = dirLayout[e] + k
      BY <2>1, DirWalked
    <3>2. DirJoint(e) \in Joints
      BY <2>1, BurntIs
    <3>3. DirJoint(e).first = dirLayout[e] /\ DirJoint(e).last = dirLayout[e] + Filled(e) - 1
      BY DEF DirJoint, Joint
    <3> DEFINE n == Filled(e)
               q == dirLayout[e]
    <3>4. n \in Nat \ {0} /\ q \in Int /\ k \in 0 .. n - 1 /\ u = q + k
      BY <1>4, <3>1
    <3> HIDE DEF n, q
    <3>5. u \in q .. q + n - 1
      BY <3>4
    <3> QED BY <3>2, <3>3, <3>5 DEF n, q
  <2>2. CASE e \in Files
    <3>1. FileSize(e) > 0
      BY <2>2, EmptyFillsNone
    <3>2. PICK at : Goes(e, at)
      BY <2>2, <3>1, FileWalked
    <3>3. /\ Visits(Walk(start[e], Filled(e)), at, Lines(e), k)
          /\ VisitedBy(at, Lines(e), k)
      BY <3>2 DEF Goes
    <3>4. PICK i \in 1 .. Len(Lines(e)) : \E c \in Lines(e)[i].first .. Lines(e)[i].last :
             at[i] + (c - Lines(e)[i].first) = k
      BY <3>3 DEF VisitedBy
    <3>5. u \in Lines(e)[i].first .. Lines(e)[i].last
      BY <1>4, <3>3, <3>4 DEF Visits
    <3>6. JointAt(Lines(e), i) \in FileJoints(e)
      BY <3>4 DEF FileJoints, JointsFrom
    <3>7. JointAt(Lines(e), i) \in Joints
      BY <2>2, <3>6, BurntIs
    <3>8. JointAt(Lines(e), i).first = Lines(e)[i].first /\ JointAt(Lines(e), i).last = Lines(e)[i].last
      BY DEF JointAt, Joint
    <3> QED BY <3>5, <3>7, <3>8
  <2> QED BY <2>1, <2>2
<1> QED BY <1>6, <1>7

LEMMA FatNoCrossLinks == ASSUME Chainable, GeoInv, FatInv PROVE NoCrossLinks
<1> SUFFICES ASSUME stage = "burnt", NEW c \in Volume, Link(c) \in InUse
             PROVE  <<c, Link(c)>> \in Followed
  BY DEF NoCrossLinks
<1> DEFINE u == Link(c)
<1>1. PICK j \in Joints : u \in j.first .. j.last
  BY UsedByJoint
<1>2. u \in Int /\ Seeds <= u
  BY UsedByJoint
<1>3. /\ \A i \in Joints : IsJoint(i)
      /\ Strays(links, Joints) /\ AmendedAround(links, Joints) /\ Shape
  BY BurntIs DEF Threading, Threads
<1>4. c \in Int
  BY DEF Volume, Seeds
<1>5. u # EndMark /\ u # Unused
  BY <1>2 DEF Seeds, EndMark, Unused
<1>6. CASE c \in DOMAIN links
  <2>1. u = links[c]
    BY <1>6 DEF Link
  <2>2. PICK i \in Joints : c \in i.first .. i.last
    BY <1>3, <1>5, <1>6, <2>1 DEF Strays
  <2> QED BY <2>2, JointFollowed
<1>7. CASE c \notin DOMAIN links
  <2>1. ~sparse /\ u = c + 1
    BY <1>5, <1>7 DEF Link
  <2>2. j.first \in Int /\ j.last \in Int /\ Seeds <= j.first
    BY <1>3 DEF IsJoint
  <2>3. CASE j.first <= c
    <3>1. c \in j.first .. j.last
      BY <1>1, <1>4, <2>1, <2>2, <2>3
    <3> QED BY <3>1, JointFollowed
  <2>4. CASE ~(j.first <= c)
    <3>1. c = j.first - 1
      BY <1>1, <1>4, <2>1, <2>2, <2>4
    <3>2. Seeds < j.first
      BY <2>2, <3>1, <1>4 DEF Volume, Seeds
    <3> QED BY <1>3, <1>7, <2>1, <3>1, <3>2 DEF AmendedAround
  <2> QED BY <2>3, <2>4
<1> QED BY <1>6, <1>7

\* No cluster of a file or directory is reached from anywhere else.
THEOREM NoCrossLinksAlways == ASSUME Chainable PROVE FatSpec => []NoCrossLinks
<1>1. GeoInv /\ FatInv => NoCrossLinks
  BY FatNoCrossLinks
<1> QED BY <1>1, FatAlways, PTL
-----------------------------------------------------------------------------
\* The block and the place in it of a byte behind whole blocks.
LEMMA BehindBlocks ==
    ASSUME NEW k \in Nat \ {0}, NEW a \in Nat, NEW b \in Nat
    PROVE  /\ (a * k + b) \div k = a + (b \div k) /\ (a * k + b) % k = b % k
           /\ b \div k \in Nat /\ b % k \in 0 .. k - 1 /\ b = (b \div k) * k + (b % k)
<1> DEFINE n == a * k + b
           q == n \div k
           r == n % k
           p == b \div k
           s == b % k
<1>1. n \in Int /\ b \in Int /\ a * k \in Int
  OBVIOUS
<1>2. n = a * k + b
  OBVIOUS
<1> HIDE DEF n
<1>3. q \in Int /\ r \in 0 .. k - 1 /\ n = k * q + r
  BY <1>1, Division
<1>4. p \in Int /\ s \in 0 .. k - 1 /\ b = k * p + s
  BY <1>1, Division
<1> HIDE DEF q, r, p, s
<1>5. k * q + r = k * (a + p) + s
  BY <1>2, <1>3, <1>4
<1>6. q < a + p + 1
  <2>1. q * k < (a + p + 1) * k
    BY <1>3, <1>4, <1>5
  <2>2. q \in Int /\ a + p + 1 \in Int
    BY <1>3, <1>4
  <2> QED BY <2>1, <2>2, TimesOrdered
<1>7. a + p < q + 1
  <2>1. (a + p) * k < (q + 1) * k
    BY <1>3, <1>4, <1>5
  <2>2. a + p \in Int /\ q + 1 \in Int
    BY <1>3, <1>4
  <2> QED BY <2>1, <2>2, TimesOrdered
<1>8. q = a + p
  BY <1>3, <1>4, <1>6, <1>7
<1>9. r = s
  BY <1>3, <1>4, <1>5, <1>8
<1>10. p \in Nat
  <2>1. 0 * k < (p + 1) * k
    BY <1>4
  <2>2. 0 \in Int /\ p + 1 \in Int
    BY <1>4
  <2>3. 0 < p + 1
    BY <2>1, <2>2, TimesOrdered
  <2> QED BY <1>4, <2>3
<1>11. b = p * k + s
  BY <1>4
<1> QED BY <1>4, <1>8, <1>9, <1>10, <1>11 DEF n, q, r, p, s

\* The cluster of a byte of an extent, and the byte in the cluster.
IsInLine(off, l, b) ==
    /\ b \div blkSz \in Nat /\ l.first \in Int /\ l.first + (b \div blkSz) \in l.first .. l.last
    /\ Place(l.first + (b \div blkSz)) + (b % blkSz) = area + off + b

LEMMA ByteInLine ==
    ASSUME blkSz \in Nat \ {0}, area \in Nat, NEW off \in Nat, NEW len \in Nat, NEW l, IsLine(off, len, l),
           NEW b \in 0 .. len - 1
    PROVE  IsInLine(off, l, b)
<1> DEFINE p == b \div blkSz
           s == b % blkSz
           first == l.first
           last == l.last
<1>1. b \in Nat /\ 0 \in Nat /\ b < len
  OBVIOUS
<1>2. p \in Nat /\ s \in 0 .. blkSz - 1 /\ b = p * blkSz + s
  BY <1>1, BehindBlocks
<1>3. /\ first \in Int /\ last \in Int /\ first * blkSz = off + 2 * blkSz
      /\ off + 2 * blkSz + len <= (last + 1) * blkSz
  BY DEF IsLine, Seeds
<1> HIDE DEF p, s, first, last
<1>4. first + p <= last
  <2> DEFINE u == first * blkSz
             v == p * blkSz
             z == (last + 1) * blkSz
             t == off + 2 * blkSz
  <2>1. u \in Int /\ v \in Int /\ z \in Int /\ t \in Int /\ u = t /\ t + len <= z /\ b = v + s
    BY <1>2, <1>3
  <2>2. (first + p) * blkSz = u + v /\ (last + 1) * blkSz = z
    BY <1>2, <1>3
  <2>3. u + v < z
    <3> HIDE DEF u, v, z, t
    <3> QED BY <1>1, <1>2, <2>1
  <2>4. (first + p) * blkSz < (last + 1) * blkSz
    <3> HIDE DEF u, v, z, t
    <3> QED BY <2>2, <2>3
  <2>5. first + p \in Int /\ last + 1 \in Int
    BY <1>2, <1>3
  <2>6. first + p < last + 1
    BY <2>4, <2>5, TimesOrdered
  <2> QED BY <1>2, <1>3, <2>6
<1>5. Place(first + p) + s = area + off + b
  <2> DEFINE e == first - Seeds + p
  <2>1. Place(first + p) = area + e * blkSz
    <3> DEFINE t == first + p
    <3>1. t - Seeds = e
      BY <1>2, <1>3 DEF Seeds
    <3>2. Place(t) = area + e * blkSz
      <4> HIDE DEF e, t
      <4> QED BY <3>1 DEF Place
    <3> HIDE DEF e
    <3> QED BY <3>2
  <2>2. e = first - 2 + p
    BY DEF Seeds
  <2> HIDE DEF e
  <2>3. e * blkSz = first * blkSz - 2 * blkSz + p * blkSz
    BY <1>2, <1>3, <2>2
  <2>4. e * blkSz = off + p * blkSz
    BY <1>2, <1>3, <2>3
  <2> DEFINE v == p * blkSz
             y == e * blkSz
  <2>5. v \in Int /\ y = off + v /\ b = v + s /\ Place(first + p) = area + y
    BY <1>2, <2>1, <2>4
  <2> HIDE DEF v, y
  <2> QED BY <1>2, <2>5
<1>6. first + p \in first .. last
  BY <1>2, <1>3, <1>4
<1> QED BY <1>2, <1>3, <1>5, <1>6 DEF IsInLine, p, s, first, last

LEMMA FatReadThrough == ASSUME Chainable, WholeSectors, GeoInv, FatInv PROVE ReadThrough
<1> SUFFICES ASSUME stage = "burnt", NEW f \in Files, FileSize(f) > 0
             PROVE  LET w == Walk(start[f], Filled(f)) IN
                    /\ w[Filled(f)] = EndMark
                    /\ \A i \in DOMAIN layout[f] : \A b \in 0 .. layout[f][i].len - 1 :
                          LET xt == layout[f][i]
                              at == BytesUpTo(f, i) + b
                              c == w[at \div blkSz]
                          IN  c \in Volume /\ Reads(Place(c) + (at % blkSz), SourceByte(xt.med, xt.off + b))
  BY DEF ReadThrough
<1> DEFINE w == Walk(start[f], Filled(f))
<1>1. PICK at : Goes(f, at)
  BY FileWalked
<1>2. /\ Laid /\ Settled /\ Stacked /\ NoneShared /\ blkSz \in Nat \ {0} /\ area \in Nat
      /\ \A j \in Joints : IsJoint(j) /\ j.last < blkCount
  BY BurntIs, TreeOf DEF Chainable, Threading
<1>3. ASSUME NEW i \in DOMAIN layout[f], NEW b \in 0 .. layout[f][i].len - 1
      PROVE  LET n == BytesUpTo(f, i) + b
                 c == w[n \div blkSz]
             IN  /\ c \in Volume
                 /\ Reads(Place(c) + (n % blkSz), SourceByte(layout[f][i].med, layout[f][i].off + b))
  <2> DEFINE x == layout[f][i]
             l == Lines(f)[i]
             off == WithinArea(x)
             a == at[i]
             n == BytesUpTo(f, i) + b
             c == l.first + (b \div blkSz)
             j == JointAt(Lines(f), i)
  <2>1. /\ i \in 1 .. Len(Lines(f)) /\ IsLine(off, x.len, l) /\ off \in Nat /\ x.len \in Nat
        /\ x \in FileExtents
    BY <1>2, LinesAre, TreeOf
  <2>2. WithinDisk(x) = area + off
    <3>1. Undivided(FileExtents)
      BY <1>2, FileExtentsUndivided
    <3> HIDE DEF x
    <3> QED BY <1>2, <2>1, <3>1, PlaceTyped
  <2>3. /\ b \div blkSz \in Nat /\ l.first \in Int /\ c \in l.first .. l.last
        /\ Place(c) + (b % blkSz) = area + off + b
    <3>1. b \in 0 .. x.len - 1 /\ IsLine(off, x.len, l) /\ off \in Nat /\ x.len \in Nat
      BY <2>1
    <3>2. IsInLine(off, l, b)
      <4> HIDE DEF x, l, off
      <4> QED BY <1>2, <3>1, ByteInLine
    <3> QED BY <3>2 DEF IsInLine
  <2>4. a \in Nat /\ n = a * blkSz + b
    BY <1>1, <2>1 DEF Goes
  <2>5. n \div blkSz = a + (b \div blkSz) /\ n % blkSz = b % blkSz
    <3>1. b \in Nat
      BY <2>1
    <3> HIDE DEF n, a
    <3> QED BY <1>2, <2>4, <3>1, BehindBlocks
  <2>6. w[n \div blkSz] = c
    <3> DEFINE k == b \div blkSz
    <3>1. c - l.first = k
      <4> DEFINE p == l.first
      <4>1. p \in Int /\ k \in Nat /\ c = p + k
        BY <2>3
      <4> HIDE DEF p, k, c
      <4> QED BY <4>1 DEF p
    <3>2. a + (c - l.first) = n \div blkSz
      BY <2>5, <3>1
    <3>3. n \div blkSz \in 0 .. Filled(f) - 1
      <4>1. a + (c - l.first) \in 0 .. Filled(f) - 1
        BY <1>1, <2>1, <2>3 DEF Goes
      <4> QED BY <3>2, <4>1
    <3>4. Visits(w, at, Lines(f), n \div blkSz)
      BY <1>1, <3>3 DEF Goes
    <3> HIDE DEF n, c
    <3> QED BY <2>1, <2>3, <3>2, <3>4 DEF Visits
  <2>7. c \in Volume
    <3>1. j \in Joints
      <4>1. j \in FileJoints(f)
        BY <2>1 DEF FileJoints, JointsFrom
      <4> QED BY <4>1, BurntIs
    <3>2. j.first = l.first /\ j.last = l.last
      BY DEF JointAt, Joint
    <3>3. IsJoint(j) /\ j.last < blkCount
      BY <1>2, <3>1
    <3>4. blkCount \in Nat
      BY BurntIs DEF Shape
    <3> DEFINE p == l.first
               q == l.last
    <3>5. p \in Int /\ q \in Int /\ Seeds <= p /\ q < blkCount
      BY <3>2, <3>3 DEF IsJoint
    <3>6. c \in p .. q
      BY <2>3
    <3> HIDE DEF c, p, q, j
    <3> QED BY <3>4, <3>5, <3>6 DEF Volume, Seeds
  <2>8. Reads(Place(c) + (n % blkSz), SourceByte(x.med, x.off + b))
    <3>1. Reads(WithinDisk(x) + b, SourceByte(x.med, x.off + b))
      BY <1>2, <2>1, GeoFilesReadBack DEF FilesReadBack
    <3>2. Place(c) + (n % blkSz) = WithinDisk(x) + b
      BY <2>2, <2>3, <2>5
    <3> QED BY <3>1, <3>2
  <2> HIDE DEF w
  <2>9. w[n \div blkSz] \in Volume
    BY <2>6, <2>7
  <2>10. Reads(Place(w[n \div blkSz]) + (n % blkSz), SourceByte(x.med, x.off + b))
    BY <2>6, <2>8
  <2> QED BY <2>9, <2>10
<1>4. w[Filled(f)] = EndMark
  BY <1>1 DEF Goes
<1> QED BY <1>3, <1>4

\* A file is read back through the volume, link after link.
THEOREM ReadThroughAlways == ASSUME Chainable, WholeSectors PROVE FatSpec => []ReadThrough
<1>1. GeoInv /\ FatInv => ReadThrough
  BY FatReadThrough
<1> QED BY <1>1, FatAlways, PTL
-----------------------------------------------------------------------------
(***************************************************************************)
(* Free space.  What a scratch volume copies is whole files, so that the   *)
(* ranges are the files and no cluster but theirs and the directories' is  *)
(* behind the area's start and before the first free one.                  *)
(***************************************************************************)
WholeFiles == \A t \in FileTrees : \A f \in Files : Len(t[f]) = 1 /\ t[f][1].off = 0

LEMMA WholeTree ==
    ASSUME WholeFiles, GeoInv, FatInv, stage = "burnt", sparse
    PROVE  /\ \A f \in Files : Len(layout[f]) = 1 /\ DOMAIN layout[f] = {1} /\ layout[f][1].off = 0
           /\ \A x \in FileExtents : \E f \in Files : x = layout[f][1]
<1>1. Laid /\ Shape /\ GeoTyped
  BY BurntIs DEF GeoInv
<1>2. tree \in FileTrees
  BY <1>1 DEF Shape, GeoTyped
<1>3. DOMAIN layout = Files /\ \A f \in Files : layout[f] = tree[f] /\ layout[f] \in Seq(Extents)
  BY <1>1, TreeOf
<1>4. ASSUME NEW f \in Files
      PROVE  Len(layout[f]) = 1 /\ DOMAIN layout[f] = {1} /\ layout[f][1].off = 0
  <2>1. Len(layout[f]) = 1 /\ layout[f][1].off = 0
    BY <1>2, <1>3 DEF WholeFiles
  <2>2. DOMAIN layout[f] = 1 .. 1
    BY <1>3, <2>1
  <2> QED BY <2>1, <2>2
<1>5. \A x \in FileExtents : \E f \in Files : x = layout[f][1]
  BY <1>1, <1>3, <1>4, TreeTyped
<1> QED BY <1>4, <1>5

LEMMA RangeIsFile ==
    ASSUME NoneShared, WholeFiles, GeoInv, FatInv, stage = "burnt", sparse,
           NEW id \in DOMAIN cols, NEW k \in DOMAIN cols[id]
    PROVE  \E f \in Files : /\ layout[f][1] \in FileExtents /\ layout[f][1].len = plan[id][k] - k
                            /\ WithinDisk(layout[f][1]) = cols[id][k]
<1>1. /\ Laid /\ stage \in {"planned", "burnt"} /\ GeoTyped /\ Columns /\ Covers(Geo, FileExtents)
      /\ FileExtents \subseteq Extents
  BY BurntIs, TreeTyped DEF GeoInv, Writing
<1>2. id \in DOMAIN plan /\ k \in DOMAIN plan[id] /\ cols[id][k] \in Nat
  BY <1>1 DEF Columns, Column
<1>3. IsRange(id, k, plan[id][k], FileExtents)
  BY <1>1, <1>2 DEF Covers, Geo, Retains
<1>4. PICK x \in FileExtents : Id[x.med] = id /\ k = x.off
  BY <1>3 DEF IsRange
<1>5. PICK y \in FileExtents : Id[y.med] = id /\ plan[id][k] = y.off + y.len
  BY <1>3 DEF IsRange
<1>6. PICK f \in Files : x = layout[f][1]
  BY WholeTree
<1>7. x.off = 0 /\ y.off = 0
  BY WholeTree
<1>8. Undivided(FileExtents)
  BY <1>1, FileExtentsUndivided
<1>9. x = y
  BY <1>4, <1>5, <1>7, <1>8 DEF Undivided
<1>10. k = 0 /\ x.len \in Nat /\ plan[id][k] = x.len
  <2>1. x.len \in Nat
    BY <1>1 DEF Extents
  <2> QED BY <1>4, <1>5, <1>7, <1>9, <2>1
<1>11. PICK l : Bridged(x, l)
  BY <1>1, IsBridged
<1>12. l = k
  <2>1. l \in Nat /\ l <= x.off
    BY <1>11 DEF Bridged
  <2> QED BY <1>7, <1>10, <2>1
<1>13. WithinDisk(x) = x.off - k + cols[id][k]
  BY <1>4, <1>11, <1>12 DEF Bridged
<1>14. WithinDisk(x) = cols[id][k]
  <2> DEFINE c == cols[id][k]
  <2>1. c \in Nat /\ x.off = 0 /\ k = 0 /\ WithinDisk(x) = x.off - k + c
    BY <1>2, <1>7, <1>10, <1>13
  <2> HIDE DEF c
  <2>2. WithinDisk(x) = c
    BY <2>1
  <2> QED BY <2>2 DEF c
<1>15. x.len = plan[id][k] - k
  BY <1>10
<1> QED BY <1>6, <1>14, <1>15

\* A cluster whose bytes are in a line's is one of the line.
LEMMA PlaceInLine ==
    ASSUME blkSz \in Nat \ {0}, area \in Nat, NEW off \in Nat, NEW len \in Nat, NEW l, IsLine(off, len, l),
           NEW c \in Int, area + off <= Place(c), Place(c) < area + off + len
    PROVE  c \in l.first .. l.last
<1> DEFINE first == l.first
           last == l.last
           e == c - Seeds
<1>1. /\ first \in Int /\ last \in Int /\ first * blkSz = off + 2 * blkSz
      /\ off + 2 * blkSz + len <= (last + 1) * blkSz
  BY DEF IsLine, Seeds
<1>2. e \in Int /\ c = e + 2
  BY DEF Seeds
<1>3. Place(c) = area + e * blkSz
  BY DEF Place
<1> HIDE DEF first, last, e
<1> DEFINE v == e * blkSz
           u == first * blkSz
           z == (last + 1) * blkSz
           t == 2 * blkSz
<1>4. /\ v \in Int /\ u \in Int /\ z \in Int /\ t \in Int /\ u = off + t /\ off + t + len <= z
      /\ Place(c) = area + v
  BY <1>1, <1>2, <1>3
<1>5. c * blkSz = v + t
  BY <1>2
<1> HIDE DEF v, u, z, t
<1>6. u <= v + t /\ v + t < z
  BY <1>4
<1>7. c < last + 1
  <2>1. c * blkSz < (last + 1) * blkSz
    BY <1>5, <1>6 DEF z
  <2>2. last + 1 \in Int
    BY <1>1
  <2> QED BY <2>1, <2>2, TimesOrdered
<1>8. first < c + 1
  <2>1. first * blkSz < (c + 1) * blkSz
    <3>1. (c + 1) * blkSz = v + t + blkSz
      BY <1>4, <1>5
    <3>2. u < v + t + blkSz
      BY <1>4, <1>6
    <3> QED BY <3>1, <3>2 DEF u
  <2>2. c + 1 \in Int
    OBVIOUS
  <2> QED BY <1>1, <2>1, <2>2, TimesOrdered
<1> QED BY <1>1, <1>7, <1>8 DEF first, last

\* In a scratch volume each cluster before the first free one is in a joint.
LEMMA BelowIsJoined ==
    ASSUME Chainable, WholeFiles, GeoInv, FatInv, stage = "burnt", sparse,
           NEW c \in Int, Seeds <= c, c < free[1]
    PROVE  \E j \in Joints : c \in j.first .. j.last
<1>1. /\ Laid /\ Settled /\ Stacked /\ NoneShared /\ stage \in {"planned", "burnt"} /\ Freeing /\ free # <<>>
      /\ blkSz \in Nat \ {0} /\ area \in Nat /\ DOMAIN dirLayout = Dirs
  BY BurntIs, TreeOf DEF Chainable
<1>2. Covered(Place(c)) \/ InDir(Place(c))
  BY <1>1 DEF Freeing
<1>3. CASE Covered(Place(c))
  <2>1. PICK id \in DOMAIN cols : \E k \in DOMAIN cols[id] :
           cols[id][k] <= Place(c) /\ Place(c) < cols[id][k] + (plan[id][k] - k)
    BY <1>3 DEF Covered
  <2>2. PICK k \in DOMAIN cols[id] :
           cols[id][k] <= Place(c) /\ Place(c) < cols[id][k] + (plan[id][k] - k)
    BY <2>1
  <2>3. PICK f \in Files : /\ layout[f][1] \in FileExtents /\ layout[f][1].len = plan[id][k] - k
                           /\ WithinDisk(layout[f][1]) = cols[id][k]
    BY <1>1, RangeIsFile
  <2> DEFINE x == layout[f][1]
             off == WithinArea(x)
             l == Lines(f)[1]
  <2>4. 1 \in 1 .. Len(Lines(f)) /\ IsLine(off, x.len, l) /\ off \in Nat /\ x.len \in Nat
    <3>1. DOMAIN layout[f] = {1}
      BY WholeTree
    <3> QED BY <1>1, <3>1, LinesAre, TreeOf
  <2>5. WithinDisk(x) = area + off
    <3>1. Undivided(FileExtents)
      BY <1>1, FileExtentsUndivided
    <3>2. x \in FileExtents
      BY <2>3
    <3> HIDE DEF x
    <3> QED BY <1>1, <3>1, <3>2, PlaceTyped
  <2>6. area + off <= Place(c) /\ Place(c) < area + off + x.len
    BY <2>2, <2>3, <2>5
  <2>7. c \in l.first .. l.last
    <3> HIDE DEF x, off, l
    <3> QED BY <1>1, <2>4, <2>6, PlaceInLine
  <2>8. JointAt(Lines(f), 1) \in Joints
    <3>1. JointAt(Lines(f), 1) \in FileJoints(f)
      BY <2>4 DEF FileJoints, JointsFrom
    <3> QED BY <3>1, BurntIs
  <2>9. JointAt(Lines(f), 1).first = l.first /\ JointAt(Lines(f), 1).last = l.last
    BY DEF JointAt, Joint
  <2> QED BY <2>7, <2>8, <2>9
<1>4. CASE InDir(Place(c))
  <2>1. PICK d \in Dirs : Place(dirLayout[d]) <= Place(c) /\ Place(c) < Place(dirLayout[d] + Filled(d))
    BY <1>1, <1>4 DEF InDir
  <2> DEFINE p == dirLayout[d]
             n == Filled(d)
  <2>2. p \in Int /\ n \in Nat
    BY DirWalked
  <2>3. DirJoint(d) \in Joints /\ DirJoint(d).first = p /\ DirJoint(d).last = p + n - 1
    BY BurntIs DEF DirJoint, Joint
  <2>4. Place(p) <= Place(c) /\ Place(c) < Place(p + n)
    BY <2>1
  <2> HIDE DEF p, n
  <2>5. p <= c
    BY <1>1, <2>2, <2>4, PlacesOrdered
  <2>6. c < p + n
    <3>1. p + n \in Int
      BY <2>2
    <3> DEFINE e == p + n
    <3> HIDE DEF e
    <3>2. e \in Int /\ Place(c) < Place(e)
      BY <2>4, <3>1 DEF e
    <3>3. c < e
      BY <1>1, <3>2, PlacesOrdered
    <3> QED BY <3>3 DEF e
  <2>7. c \in p .. p + n - 1
    BY <2>2, <2>5, <2>6
  <2> QED BY <2>3, <2>7
<1> QED BY <1>2, <1>3, <1>4

LEMMA FatFreeSpace == ASSUME Chainable, WholeFiles, GeoInv, FatInv PROVE FreeSpace
<1> SUFFICES ASSUME stage = "burnt", sparse, NEW c \in Volume
             PROVE  (c < free[1] <=> c \in InUse) /\ (c < free[1] <=> Link(c) # Unused)
  BY DEF FreeSpace
<1>1. /\ Freeing /\ free # <<>> /\ Threading /\ Settled /\ Stacked
      /\ \A j \in Joints : (\E f \in Files : j \in FileJoints(f)) \/ \E d \in Dirs : j = DirJoint(d)
  BY BurntIs
<1>2. free[1] \in Int /\ \A j \in Joints : IsJoint(j) /\ j.last < free[1]
  BY <1>1 DEF Freeing, Threading
<1>3. c \in Int /\ Seeds <= c
  BY DEF Volume, Seeds
<1>4. ASSUME c < free[1] PROVE c \in InUse
  <2>1. PICK j \in Joints : c \in j.first .. j.last
    BY <1>3, <1>4, BelowIsJoined
  <2>2. <<c, Link(c)>> \in Followed
    BY <2>1, JointFollowed
  <2> QED BY <2>2 DEF InUse
<1>5. ASSUME NEW j \in Joints, c <= j.last PROVE c < free[1]
  <2>1. j.last \in Int /\ j.last < free[1]
    BY <1>2 DEF IsJoint
  <2> QED BY <1>2, <1>3, <1>5, <2>1
<1>6. ASSUME c \in InUse PROVE c < free[1]
  <2>1. PICK j \in Joints : c \in j.first .. j.last
    BY <1>6, UsedByJoint
  <2>2. j.first \in Int /\ j.last \in Int
    BY <1>2 DEF IsJoint
  <2>3. c <= j.last
    BY <2>1, <2>2
  <2> QED BY <1>5, <2>3
<1>7. ASSUME Link(c) # Unused PROVE c < free[1]
  <2>1. c \in DOMAIN links
    BY <1>7 DEF Link
  <2>2. PICK j \in Joints : c <= j.last
    BY <1>1, <2>1 DEF Threading, Threads, AmendedBelow
  <2> QED BY <1>5, <2>2
<1>8. ASSUME c < free[1] PROVE Link(c) # Unused
  <2>1. PICK j \in Joints : c \in j.first .. j.last
    BY <1>3, <1>8, BelowIsJoined
  <2>2. Link(c) = IF c = j.last THEN j.next ELSE c + 1
    BY <1>1, <2>1 DEF Threading, Threads, Linked, LinkIn, Link
  <2>3. j.next = EndMark
    <3>1. ASSUME NEW f \in Files, j \in FileJoints(f) PROVE j.next = EndMark
      <4>1. PICK i \in 1 .. Len(Lines(f)) : j = JointAt(Lines(f), i)
        BY <3>1 DEF FileJoints, JointsFrom
      <4>2. Len(Lines(f)) = 1
        BY <1>1, WholeTree, LinesAre DEF Chainable
      <4>3. i = Len(Lines(f))
        BY <4>1, <4>2
      <4> QED BY <4>1, <4>3 DEF JointAt, NextOf, Joint
    <3>2. ASSUME NEW d \in Dirs, j = DirJoint(d) PROVE j.next = EndMark
      BY <3>2 DEF DirJoint, Joint
    <3> QED BY <1>1, <3>1, <3>2
  <2> QED BY <1>3, <2>2, <2>3 DEF EndMark, Unused, Seeds
<1> QED BY <1>4, <1>6, <1>7, <1>8

\* In a scratch volume of whole files the host finds free the clusters from the
\* noted one on, and no file or directory among them.
THEOREM FreeSpaceAlways == ASSUME Chainable, WholeFiles PROVE FatSpec => []FreeSpace
<1>1. GeoInv /\ FatInv => FreeSpace
  BY FatFreeSpace
<1> QED BY <1>1, FatAlways, PTL
=============================================================================
