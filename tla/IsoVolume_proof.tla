-------------------------- MODULE IsoVolume_proof ----------------------------
(***************************************************************************)
(* Proofs about IsoVolume and the names of NamePool.                       *)
(***************************************************************************)
EXTENDS IsoVolume, Geometry_proof
-----------------------------------------------------------------------------
(***************************************************************************)
(* The greatest number of a set.                                           *)
(***************************************************************************)
LEMMA MaxOf == ASSUME NEW S \in SUBSET Nat, S # {}, NEW b \in Nat, \A x \in S : x =< b
               PROVE  Max(S) \in S /\ \A y \in S : y <= Max(S)
<1>1. \E x \in S : \A y \in S : x >= y
  <2>1. PICK x \in S : \A y \in S : y =< x
    BY GreatestOf
  <2> QED BY <2>1
<1> QED BY <1>1 DEF Max

LEMMA MaxOne == ASSUME NEW i \in Nat PROVE Max({i}) = i
<1>1. \A x \in {i} : x =< i
  OBVIOUS
<1>2. Max({i}) \in {i}
  BY <1>1, MaxOf
<1> QED BY <1>2
-----------------------------------------------------------------------------
(***************************************************************************)
(* Sequences one behind the other.                                         *)
(***************************************************************************)
LEMMA ConcatIs ==
    ASSUME NEW S, NEW a \in Seq(S), NEW b \in Seq(S)
    PROVE  /\ a \o b \in Seq(S) /\ Len(a) \in Nat /\ Len(b) \in Nat /\ Len(a \o b) = Len(a) + Len(b)
           /\ \A i \in 1 .. Len(a) : i \in 1 .. Len(a \o b) /\ (a \o b)[i] = a[i]
           /\ \A i \in 1 .. Len(b) : Len(a) + i \in 1 .. Len(a \o b) /\ (a \o b)[Len(a) + i] = b[i]
<1>1. a \o b \in Seq(S) /\ Len(a \o b) = Len(a) + Len(b) /\ Len(a) \in Nat /\ Len(b) \in Nat
  OBVIOUS
<1>2. ASSUME NEW i \in 1 .. Len(a) PROVE i \in 1 .. Len(a \o b) /\ (a \o b)[i] = a[i]
  BY <1>1
<1>3. ASSUME NEW i \in 1 .. Len(b) PROVE Len(a) + i \in 1 .. Len(a \o b) /\ (a \o b)[Len(a) + i] = b[i]
  BY <1>1
<1> QED BY <1>1, <1>2, <1>3

IsFlat(f, seqs, n) == f = [i \in 1 .. n |-> IF i = 1 THEN seqs[i] ELSE f[i-1] \o seqs[i]]

LEMMA FlatExists ==
    ASSUME NEW seqs, NEW n \in Nat
    PROVE  \E f : IsFlat(f, seqs, n)
<1> DEFINE T == {m \in Nat : \E f : f = [i \in 1 .. m |-> IF i = 1 THEN seqs[i] ELSE f[i-1] \o seqs[i]]}
<1>1. 0 \in T
  <2> DEFINE f == [i \in 1 .. 0 |-> 0]
  <2>1. f = [i \in 1 .. 0 |-> IF i = 1 THEN seqs[i] ELSE f[i-1] \o seqs[i]]
    OBVIOUS
  <2> HIDE DEF f
  <2> QED BY <2>1
<1>2. ASSUME NEW m \in T PROVE m + 1 \in T
  <2>1. PICK f : f = [i \in 1 .. m |-> IF i = 1 THEN seqs[i] ELSE f[i-1] \o seqs[i]]
    BY <1>2
  <2> DEFINE last == IF m = 0 THEN seqs[1] ELSE f[m] \o seqs[m + 1]
             g == [i \in 1 .. m + 1 |-> IF i = m + 1 THEN last ELSE f[i]]
  <2>2. ASSUME NEW i \in 1 .. m + 1 PROVE g[i] = IF i = 1 THEN seqs[i] ELSE g[i-1] \o seqs[i]
    <3>1. CASE i = m + 1
      <4>1. g[i] = last
        BY <3>1
      <4>2. CASE m = 0
        BY <3>1, <4>1, <4>2
      <4>3. CASE m # 0
        <5>1. i # 1 /\ i - 1 = m /\ m \in 1 .. m + 1 /\ m # m + 1
          BY <3>1, <4>3
        <5>2. g[m] = f[m]
          BY <5>1
        <5> QED BY <3>1, <4>1, <4>3, <5>1, <5>2
      <4> QED BY <4>2, <4>3
    <3>2. CASE i # m + 1
      <4>1. i \in 1 .. m /\ g[i] = f[i]
        BY <3>2
      <4>2. f[i] = IF i = 1 THEN seqs[i] ELSE f[i-1] \o seqs[i]
        BY <2>1, <4>1
      <4>3. i # 1 => i - 1 \in 1 .. m + 1 /\ i - 1 # m + 1
        BY <4>1
      <4>4. i # 1 => g[i-1] = f[i-1]
        BY <4>3
      <4> QED BY <4>1, <4>2, <4>4
    <3> QED BY <3>1, <3>2
  <2>3. g = [i \in 1 .. m + 1 |-> IF i = 1 THEN seqs[i] ELSE g[i-1] \o seqs[i]]
    BY <2>2
  <2>4. m + 1 \in Nat
    OBVIOUS
  <2> HIDE DEF g
  <2>5. \E h : h = [i \in 1 .. m + 1 |-> IF i = 1 THEN seqs[i] ELSE h[i-1] \o seqs[i]]
    BY <2>3
  <2> QED BY <2>4, <2>5
<1>3. T = Nat
  <2>1. T \in SUBSET Nat
    OBVIOUS
  <2> HIDE DEF T
  <2> QED BY <2>1, <1>1, <1>2, NatSetInduction
<1> QED BY <1>3 DEF IsFlat

\* Where each of the sequences starts.
Parted(start, seqs) ==
    /\ start \in [1 .. Len(seqs) + 1 -> Nat] /\ start[1] = 0
    /\ \A i \in 1 .. Len(seqs) : start[i + 1] = start[i] + Len(seqs[i])

\* What comes of the first n of the sequences.
Flattened(flat, n, start, seqs, S) ==
    /\ flat \in Seq(S) /\ Len(flat) = start[n + 1]
    /\ \A i \in 1 .. n : \A j \in 1 .. Len(seqs[i]) :
          start[i] + j \in 1 .. Len(flat) /\ flat[start[i] + j] = seqs[i][j]
    /\ \A p \in 1 .. Len(flat) : \E i \in 1 .. n : \E j \in 1 .. Len(seqs[i]) : p = start[i] + j

LEMMA FlatIs ==
    ASSUME NEW S, NEW seqs \in Seq(Seq(S)), NEW f, IsFlat(f, seqs, Len(seqs)), NEW start, Parted(start, seqs)
    PROVE  \A n \in 1 .. Len(seqs) : Flattened(f[n], n, start, seqs, S)
<1> DEFINE L == Len(seqs)
           OK(n) == /\ f[n] \in Seq(S) /\ Len(f[n]) = start[n + 1]
                    /\ \A i \in 1 .. n : \A j \in 1 .. Len(seqs[i]) :
                          start[i] + j \in 1 .. Len(f[n]) /\ f[n][start[i] + j] = seqs[i][j]
                    /\ \A p \in 1 .. Len(f[n]) : \E i \in 1 .. n : \E j \in 1 .. Len(seqs[i]) : p = start[i] + j
           T == {n \in Nat : n + 1 \in 1 .. L => OK(n + 1)}
<1>0. L \in Nat /\ \A i \in 1 .. L : seqs[i] \in Seq(S) /\ Len(seqs[i]) \in Nat
  OBVIOUS
<1>1. \A i \in 1 .. L : start[i] \in Nat /\ start[i + 1] \in Nat /\ start[i + 1] = start[i] + Len(seqs[i])
  BY <1>0 DEF Parted
<1>2. 0 \in T
  <2> SUFFICES ASSUME 1 \in 1 .. L PROVE OK(1)
    OBVIOUS
  <2>1. f[1] = seqs[1]
    BY DEF IsFlat
  <2>2. seqs[1] \in Seq(S) /\ start[1] = 0 /\ start[1 + 1] = Len(seqs[1])
    BY <1>0, <1>1 DEF Parted
  <2>3. \A i \in 1 .. 1 : i = 1
    OBVIOUS
  <2>4. ASSUME NEW p \in 1 .. Len(f[1]) PROVE \E i \in 1 .. 1 : \E j \in 1 .. Len(seqs[i]) : p = start[i] + j
    BY <2>1, <2>2
  <2>5. ASSUME NEW i \in 1 .. 1, NEW j \in 1 .. Len(seqs[i])
        PROVE  start[i] + j \in 1 .. Len(f[1]) /\ f[1][start[i] + j] = seqs[i][j]
    BY <2>1, <2>2, <2>3
  <2> QED BY <2>1, <2>2, <2>4, <2>5
<1>3. ASSUME NEW n \in T PROVE n + 1 \in T
  <2> SUFFICES ASSUME (n + 1) + 1 \in 1 .. L PROVE OK((n + 1) + 1)
    OBVIOUS
  <2> DEFINE m == n + 1
  <2>1. m \in Nat /\ m \in 1 .. L /\ m + 1 \in 1 .. L /\ m + 1 # 1 /\ (m + 1) - 1 = m
    BY <1>0
  <2>2. OK(m)
    BY <1>3, <2>1
  <2> HIDE DEF m
  <2>3. f[m + 1] = f[m] \o seqs[m + 1]
    <3>1. f[m + 1] = IF m + 1 = 1 THEN seqs[m + 1] ELSE f[(m + 1) - 1] \o seqs[m + 1]
      BY <2>1 DEF IsFlat
    <3> QED BY <2>1, <3>1
  <2>4. /\ f[m] \in Seq(S) /\ seqs[m + 1] \in Seq(S) /\ Len(f[m]) = start[m + 1]
        /\ start[m + 1] \in Nat /\ start[(m + 1) + 1] = start[m + 1] + Len(seqs[m + 1])
    BY <1>0, <1>1, <2>1, <2>2
  <2> DEFINE tail == seqs[m + 1]
  <2>5. /\ f[m + 1] \in Seq(S) /\ Len(f[m]) \in Nat /\ Len(tail) \in Nat /\ Len(f[m + 1]) = Len(f[m]) + Len(tail)
        /\ Len(f[m + 1]) = start[(m + 1) + 1]
        /\ \A i \in 1 .. Len(f[m]) : i \in 1 .. Len(f[m + 1]) /\ f[m + 1][i] = f[m][i]
        /\ \A i \in 1 .. Len(tail) : Len(f[m]) + i \in 1 .. Len(f[m + 1]) /\ f[m + 1][Len(f[m]) + i] = tail[i]
    <3>1. f[m] \in Seq(S) /\ tail \in Seq(S)
      BY <2>4
    <3> HIDE DEF tail
    <3>2. f[m + 1] = f[m] \o tail
      BY <2>3 DEF tail
    <3>3. Len(f[m + 1]) = Len(f[m]) + Len(tail)
      BY <3>1, <3>2, ConcatIs
    <3>4. Len(f[m + 1]) = start[(m + 1) + 1]
      BY <2>4, <3>3 DEF tail
    <3> DEFINE all == f[m]
    <3>5. all \in Seq(S) /\ tail \in Seq(S) /\ f[m + 1] = all \o tail
      BY <3>1, <3>2
    <3> HIDE DEF all
    <3>6. /\ all \o tail \in Seq(S) /\ Len(all) \in Nat /\ Len(tail) \in Nat
          /\ \A i \in 1 .. Len(all) : i \in 1 .. Len(all \o tail) /\ (all \o tail)[i] = all[i]
          /\ \A i \in 1 .. Len(tail) : Len(all) + i \in 1 .. Len(all \o tail) /\ (all \o tail)[Len(all) + i] = tail[i]
      BY <3>5, ConcatIs
    <3> QED BY <3>3, <3>4, <3>5, <3>6, Zenon DEF all
  <2>6. ASSUME NEW i \in 1 .. m + 1, NEW j \in 1 .. Len(seqs[i])
        PROVE  start[i] + j \in 1 .. Len(f[m + 1]) /\ f[m + 1][start[i] + j] = seqs[i][j]
    <3>1. CASE i = m + 1
      <4>1. j \in 1 .. Len(tail) /\ start[i] = Len(f[m])
        BY <2>4, <3>1
      <4> QED BY <2>5, <3>1, <4>1
    <3>2. CASE i # m + 1
      <4>1. i \in 1 .. m
        BY <2>1, <3>2
      <4>2. start[i] + j \in 1 .. Len(f[m]) /\ f[m][start[i] + j] = seqs[i][j]
        BY <2>2, <4>1
      <4> HIDE DEF tail
      <4> QED BY <2>5, <4>2
    <3> QED BY <3>1, <3>2
  <2>7. ASSUME NEW p \in 1 .. Len(f[m + 1])
        PROVE  \E i \in 1 .. m + 1 : \E j \in 1 .. Len(seqs[i]) : p = start[i] + j
    <3>1. CASE p <= Len(f[m])
      <4>1. p \in 1 .. Len(f[m])
        BY <2>4, <2>5, <3>1
      <4>2. PICK i \in 1 .. m : \E j \in 1 .. Len(seqs[i]) : p = start[i] + j
        BY <2>2, <4>1
      <4>3. i \in 1 .. m + 1
        BY <2>1
      <4> QED BY <4>2, <4>3
    <3>2. CASE ~(p <= Len(f[m]))
      <4> DEFINE j == p - start[m + 1]
      <4>0. p \in Nat /\ start[m + 1] \in Nat /\ p > start[m + 1] /\ p <= start[m + 1] + Len(tail) /\ Len(tail) \in Nat
        <5>1. Len(f[m + 1]) \in Nat
          BY <2>4, <2>5 DEF tail
        <5> HIDE DEF tail
        <5> QED BY <2>4, <2>5, <3>2, <5>1
      <4>1. j \in 1 .. Len(tail) /\ p = start[m + 1] + j
        <5> HIDE DEF tail
        <5> QED BY <4>0
      <4>2. m + 1 \in 1 .. m + 1
        BY <2>1
      <4> HIDE DEF j
      <4> QED BY <4>1, <4>2 DEF tail
    <3> QED BY <3>1, <3>2
  <2>8. OK(m + 1)
    BY <2>5, <2>6, <2>7
  <2> QED BY <2>8 DEF m
<1>4. T = Nat
  <2>1. T \in SUBSET Nat
    OBVIOUS
  <2> HIDE DEF T
  <2> QED BY <2>1, <1>2, <1>3, NatSetInduction
<1>5. ASSUME NEW n \in 1 .. L PROVE OK(n)
  <2>1. n - 1 \in Nat /\ (n - 1) + 1 = n
    BY <1>0
  <2>2. n - 1 \in T
    BY <1>4, <2>1
  <2>3. (n - 1) + 1 \in 1 .. L => OK((n - 1) + 1)
    <3> HIDE DEF OK
    <3> QED BY <2>2
  <2> HIDE DEF OK
  <2> QED BY <2>1, <2>3
<1> QED BY <1>5 DEF Flattened

LEMMA StartsExist ==
    ASSUME NEW S, NEW seqs \in Seq(Seq(S))
    PROVE  \E start : Parted(start, seqs)
<1> DEFINE L == Len(seqs)
           Good(start, n) == /\ start \in [1 .. n + 1 -> Nat] /\ start[1] = 0
                             /\ \A i \in 1 .. n : start[i + 1] = start[i] + Len(seqs[i])
           T == {n \in Nat : n <= L => \E start : Good(start, n)}
<1>0. L \in Nat /\ \A i \in 1 .. L : Len(seqs[i]) \in Nat
  OBVIOUS
<1>1. 0 \in T
  <2> DEFINE s == [i \in 1 .. 0 + 1 |-> 0]
  <2>1. Good(s, 0)
    OBVIOUS
  <2> HIDE DEF s, Good
  <2> QED BY <2>1
<1>2. ASSUME NEW n \in T PROVE n + 1 \in T
  <2>0. n \in Nat /\ n + 1 \in Nat
    BY <1>2
  <2> SUFFICES ASSUME n + 1 <= L PROVE \E start : Good(start, n + 1)
    <3> HIDE DEF Good
    <3> QED BY <2>0
  <2>1. PICK s : Good(s, n)
    <3>1. n <= L
      BY <1>0, <2>0
    <3> HIDE DEF Good
    <3> QED BY <1>2, <3>1
  <2> DEFINE t == [i \in 1 .. (n + 1) + 1 |-> IF i = (n + 1) + 1 THEN s[n + 1] + Len(seqs[n + 1]) ELSE s[i]]
  <2>2. s[n + 1] \in Nat /\ Len(seqs[n + 1]) \in Nat
    BY <1>0, <2>1
  <2>3. t \in [1 .. (n + 1) + 1 -> Nat] /\ t[1] = 0
    BY <2>1, <2>2
  <2>4. ASSUME NEW i \in 1 .. n + 1 PROVE t[i + 1] = t[i] + Len(seqs[i])
    <3>1. CASE i = n + 1
      BY <3>1
    <3>2. CASE i # n + 1
      <4>1. i \in 1 .. n /\ i + 1 \in 1 .. n + 1 /\ i + 1 # (n + 1) + 1 /\ i # (n + 1) + 1
        BY <3>2
      <4>2. t[i + 1] = s[i + 1] /\ t[i] = s[i]
        BY <4>1
      <4> QED BY <2>1, <4>1, <4>2
    <3> QED BY <3>1, <3>2
  <2> HIDE DEF t
  <2> QED BY <2>3, <2>4
<1>3. T = Nat
  <2>1. T \in SUBSET Nat
    OBVIOUS
  <2> HIDE DEF T
  <2> QED BY <2>1, <1>1, <1>2, NatSetInduction
<1>4. \E start : Good(start, L)
  <2>1. L \in Nat /\ L <= L
    BY <1>0
  <2> HIDE DEF Good
  <2>2. L \in T
    BY <1>3, <2>1
  <2> HIDE DEF L
  <2> QED BY <2>1, <2>2
<1> QED BY <1>4 DEF Parted

\* What FlattenSeq makes of sequences, and where they are in it.
LEMMA FlattenIs ==
    ASSUME NEW S, NEW seqs \in Seq(Seq(S))
    PROVE  \E start : Parted(start, seqs) /\ Flattened(FlattenSeq(seqs), Len(seqs), start, seqs, S)
<1>1. PICK start : Parted(start, seqs)
  BY StartsExist
<1>2. CASE Len(seqs) = 0
  <2>1. FlattenSeq(seqs) = seqs /\ seqs = <<>>
    BY <1>2 DEF FlattenSeq
  <2>2. start[Len(seqs) + 1] = 0
    BY <1>1, <1>2 DEF Parted
  <2>3. seqs \in Seq(S) /\ Len(seqs) = 0
    BY <2>1, <1>2
  <2> QED BY <1>1, <2>1, <2>2, <2>3 DEF Flattened
<1>3. CASE Len(seqs) # 0
  <2> DEFINE f == CHOOSE f : f = [i \in 1 .. Len(seqs) |-> IF i = 1 THEN seqs[i] ELSE f[i-1] \o seqs[i]]
  <2>1. FlattenSeq(seqs) = f[Len(seqs)]
    BY <1>3 DEF FlattenSeq
  <2>2. Len(seqs) \in Nat
    OBVIOUS
  <2>3. \E g : g = [i \in 1 .. Len(seqs) |-> IF i = 1 THEN seqs[i] ELSE g[i-1] \o seqs[i]]
    BY <2>2, FlatExists DEF IsFlat
  <2>4. IsFlat(f, seqs, Len(seqs))
    BY <2>3 DEF IsFlat
  <2> HIDE DEF f
  <2>5. PICK g : IsFlat(g, seqs, Len(seqs)) /\ FlattenSeq(seqs) = g[Len(seqs)]
    BY <2>1, <2>4
  <2>6. \A n \in 1 .. Len(seqs) : Flattened(g[n], n, start, seqs, S)
    BY <1>1, <2>5, FlatIs
  <2>7. Len(seqs) \in 1 .. Len(seqs)
    BY <1>3, <2>2
  <2> QED BY <1>1, <2>5, <2>6, <2>7
<1> QED BY <1>2, <1>3

\* A name of up to three segments, put together.
LEMMA FlatLast ==
    ASSUME NEW s, NEW n \in 1 .. 3, n = Len(s)
    PROVE  \E f : IsFlat(f, s, n) /\ Conv(s) = f[n]
<1> DEFINE f == CHOOSE f : f = [i \in 1 .. Len(s) |-> IF i = 1 THEN s[i] ELSE f[i-1] \o s[i]]
<1>1. Conv(s) = f[n]
  BY DEF Conv, FlattenSeq
<1>2. \E g : IsFlat(g, s, n)
  <2>1. n \in Nat
    OBVIOUS
  <2> QED BY <2>1, FlatExists
<1>3. IsFlat(f, s, n)
  BY <1>2 DEF IsFlat
<1> QED BY <1>1, <1>3

LEMMA FlatSteps ==
    ASSUME NEW s, NEW n \in 2 .. 3, NEW f, IsFlat(f, s, n)
    PROVE  f[1] = s[1] /\ f[2] = f[1] \o s[2] /\ (n = 3 => f[3] = f[2] \o s[3])
<1> DEFINE step(i) == f[i-1] \o s[i]
<1>1. step(2) = f[1] \o s[2] /\ step(3) = f[2] \o s[3]
  <2>1. 2 - 1 = 1 /\ 3 - 1 = 2
    OBVIOUS
  <2> QED BY <2>1, Zenon
<1> HIDE DEF step
<1>2. f = [i \in 1 .. n |-> IF i = 1 THEN s[i] ELSE step(i)]
  BY DEF IsFlat, step
<1>3. f[1] = s[1] /\ f[2] = step(2) /\ (n = 3 => f[3] = step(3))
  BY <1>2
<1> QED BY <1>1, <1>3, Zenon

LEMMA ConvOne ==
    ASSUME NEW a
    PROVE  Conv(<<a>>) = a
<1>1. PICK f : IsFlat(f, <<a>>, 1) /\ Conv(<<a>>) = f[1]
  BY FlatLast
<1> QED BY <1>1 DEF IsFlat

LEMMA ConvTwo ==
    ASSUME NEW s, NEW a, NEW b, s = <<a, b>>
    PROVE  Conv(s) = a \o b
<1>1. Len(s) = 2 /\ s[1] = a /\ s[2] = b
  OBVIOUS
<1>2. PICK f : IsFlat(f, s, 2) /\ Conv(s) = f[2]
  <2>1. 2 \in 1 .. 3 /\ 2 = Len(s)
    BY <1>1
  <2> QED BY <2>1, FlatLast
<1>3. f[1] = s[1] /\ f[2] = f[1] \o s[2]
  <2>1. 2 \in 2 .. 3
    OBVIOUS
  <2> QED BY <1>2, <2>1, FlatSteps, Zenon
<1> QED BY <1>1, <1>2, <1>3, Zenon

OfThree(s, a, b, c) == s = <<a, b, c>>

LEMMA ConvThree ==
    ASSUME NEW s, NEW a, NEW b, NEW c, OfThree(s, a, b, c)
    PROVE  Conv(s) = (a \o b) \o c
<1>1. Len(s) = 3 /\ s[1] = a /\ s[2] = b /\ s[3] = c
  BY DEF OfThree
<1>2. PICK f : IsFlat(f, s, 3) /\ Conv(s) = f[3]
  <2>1. 3 \in 1 .. 3 /\ 3 = Len(s)
    BY <1>1
  <2> QED BY <2>1, FlatLast
<1>3. f[1] = s[1] /\ f[2] = f[1] \o s[2] /\ f[3] = f[2] \o s[3]
  <2>1. 3 \in 2 .. 3 /\ 3 = 3
    OBVIOUS
  <2> QED BY <1>2, <2>1, FlatSteps, Zenon
<1> QED BY <1>1, <1>2, <1>3, Zenon

LEMMA ConvSeq == ASSUME NEW name \in Seq(Seq(Nat)) PROVE Conv(name) \in Seq(Nat) /\ Len(Conv(name)) \in Nat
<1>1. PICK start : Parted(start, name) /\ Flattened(FlattenSeq(name), Len(name), start, name, Nat)
  BY FlattenIs
<1>2. FlattenSeq(name) \in Seq(Nat)
  BY <1>1 DEF Flattened
<1> QED BY <1>2 DEF Conv

\* What is the same behind two texts can be taken away, and so can what is behind
\* the last dot.
LEMMA EndsCancel ==
    ASSUME NEW x \in Seq(Nat), NEW y \in Seq(Nat), NEW z \in Seq(Nat), x \o z = y \o z
    PROVE  x = y
<1>1. Len(x) = Len(y) /\ Len(x) \in Nat
  <2>1. Len(x) + Len(z) = Len(y) + Len(z)
    BY ConcatIs
  <2>2. Len(x) \in Nat /\ Len(y) \in Nat /\ Len(z) \in Nat
    OBVIOUS
  <2> QED BY <2>1, <2>2
<1>2. ASSUME NEW i \in 1 .. Len(x) PROVE x[i] = y[i]
  <2>1. (x \o z)[i] = x[i] /\ (y \o z)[i] = y[i]
    BY <1>1, ConcatIs
  <2> QED BY <2>1
<1> QED BY <1>1, <1>2, SeqEqual

Dotless(e) == \A i \in 1 .. Len(e) : e[i] # Stop

\* Its last dot parts a text into x and e.
PartedAt(w, x, e) ==
    /\ Len(x) + 1 \in 1 .. Len(w) /\ w[Len(x) + 1] = Stop /\ Len(w) = Len(x) + 1 + Len(e)
    /\ \A i \in 1 .. Len(w) : i > Len(x) + 1 => w[i] # Stop
    /\ \A i \in 1 .. Len(x) : w[i] = x[i]
    /\ \A i \in 1 .. Len(e) : w[Len(x) + 1 + i] = e[i]

LEMMA DotAt ==
    ASSUME NEW x \in Seq(Nat), NEW e \in Seq(Nat), Dotless(e), NEW w, w = x \o (<<Stop>> \o e)
    PROVE  PartedAt(w, x, e)
<1> DEFINE t == <<Stop>> \o e
<1>1. <<Stop>> \in Seq(Nat) /\ Len(<<Stop>>) = 1 /\ <<Stop>>[1] = Stop
  BY PoolAssumption
<1>2. t \in Seq(Nat) /\ Len(t) = 1 + Len(e) /\ t[1] = Stop /\ \A i \in 1 .. Len(e) : t[1 + i] = e[i]
  BY <1>1, ConcatIs
<1>3. Len(x) \in Nat /\ Len(e) \in Nat
  OBVIOUS
<1> HIDE DEF t
<1>4. /\ Len(w) = Len(x) + Len(t) /\ \A i \in 1 .. Len(x) : w[i] = x[i]
      /\ \A i \in 1 .. Len(t) : w[Len(x) + i] = t[i]
  <2>1. w = x \o t
    BY DEF t
  <2>2. /\ Len(x \o t) = Len(x) + Len(t) /\ \A i \in 1 .. Len(x) : (x \o t)[i] = x[i]
        /\ \A i \in 1 .. Len(t) : (x \o t)[Len(x) + i] = t[i]
    <3>1. x \in Seq(Nat) /\ t \in Seq(Nat)
      BY <1>2
    <3> QED BY <3>1, ConcatIs, SMTT(30)
  <2> QED BY <2>1, <2>2, Zenon
<1>5. Len(w) = Len(x) + 1 + Len(e) /\ w[Len(x) + 1] = Stop
  BY <1>2, <1>3, <1>4
<1>6. ASSUME NEW i \in 1 .. Len(e) PROVE w[Len(x) + 1 + i] = e[i]
  <2>1. 1 + i \in 1 .. Len(t) /\ Len(x) + (1 + i) = Len(x) + 1 + i
    BY <1>2, <1>3
  <2> QED BY <1>2, <1>4, <2>1
<1>7. ASSUME NEW i \in 1 .. Len(w), i > Len(x) + 1 PROVE w[i] # Stop
  <2>1. PICK j \in 1 .. Len(e) : i = Len(x) + 1 + j
    <3>1. i - (Len(x) + 1) \in 1 .. Len(e) /\ i = Len(x) + 1 + (i - (Len(x) + 1))
      BY <1>3, <1>5, <1>7
    <3> QED BY <3>1
  <2> QED BY <1>6, <2>1 DEF Dotless
<1> QED BY <1>3, <1>4, <1>5, <1>6, <1>7 DEF PartedAt

LEMMA DotsCancel ==
    ASSUME NEW x \in Seq(Nat), NEW y \in Seq(Nat), NEW e \in Seq(Nat), NEW f \in Seq(Nat),
           Dotless(e), Dotless(f), x \o (<<Stop>> \o e) = y \o (<<Stop>> \o f)
    PROVE  x = y /\ e = f
<1>1. PICK w : w = x \o (<<Stop>> \o e) /\ w = y \o (<<Stop>> \o f)
  OBVIOUS
<1>2. PartedAt(w, x, e)
  <2>1. w = x \o (<<Stop>> \o e)
    BY <1>1
  <2> QED BY <2>1, DotAt, Zenon
<1>3. PartedAt(w, y, f)
  <2>1. w = y \o (<<Stop>> \o f)
    BY <1>1
  <2> QED BY <2>1, DotAt, Zenon
<1>4. Len(x) \in Nat /\ Len(y) \in Nat /\ Len(e) \in Nat /\ Len(f) \in Nat
  OBVIOUS
<1>5. ~(Len(x) < Len(y)) /\ ~(Len(y) < Len(x))
  BY <1>2, <1>3, <1>4 DEF PartedAt
<1>6. Len(x) = Len(y) /\ Len(e) = Len(f)
  BY <1>2, <1>3, <1>4, <1>5 DEF PartedAt
<1>7. x = y
  BY <1>2, <1>3, <1>6, SeqEqual DEF PartedAt
<1>8. e = f
  BY <1>2, <1>3, <1>6, SeqEqual DEF PartedAt
<1> QED BY <1>7, <1>8
-----------------------------------------------------------------------------
(***************************************************************************)
(* What a rule makes of a name.                                            *)
(***************************************************************************)
NamesOf(rule) == [text : Seq(DOMAIN rule.spay), file : BOOLEAN]

Dot(name) == SelectLastInSeq(name.text, LAMBDA c : c = Stop)

\* What a rule makes of characters.
Clean == Nat \ {Semi}

LEMMA CleanSeq == \A s \in Seq(Clean) : s \in Seq(Nat)
BY DEF Clean

LEMMA DotIn ==
    ASSUME NEW S, NEW name, name.text \in Seq(S)
    PROVE  Dot(name) \in 0 .. Len(name.text) /\ \A i \in 1 .. Len(name.text) : i > Dot(name) => name.text[i] # Stop
<1> DEFINE I == {i \in 1 .. Len(name.text) : name.text[i] = Stop}
<1>1. Dot(name) = IF I # {} THEN Max(I) ELSE 0
  BY DEF Dot, SelectLastInSeq
<1>2. Len(name.text) \in Nat
  OBVIOUS
<1>3. I \in SUBSET Nat /\ \A x \in I : x =< Len(name.text)
  BY <1>2
<1>4. I # {} => Max(I) \in I /\ \A i \in I : i <= Max(I)
  <2> HIDE DEF I
  <2> QED BY <1>2, <1>3, MaxOf
<1>5. Dot(name) \in 0 .. Len(name.text)
  BY <1>1, <1>2, <1>4
<1>6. ASSUME NEW i \in 1 .. Len(name.text), i > Dot(name), name.text[i] = Stop PROVE FALSE
  <2>1. i \in I
    BY <1>6
  <2>2. i <= Dot(name)
    <3> HIDE DEF I
    <3> QED BY <1>1, <1>4, <2>1
  <2> QED BY <1>2, <1>5, <1>6, <2>2
<1> QED BY <1>5, <1>6

LEMMA CutIs == ASSUME NEW S, NEW text \in Seq(S), NEW n \in 0 .. Len(text)
               PROVE  SubSeq(text, 1, n) \in Seq(S) /\ Len(SubSeq(text, 1, n)) = n
<1>1. \A i \in 1 .. n : text[i] \in S
  OBVIOUS
<1>2. n \in Int /\ n >= 0 /\ 1 \in Int
  OBVIOUS
<1>3. SubSeq(text, 1, n) \in Seq(S)
  BY <1>1, <1>2, SubSeqProperties
<1>4. Len(SubSeq(text, 1, n)) = IF 1 <= n THEN n - 1 + 1 ELSE 0
  BY <1>1, <1>2, SubSeqProperties
<1> QED BY <1>2, <1>3, <1>4

LEMMA LinkIs ==
    ASSUME NEW rule, IsRule(rule), NEW name \in NamesOf(rule)
    PROVE  LET uniq == Translit(name, rule) IN
           /\ uniq.link \in Seq(DOMAIN rule.spay) /\ Len(uniq.link) <= Len(name.text)
           /\ uniq.link = name.text \/ (name.file /\ uniq.link = Correlated(name))
           /\ ~name.file => uniq.link = name.text
           /\ uniq.file = name.file
           /\ uniq.tran \in Seq(Clean) /\ uniq.tran \in Seq(Nat) /\ Len(uniq.tran) = Len(name.text)
           /\ \A i \in Len(uniq.link) + 2 .. Len(uniq.tran) : uniq.tran[i] # Stop
<1> DEFINE text == name.text
           S == DOMAIN rule.spay
           at == DotPos(name, rule)
<1>1. text \in Seq(S) /\ Len(text) \in Nat /\ name.file \in BOOLEAN /\ DOMAIN text = 1 .. Len(text)
  BY DEF NamesOf
<1>2. Dot(name) \in 0 .. Len(text) /\ \A i \in 1 .. Len(text) : i > Dot(name) => text[i] # Stop
  BY <1>1, DotIn
<1>3. at = Len(text) \/ (name.file /\ Dot(name) # 0 /\ at = Dot(name) - 1)
  BY DEF DotPos, Dot
<1>4. ~name.file => at = Len(text)
  BY DEF DotPos
<1>5. Translit(name, rule).link = SubSeq(text, 1, at) /\ Translit(name, rule).file = name.file
  BY DEF Translit
<1>6. Translit(name, rule).tran = [i \in 1 .. Len(text) |-> rule.spay[text[i]]]
  BY <1>1 DEF Translit
<1>7. SubSeq(text, 1, Len(text)) = text
  BY <1>1, SubSeqFull
<1>8. name.file /\ Dot(name) # 0 => Correlated(name) = SubSeq(text, 1, Dot(name) - 1)
  BY DEF Correlated, Dot
<1>9. at \in 0 .. Len(text)
  BY <1>1, <1>2, <1>3
<1> HIDE DEF at
<1>10. /\ SubSeq(text, 1, at) \in Seq(S) /\ Len(SubSeq(text, 1, at)) <= Len(text)
       /\ Len(SubSeq(text, 1, at)) = at
  <2> HIDE DEF text, S
  <2>1. SubSeq(text, 1, at) \in Seq(S) /\ Len(SubSeq(text, 1, at)) = at
    BY <1>1, <1>9, CutIs
  <2> QED BY <2>1, <1>1, <1>9
<1> DEFINE tran == Translit(name, rule).tran
<1>11. /\ tran \in Seq(Clean) /\ tran \in Seq(Nat) /\ Len(tran) = Len(text)
       /\ \A i \in 1 .. Len(text) : tran[i] = rule.spay[text[i]]
  <2>1. \A i \in 1 .. Len(text) : rule.spay[text[i]] \in Nat /\ rule.spay[text[i]] \in Clean
    BY <1>1 DEF IsRule, Clean
  <2> QED BY <1>1, <1>6, <2>1
<1> HIDE DEF tran
<1>12. ASSUME NEW i \in at + 2 .. Len(tran) PROVE tran[i] # Stop
  <2>1. i \in 1 .. Len(text) /\ i > at + 1 /\ Len(text) > at
    BY <1>1, <1>9, <1>11
  <2>2. i > Dot(name)
    BY <1>1, <1>2, <1>3, <1>9, <2>1
  <2>3. text[i] # Stop /\ text[i] \in S
    BY <1>1, <1>2, <2>1, <2>2
  <2> QED BY <1>11, <2>1, <2>3 DEF IsRule
<1> QED BY <1>1, <1>3, <1>4, <1>5, <1>7, <1>8, <1>10, <1>11, <1>12 DEF tran

\* Segments one behind the other.
LEMMA Paired ==
    /\ \A a, b : <<a>> \o <<b>> = <<a, b>>
    /\ \A a, b, c : <<a, b>> \o <<c>> = <<a, b, c>>
<1>1. ASSUME NEW a, NEW b PROVE <<a>> \o <<b>> = <<a, b>>
  <2> DEFINE S == {a, b}
  <2>1. /\ <<a>> \in Seq(S) /\ <<b>> \in Seq(S) /\ Len(<<a>>) = 1 /\ Len(<<b>>) = 1
        /\ <<a>>[1] = a /\ <<b>>[1] = b
    OBVIOUS
  <2>2. <<a, b>> \in Seq(S) /\ Len(<<a, b>>) = 2 /\ <<a, b>>[1] = a /\ <<a, b>>[2] = b
    OBVIOUS
  <2> HIDE DEF S
  <2>3. PICK x, y, v, w : x = <<a>> /\ y = <<b>> /\ v = x \o y /\ w = <<a, b>>
    OBVIOUS
  <2>4. /\ x \in Seq(S) /\ y \in Seq(S) /\ w \in Seq(S) /\ Len(x) = 1 /\ Len(y) = 1 /\ Len(w) = 2
        /\ x[1] = w[1] /\ y[1] = w[2]
    BY <2>1, <2>2, <2>3, Zenon
  <2>5. v \in Seq(S) /\ Len(v) = 2 /\ v[1] = x[1] /\ v[1 + 1] = y[1]
    <3>1. 1 \in 1 .. Len(x) /\ 1 \in 1 .. Len(y)
      BY <2>4
    <3> QED BY <2>3, <2>4, <3>1, ConcatIs
  <2>6. \A i \in 1 .. Len(v) : v[i] = w[i]
    BY <2>4, <2>5
  <2>7. v = w
    BY <2>4, <2>5, <2>6, SeqEqual
  <2> QED BY <2>3, <2>7
<1>2. ASSUME NEW a, NEW b, NEW c PROVE <<a, b>> \o <<c>> = <<a, b, c>>
  <2> DEFINE S == {a, b, c}
  <2>1. /\ <<a, b>> \in Seq(S) /\ <<c>> \in Seq(S) /\ Len(<<a, b>>) = 2 /\ Len(<<c>>) = 1
        /\ <<a, b>>[1] = a /\ <<a, b>>[2] = b /\ <<c>>[1] = c
    OBVIOUS
  <2>2. /\ <<a, b, c>> \in Seq(S) /\ Len(<<a, b, c>>) = 3
        /\ <<a, b, c>>[1] = a /\ <<a, b, c>>[2] = b /\ <<a, b, c>>[3] = c
    OBVIOUS
  <2> HIDE DEF S
  <2>3. PICK x, y, v, w : x = <<a, b>> /\ y = <<c>> /\ v = x \o y /\ w = <<a, b, c>>
    OBVIOUS
  <2>4. /\ x \in Seq(S) /\ y \in Seq(S) /\ w \in Seq(S) /\ Len(x) = 2 /\ Len(y) = 1 /\ Len(w) = 3
        /\ x[1] = w[1] /\ x[2] = w[2] /\ y[1] = w[3]
    BY <2>1, <2>2, <2>3, Zenon
  <2>5. v \in Seq(S) /\ Len(v) = 3 /\ v[1] = x[1] /\ v[2] = x[2] /\ v[2 + 1] = y[1]
    <3>1. 1 \in 1 .. Len(x) /\ 2 \in 1 .. Len(x) /\ 1 \in 1 .. Len(y)
      BY <2>4
    <3> QED BY <2>3, <2>4, <3>1, ConcatIs
  <2>6. \A i \in 1 .. Len(v) : v[i] = w[i]
    BY <2>4, <2>5
  <2>7. v = w
    BY <2>4, <2>5, <2>6, SeqEqual
  <2> QED BY <2>3, <2>7
<1> QED BY <1>1, <1>2

LEMMA Glued ==
    /\ \A a : (<<a>> \o <<>>) \o <<>> = <<a>>
    /\ \A a, b : (<<a>> \o <<>>) \o <<b>> = <<a, b>>
    /\ \A a, b, c : (<<a>> \o <<b>>) \o <<c>> = <<a, b, c>>
<1>1. ASSUME NEW a PROVE (<<a>> \o <<>>) \o <<>> = <<a>>
  OBVIOUS
<1>2. ASSUME NEW a, NEW b PROVE (<<a>> \o <<>>) \o <<b>> = <<a, b>>
  <2>1. <<a>> \o <<>> = <<a>>
    OBVIOUS
  <2>2. <<a>> \o <<b>> = <<a, b>>
    BY Paired
  <2> QED BY <2>1, <2>2, Zenon
<1>3. ASSUME NEW a, NEW b, NEW c PROVE (<<a>> \o <<b>>) \o <<c>> = <<a, b, c>>
  <2>1. <<a>> \o <<b>> = <<a, b>> /\ <<a, b>> \o <<c>> = <<a, b, c>>
    BY Paired
  <2> QED BY <2>1, Zenon
<1> QED BY <1>1, <1>2, <1>3

LEMMA DecorateShape ==
    ASSUME NEW rule, IsRule(rule), rule.version # <<>>, NEW name \in NamesOf(rule), NEW conv
    PROVE  LET fitted == Decorate(Translit(name, rule), rule, conv)
               mark == <<Semi>> \o rule.version IN
           /\ ~name.file => fitted = <<conv>>
           /\ name.file => \/ fitted = <<conv, mark>>
                           \/ \E ext \in Seq(Nat) : Dotless(ext) /\ fitted = <<conv, <<Stop>> \o ext, mark>>
<1> DEFINE u == Translit(name, rule)
           ext == SubSeq(u.tran, Len(u.link) + 2, Len(u.tran))
           mark == <<Semi>> \o rule.version
           addDot == Len(u.tran) > Len(u.link) \/ (rule.forceDot /\ u.file)
           mid == IF addDot THEN <<<<Stop>> \o ext>> ELSE <<>>
           last == IF u.file /\ rule.version # <<>> THEN <<mark>> ELSE <<>>
<1>1. Decorate(u, rule, conv) = (<<conv>> \o mid) \o last
  BY DEF Decorate
<1>2. /\ u.link \in Seq(DOMAIN rule.spay) /\ u.tran \in Seq(Nat) /\ u.file = name.file
      /\ Len(u.tran) = Len(name.text) /\ (~name.file => u.link = name.text)
      /\ \A i \in Len(u.link) + 2 .. Len(u.tran) : u.tran[i] # Stop
  BY LinkIs
<1> HIDE DEF u
<1>3. Len(u.link) \in Nat /\ Len(u.tran) \in Nat
  BY <1>2
<1>4. ext \in Seq(Nat) /\ Dotless(ext)
  <2>1. \A i \in Len(u.link) + 2 .. Len(u.tran) : u.tran[i] \in Nat
    BY <1>2, <1>3
  <2>2. ext \in Seq(Nat)
    BY <2>1, <1>3, SubSeqProperties
  <2>3. ASSUME NEW i \in 1 .. Len(ext) PROVE ext[i] # Stop
    <3>1. Len(u.link) + 2 <= Len(u.tran) /\ Len(ext) = Len(u.tran) - (Len(u.link) + 2) + 1
      <4> DEFINE m == Len(u.link) + 2
                 n == Len(u.tran)
      <4>1. m \in Int /\ n \in Int /\ (\A j \in m .. n : u.tran[j] \in Nat) /\ ext = SubSeq(u.tran, m, n)
        BY <2>1, <1>3
      <4> HIDE DEF m, n, ext
      <4>2. Len(ext) = IF m <= n THEN n - m + 1 ELSE 0
        BY <4>1, SubSeqProperties
      <4>3. Len(ext) # 0
        BY <4>1, <4>2, <2>3
      <4> QED BY <4>1, <4>2, <4>3 DEF m, n
    <3>2. ext[i] = u.tran[(Len(u.link) + 2) + i - 1]
      BY <2>1, <1>3, <3>1, SubSeqProperties
    <3>3. (Len(u.link) + 2) + i - 1 \in Len(u.link) + 2 .. Len(u.tran)
      BY <1>3, <3>1
    <3> QED BY <1>2, <3>2, <3>3
  <2> QED BY <2>2, <2>3 DEF Dotless
<1> HIDE DEF ext, mark
<1>5. name.file \in BOOLEAN
  BY DEF NamesOf
<1>6. CASE ~name.file
  <2>1. ~addDot /\ ~u.file
    BY <1>2, <1>3, <1>6
  <2>2. (<<conv>> \o mid) \o last = <<conv>>
    BY <2>1, Glued
  <2> QED BY <1>1, <1>6, <2>2 DEF u
<1>7. CASE name.file
  <2>1. last = <<mark>>
    BY <1>2, <1>7
  <2>2. CASE addDot
    <3>1. mid = <<<<Stop>> \o ext>>
      BY <2>2
    <3> HIDE DEF mid, last
    <3>2. (<<conv>> \o mid) \o last = <<conv, <<Stop>> \o ext, mark>>
      BY <2>1, <3>1, Glued, Zenon
    <3> QED BY <1>1, <1>4, <1>7, <3>2 DEF u, mark, mid, last
  <2>3. CASE ~addDot
    <3>1. mid = <<>>
      BY <2>3
    <3> HIDE DEF mid, last
    <3>2. (<<conv>> \o mid) \o last = <<conv, mark>>
      BY <2>1, <3>1, Glued, Zenon
    <3> QED BY <1>1, <1>7, <3>2 DEF u, mark, mid, last
  <2> QED BY <2>2, <2>3
<1> QED BY <1>5, <1>6, <1>7

LEMMA DecorateIs ==
    ASSUME NEW rule, IsRule(rule), rule.version # <<>>, NEW name \in NamesOf(rule), NEW conv
    PROVE  LET fitted == Decorate(Translit(name, rule), rule, conv) IN
           /\ fitted[1] = conv
           /\ IF name.file THEN Len(fitted) > 1 ELSE fitted = <<conv>>
<1> DEFINE fitted == Decorate(Translit(name, rule), rule, conv)
           mark == <<Semi>> \o rule.version
<1>1. /\ ~name.file => fitted = <<conv>>
      /\ name.file => \/ fitted = <<conv, mark>>
                      \/ \E ext \in Seq(Nat) : fitted = <<conv, <<Stop>> \o ext, mark>>
  BY DecorateShape
<1> HIDE DEF fitted, mark
<1>2. fitted[1] = conv
  BY <1>1
<1>3. name.file => Len(fitted) > 1
  <2>1. \A x, y, z : Len(<<x, y>>) = 2 /\ Len(<<x, y, z>>) = 3
    OBVIOUS
  <2>2. name.file => Len(fitted) = 2 \/ Len(fitted) = 3
    BY <1>1, <2>1, Zenon
  <2> QED BY <2>2
<1> QED BY <1>1, <1>2, <1>3 DEF fitted
-----------------------------------------------------------------------------
(***************************************************************************)
(* Digits and what they are mixed into are numbers.                        *)
(***************************************************************************)
IsLeft(left, n, m) == left = [i \in 0 .. m |-> IF i = 0 THEN n ELSE left[i-1] \div Radix]

LEMMA LeftExists == ASSUME NEW n \in Nat PROVE \E left : IsLeft(left, n, n)
<1> DEFINE T == {m \in Nat : \E left : IsLeft(left, n, m)}
<1>1. 0 \in T
  <2> DEFINE f == [i \in 0 .. 0 |-> n]
  <2>1. IsLeft(f, n, 0)
    BY DEF IsLeft
  <2> QED BY <2>1
<1>2. ASSUME NEW m \in T PROVE m + 1 \in T
  <2>1. PICK f : IsLeft(f, n, m)
    BY <1>2
  <2> DEFINE g == [i \in 0 .. m + 1 |-> IF i = m + 1 THEN f[m] \div Radix ELSE f[i]]
  <2>2. ASSUME NEW i \in 0 .. m + 1 PROVE g[i] = IF i = 0 THEN n ELSE g[i-1] \div Radix
    <3>1. CASE i = m + 1
      <4>1. i # 0 /\ i - 1 = m /\ m \in 0 .. m + 1 /\ m # m + 1
        BY <3>1
      <4>2. g[m] = f[m] /\ g[i] = f[m] \div Radix
        BY <3>1, <4>1
      <4> QED BY <4>1, <4>2
    <3>2. CASE i # m + 1
      <4>1. i \in 0 .. m /\ g[i] = f[i]
        BY <3>2
      <4>2. f[i] = IF i = 0 THEN n ELSE f[i-1] \div Radix
        BY <2>1, <4>1 DEF IsLeft
      <4>3. i # 0 => i - 1 \in 0 .. m + 1 /\ i - 1 # m + 1
        BY <4>1
      <4>4. i # 0 => g[i-1] = f[i-1]
        BY <4>3
      <4> QED BY <4>1, <4>2, <4>4
    <3> QED BY <3>1, <3>2
  <2>3. g = [i \in 0 .. m + 1 |-> IF i = 0 THEN n ELSE g[i-1] \div Radix]
    BY <2>2
  <2>4. m + 1 \in Nat
    OBVIOUS
  <2> HIDE DEF g
  <2>5. IsLeft(g, n, m + 1)
    BY <2>3 DEF IsLeft
  <2> QED BY <2>4, <2>5
<1>3. T = Nat
  <2>1. T \in SUBSET Nat
    OBVIOUS
  <2> HIDE DEF T
  <2> QED BY <2>1, <1>1, <1>2, NatSetInduction
<1> QED BY <1>3

LEMMA LeftNat ==
    ASSUME NEW n \in Nat, NEW left, IsLeft(left, n, n)
    PROVE  \A i \in 0 .. n : left[i] \in Nat
<1> DEFINE T == {m \in Nat : m <= n => left[m] \in Nat}
<1>1. 0 \in T
  BY DEF IsLeft
<1>2. ASSUME NEW m \in T PROVE m + 1 \in T
  <2> SUFFICES ASSUME m + 1 <= n PROVE left[m + 1] \in Nat
    OBVIOUS
  <2>1. left[m] \in Nat /\ m + 1 \in 0 .. n /\ m + 1 # 0 /\ (m + 1) - 1 = m
    BY <1>2
  <2>2. left[m + 1] = left[m] \div Radix
    BY <2>1 DEF IsLeft
  <2> QED BY <2>1, <2>2, PoolAssumption
<1>3. T = Nat
  <2>1. T \in SUBSET Nat
    OBVIOUS
  <2> HIDE DEF T
  <2> QED BY <2>1, <1>1, <1>2, NatSetInduction
<1> QED BY <1>3

LEMMA DigitsSeq == ASSUME NEW n \in Nat PROVE Digits(n) \in Seq(Clean)
<1> DEFINE left == CHOOSE left : left = [i \in 0 .. n |-> IF i = 0 THEN n ELSE left[i-1] \div Radix]
           I == {i \in 0 .. n : left[i] # 0}
           count == Cardinality(I)
<1>1. IsLeft(left, n, n)
  BY LeftExists DEF IsLeft
<1>2. Digits(n) = [k \in 1 .. count |-> left[count - k] % Radix]
  BY DEF Digits
<1>3. count \in Nat /\ count <= n + 1
  <2>1. IsFiniteSet(0 .. n) /\ Cardinality(0 .. n) = n + 1
    BY FS_Interval
  <2>2. I \in SUBSET (0 .. n)
    OBVIOUS
  <2> HIDE DEF I
  <2>3. IsFiniteSet(I) /\ count <= n + 1
    BY <2>1, <2>2, FS_Subset
  <2> QED BY <2>3, FS_CardinalityType
<1> HIDE DEF left, count
<1>4. \A k \in 1 .. count : left[count - k] % Radix \in Clean
  <2> SUFFICES ASSUME NEW k \in 1 .. count PROVE left[count - k] % Radix \in Clean
    OBVIOUS
  <2>1. count - k \in 0 .. n
    BY <1>3
  <2>2. left[count - k] \in Nat
    BY <1>1, <2>1, LeftNat
  <2> DEFINE digit == left[count - k] % Radix
  <2>3. digit \in Nat /\ digit < Radix
    BY <2>2, PoolAssumption
  <2> HIDE DEF digit
  <2>4. digit \in Clean
    BY <2>3, PoolAssumption DEF Clean
  <2> QED BY <2>4 DEF digit
<1>5. [k \in 1 .. count |-> left[count - k] % Radix] \in Seq(Clean)
  BY <1>3, <1>4
<1> QED BY <1>2, <1>5

LEMMA MixedSeq ==
    ASSUME NEW rule, IsRule(rule), NEW name \in NamesOf(rule), NEW variant \in Nat
    PROVE  MixInVar(Translit(name, rule), rule, variant) \in Seq(Clean)
<1> DEFINE u == Translit(name, rule)
           room == Minus(rule.base, Len(Digits(variant)))
           size == Len(u.link)
           n == IF size < room THEN size ELSE room
<1>1. u.link \in Seq(DOMAIN rule.spay) /\ u.tran \in Seq(Clean)
      /\ Len(u.link) <= Len(name.text) /\ Len(u.tran) = Len(name.text)
  BY LinkIs
<1>2. Digits(variant) \in Seq(Clean)
  BY DigitsSeq
<1>3. room \in Nat
  <2>1. rule.base \in Nat /\ Len(Digits(variant)) \in Nat
    BY <1>2 DEF IsRule
  <2>2. \A a, b \in Nat : (a + SizeMod - b) % SizeMod \in Nat
    BY PoolAssumption
  <2> QED BY <2>1, <2>2 DEF Minus
<1>4. size \in Nat /\ size <= Len(u.tran) /\ Len(u.tran) \in Nat
  BY <1>1
<1>5. MixInVar(u, rule, variant) = SubSeq(u.tran, 1, n) \o Digits(variant)
  BY DEF MixInVar
<1>6. n \in 0 .. Len(u.tran)
  <2> HIDE DEF room, size, u
  <2> QED BY <1>3, <1>4
<1> HIDE DEF n, u
<1>7. SubSeq(u.tran, 1, n) \in Seq(Clean)
  BY <1>1, <1>6, CutIs
<1>8. SubSeq(u.tran, 1, n) \o Digits(variant) \in Seq(Clean)
  BY <1>2, <1>7, ConcatProperties
<1> QED BY <1>5, <1>8 DEF u
-----------------------------------------------------------------------------
(***************************************************************************)
(* The pool: every name fitted is made of a text of its own, and that text *)
(* is linked to where the name is cut.                                     *)
(***************************************************************************)
PoolInv(rule) ==
    /\ attempt \in Nat
    /\ DOMAIN convToLink \subseteq Seq(Clean)
    /\ \A link \in DOMAIN linkToConv : link # <<>> =>
          linkToConv[link] \in DOMAIN convToLink /\ convToLink[linkToConv[link]] = link
    /\ DOMAIN fit \subseteq NamesOf(rule)
    /\ \A n \in DOMAIN fit : \E conv \in DOMAIN convToLink :
          fit[n] = Decorate(Translit(n, rule), rule, conv) /\ convToLink[conv] = Translit(n, rule).link
    /\ \A a, b \in DOMAIN fit : a # b /\ fit[a] = fit[b] => Translit(a, rule).link # <<>>

LEMMA NewPoolInv == NewPool => \A rule : PoolInv(rule)'
BY DEF NewPool, PoolInv

LEMMA VariantsNat == \A n \in Nat : Variants(n) \subseteq Nat
<1> SUFFICES ASSUME NEW n \in Nat PROVE Variants(n) \subseteq Nat
  OBVIOUS
<1>1. n * n \in Nat
  OBVIOUS
<1>2. n + n * n - 1 \in Int
  BY <1>1
<1> QED BY <1>1, <1>2 DEF Variants

LEMMA ExistingPoolInv ==
    ASSUME NEW rule, IsRule(rule), rule.version # <<>>, NEW name \in NamesOf(rule),
           PoolInv(rule), TryExisting(name, rule)
    PROVE  PoolInv(rule)' /\ DOMAIN fit' = DOMAIN fit \cup {name}
<1> DEFINE u == Translit(name, rule)
           conv == linkToConv[u.link]
<1>1. /\ u.link # <<>> /\ conv \in DOMAIN convToLink /\ convToLink[conv] = u.link
      /\ fit' = With(fit, name, Decorate(u, rule, conv))
      /\ UNCHANGED <<convToLink, linkToConv, attempt>>
  BY DEF TryExisting, Existing, PoolInv
<1>2. DOMAIN fit' = DOMAIN fit \cup {name}
      /\ \A n \in DOMAIN fit' : fit'[n] = IF n = name THEN Decorate(u, rule, conv) ELSE fit[n]
  BY <1>1 DEF With
<1>3. \A n \in DOMAIN fit' : \E c \in DOMAIN convToLink :
          fit'[n] = Decorate(Translit(n, rule), rule, c) /\ convToLink[c] = Translit(n, rule).link
  BY <1>1, <1>2 DEF PoolInv
<1>4. ASSUME NEW a \in DOMAIN fit', NEW b \in DOMAIN fit', a # b, fit'[a] = fit'[b]
      PROVE  Translit(a, rule).link # <<>>
  <2>1. CASE a = name
    BY <1>1, <2>1
  <2>2. CASE b = name
    <3>1. PICK c \in DOMAIN convToLink :
             fit'[a] = Decorate(Translit(a, rule), rule, c) /\ convToLink[c] = Translit(a, rule).link
      BY <1>3
    <3>2. a \in NamesOf(rule) /\ c \in Seq(Clean) /\ conv \in Seq(Clean)
      BY <1>1, <1>2 DEF PoolInv
    <3>3. fit'[a][1] = c /\ fit'[b][1] = conv
      BY <1>1, <1>2, <2>2, <3>1, <3>2, DecorateIs
    <3> QED BY <1>1, <1>4, <3>1, <3>3
  <2>3. CASE a # name /\ b # name
    BY <1>2, <1>4, <2>3 DEF PoolInv
  <2> QED BY <2>1, <2>2, <2>3
<1> QED BY <1>1, <1>2, <1>3, <1>4 DEF PoolInv

LEMMA BrandNewPoolInv ==
    ASSUME NEW rule, IsRule(rule), rule.version # <<>>, NEW name \in NamesOf(rule),
           PoolInv(rule), TryBrandNew(name, rule)
    PROVE  PoolInv(rule)' /\ (fit' = fit \/ DOMAIN fit' = DOMAIN fit \cup {name})
<1> DEFINE u == Translit(name, rule)
<1>1. PICK variant \in Variants(attempt) :
         LET conv == MixInVar(u, rule, variant)
         IN  IF conv \in DOMAIN convToLink
             THEN attempt' = attempt + 1 /\ UNCHANGED <<convToLink, linkToConv, fit>>
             ELSE /\ convToLink' = With(convToLink, conv, u.link)
                  /\ linkToConv' = With(linkToConv, u.link, conv)
                  /\ fit' = With(fit, name, Decorate(u, rule, conv))
                  /\ attempt' = 0
  BY DEF TryBrandNew
<1> DEFINE conv == MixInVar(u, rule, variant)
<1>2. variant \in Nat
  BY VariantsNat DEF PoolInv
<1>3. conv \in Seq(Clean)
  BY <1>2, MixedSeq
<1>4. ~Existing(u)
  BY DEF TryBrandNew
<1> HIDE DEF conv
<1>5. CASE conv \in DOMAIN convToLink
  <2>1. attempt' = attempt + 1 /\ UNCHANGED <<convToLink, linkToConv, fit>>
    BY <1>1, <1>5 DEF conv
  <2> QED BY <2>1 DEF PoolInv
<1>6. CASE conv \notin DOMAIN convToLink
  <2>1. /\ convToLink' = With(convToLink, conv, u.link)
        /\ linkToConv' = With(linkToConv, u.link, conv)
        /\ fit' = With(fit, name, Decorate(u, rule, conv))
        /\ attempt' = 0
    BY <1>1, <1>6 DEF conv
  <2> HIDE DEF u
  <2>2. /\ DOMAIN convToLink' = DOMAIN convToLink \cup {conv} /\ convToLink'[conv] = u.link
        /\ \A c \in DOMAIN convToLink : convToLink'[c] = convToLink[c]
    BY <2>1, <1>6 DEF With
  <2>3. /\ DOMAIN linkToConv' = DOMAIN linkToConv \cup {u.link} /\ linkToConv'[u.link] = conv
        /\ \A l \in DOMAIN linkToConv : l # u.link => linkToConv'[l] = linkToConv[l]
    BY <2>1 DEF With
  <2>4. /\ DOMAIN fit' = DOMAIN fit \cup {name} /\ fit'[name] = Decorate(u, rule, conv)
        /\ \A n \in DOMAIN fit : n # name => fit'[n] = fit[n]
    BY <2>1 DEF With
  <2>5. DOMAIN convToLink' \subseteq Seq(Clean) /\ attempt' \in Nat
    BY <1>3, <2>1, <2>2 DEF PoolInv
  <2>6. ASSUME NEW link \in DOMAIN linkToConv', link # <<>>
        PROVE  linkToConv'[link] \in DOMAIN convToLink' /\ convToLink'[linkToConv'[link]] = link
    BY <2>2, <2>3, <2>6 DEF PoolInv
  <2>7. DOMAIN fit' \subseteq NamesOf(rule)
    BY <2>4 DEF PoolInv
  <2>8. ASSUME NEW n \in DOMAIN fit'
        PROVE  \E c \in DOMAIN convToLink' :
                  /\ fit'[n] = Decorate(Translit(n, rule), rule, c)
                  /\ convToLink'[c] = Translit(n, rule).link
                  /\ n # name => c \in DOMAIN convToLink /\ fit'[n] = fit[n] /\ n \in DOMAIN fit
    <3>1. CASE n = name
      BY <2>2, <2>4, <3>1 DEF u
    <3>2. CASE n # name
      <4>1. n \in DOMAIN fit /\ fit'[n] = fit[n]
        BY <2>4, <3>2
      <4>2. PICK c \in DOMAIN convToLink :
               fit[n] = Decorate(Translit(n, rule), rule, c) /\ convToLink[c] = Translit(n, rule).link
        BY <4>1 DEF PoolInv
      <4> QED BY <2>2, <4>1, <4>2
    <3> QED BY <3>1, <3>2
  <2>9. ASSUME NEW a \in DOMAIN fit', a # name PROVE fit'[a] # fit'[name]
    <3>1. PICK c \in DOMAIN convToLink' :
             fit'[a] = Decorate(Translit(a, rule), rule, c) /\ c \in DOMAIN convToLink
      BY <2>8, <2>9
    <3>2. c # conv /\ c \in Seq(Clean) /\ a \in NamesOf(rule)
      BY <1>6, <2>5, <2>7, <3>1
    <3>3. fit'[a][1] = c
      BY <3>1, <3>2, DecorateIs
    <3>4. fit'[name][1] = conv
      BY <1>3, <2>4, DecorateIs DEF u
    <3> QED BY <3>2, <3>3, <3>4
  <2>10. ASSUME NEW a \in DOMAIN fit', NEW b \in DOMAIN fit', a # b, fit'[a] = fit'[b]
         PROVE  Translit(a, rule).link # <<>>
    <3>1. a # name /\ b # name
      BY <2>9, <2>10
    <3> QED BY <2>4, <2>10, <3>1 DEF PoolInv
  <2> QED BY <2>4, <2>5, <2>6, <2>7, <2>8, <2>10 DEF PoolInv
<1> QED BY <1>5, <1>6

\* Names that come out alike are cut to the same text.
LEMMA PoolApart ==
    ASSUME NEW rule, IsRule(rule), rule.version # <<>>, PoolInv(rule),
           NEW a \in DOMAIN fit, NEW b \in DOMAIN fit, a # b, fit[a] = fit[b]
    PROVE  a.file /\ b.file /\ Stems(a) \cap Stems(b) # {}
<1> DEFINE link == Translit(a, rule).link
<1>1. a \in NamesOf(rule) /\ b \in NamesOf(rule)
  BY DEF PoolInv
<1>2. PICK c \in DOMAIN convToLink :
         fit[a] = Decorate(Translit(a, rule), rule, c) /\ convToLink[c] = Translit(a, rule).link
  BY DEF PoolInv
<1>3. PICK d \in DOMAIN convToLink :
         fit[b] = Decorate(Translit(b, rule), rule, d) /\ convToLink[d] = Translit(b, rule).link
  BY DEF PoolInv
<1>4. c \in Seq(Clean) /\ d \in Seq(Clean)
  BY DEF PoolInv
<1>5. c = d
  <2>1. fit[a][1] = c
    BY <1>1, <1>2, <1>4, DecorateIs
  <2>2. fit[b][1] = d
    BY <1>1, <1>3, <1>4, DecorateIs
  <2> QED BY <2>1, <2>2
<1>6. link = Translit(b, rule).link /\ link # <<>>
  BY <1>2, <1>3, <1>5 DEF PoolInv
<1>7. a.file <=> b.file
  <2>1. a.file => Len(fit[a]) > 1
    BY <1>1, <1>2, <1>4, DecorateIs
  <2>2. ~a.file => fit[a] = <<c>>
    BY <1>1, <1>2, <1>4, DecorateIs
  <2>3. b.file => Len(fit[b]) > 1
    BY <1>1, <1>3, <1>4, DecorateIs
  <2>4. ~b.file => fit[b] = <<d>>
    BY <1>1, <1>3, <1>4, DecorateIs
  <2>5. Len(<<c>>) = 1 /\ Len(<<d>>) = 1 /\ ~(1 > 1)
    OBVIOUS
  <2>6. a.file \in BOOLEAN /\ b.file \in BOOLEAN
    BY <1>1 DEF NamesOf
  <2>7. CASE a.file /\ ~b.file
    BY <2>1, <2>4, <2>5, <2>7
  <2>8. CASE ~a.file /\ b.file
    BY <2>2, <2>3, <2>5, <2>8
  <2> QED BY <2>6, <2>7, <2>8
<1>8. a.file
  <2> SUFFICES ASSUME ~a.file PROVE FALSE
    OBVIOUS
  <2>1. a.text = b.text
    BY <1>1, <1>6, <1>7, LinkIs
  <2>2. a = [text |-> a.text, file |-> a.file] /\ b = [text |-> b.text, file |-> b.file]
        /\ a.file \in BOOLEAN /\ b.file \in BOOLEAN
    BY <1>1 DEF NamesOf
  <2> QED BY <1>7, <2>1, <2>2
<1>9. link \in Stems(a)
  <2>1. link = a.text \/ link = Correlated(a)
    BY <1>1, LinkIs
  <2> QED BY <1>6, <2>1 DEF Stems
<1>10. link \in Stems(b)
  <2>1. link = b.text \/ link = Correlated(b)
    BY <1>1, <1>6, LinkIs
  <2> QED BY <1>6, <2>1 DEF Stems
<1> QED BY <1>7, <1>8, <1>9, <1>10

\* Only a file has what is in front of a version.
LEMMA FileMarked ==
    ASSUME NEW x \in Seq(Nat), NEW version \in Seq(Nat)
    PROVE  x \o (<<Semi>> \o version) \notin Seq(Clean)
<1> DEFINE mark == <<Semi>> \o version
<1>1. mark \in Seq(Nat) /\ 1 \in 1 .. Len(mark) /\ mark[1] = Semi
  <2>1. <<Semi>> \in Seq(Nat) /\ Len(<<Semi>>) = 1 /\ <<Semi>>[1] = Semi
    BY PoolAssumption
  <2>2. Len(mark) = 1 + Len(version) /\ Len(version) \in Nat
    BY <2>1, ConcatIs
  <2> QED BY <2>1, <2>2, ConcatIs
<1> HIDE DEF mark
<1>2. Len(x) + 1 \in 1 .. Len(x \o mark) /\ (x \o mark)[Len(x) + 1] = Semi
  BY <1>1, ConcatIs
<1>3. \A w \in Seq(Clean) : \A i \in 1 .. Len(w) : w[i] # Semi
  BY DEF Clean
<1> QED BY <1>2, <1>3 DEF mark

\* Names that are written alike are those of files, and are cut to the same text
\* unless only one of them is cut.
LEMMA ConvApart ==
    ASSUME NEW rule, IsRule(rule), rule.version # <<>>, PoolInv(rule),
           NEW a \in DOMAIN fit, NEW b \in DOMAIN fit, a # b, Conv(fit[a]) = Conv(fit[b])
    PROVE  a.file /\ b.file /\ (Stems(a) \cap Stems(b) # {} \/ Len(fit[a]) # Len(fit[b]))
<1> DEFINE mark == <<Semi>> \o rule.version
           Plain(s, c) == s = <<c, mark>>
           Dotted(s, c) == \E ext \in Seq(Nat) : Dotless(ext) /\ s = <<c, <<Stop>> \o ext, mark>>
           Shown(s, x, e) == /\ Dotless(e) /\ s = <<x, <<Stop>> \o e, mark>>
                             /\ x \o (<<Stop>> \o e) \in Seq(Nat)
                             /\ Conv(s) = (x \o (<<Stop>> \o e)) \o mark
<1>1. a \in NamesOf(rule) /\ b \in NamesOf(rule) /\ a.file \in BOOLEAN /\ b.file \in BOOLEAN
  BY DEF PoolInv, NamesOf
<1>2. ASSUME NEW n \in DOMAIN fit
      PROVE  \E c \in Seq(Clean) : /\ ~n.file => fit[n] = <<c>>
                                   /\ n.file => Plain(fit[n], c) \/ Dotted(fit[n], c)
  <2>1. n \in NamesOf(rule)
    BY DEF PoolInv
  <2>2. PICK c \in DOMAIN convToLink : fit[n] = Decorate(Translit(n, rule), rule, c)
    BY DEF PoolInv
  <2>3. c \in Seq(Clean)
    BY DEF PoolInv
  <2> QED BY <2>1, <2>2, <2>3, DecorateShape
<1> HIDE DEF Plain, Dotted, Shown, mark
<1>3. PICK c \in Seq(Clean) : /\ ~a.file => fit[a] = <<c>>
                              /\ a.file => Plain(fit[a], c) \/ Dotted(fit[a], c)
  BY <1>2, Zenon
<1>4. PICK d \in Seq(Clean) : /\ ~b.file => fit[b] = <<d>>
                              /\ b.file => Plain(fit[b], d) \/ Dotted(fit[b], d)
  BY <1>2, Zenon
<1>5. c \in Seq(Nat) /\ d \in Seq(Nat) /\ rule.version \in Seq(Nat) /\ mark \in Seq(Nat)
  <2>1. <<Semi>> \in Seq(Nat)
    BY PoolAssumption
  <2>2. \A s \in Seq(Clean) : s \in Seq(Nat)
    BY DEF Clean
  <2>3. rule.version \in Seq(Nat)
    BY DEF IsRule
  <2> QED BY <2>1, <2>2, <2>3, ConcatIs DEF mark
<1>6. ASSUME NEW s, NEW x \in Seq(Nat), Plain(s, x)
      PROVE  Conv(s) = x \o mark /\ Conv(s) \notin Seq(Clean) /\ Len(s) = 2
  <2>1. Conv(s) = x \o mark
    BY <1>6, ConvTwo, Zenon DEF Plain
  <2>2. x \o mark \notin Seq(Clean)
    BY <1>5, FileMarked DEF mark
  <2>3. Len(s) = 2
    BY <1>6 DEF Plain
  <2> QED BY <2>1, <2>2, <2>3, Zenon
<1>7. ASSUME NEW s, NEW x \in Seq(Nat), Dotted(s, x)
      PROVE  /\ Conv(s) \notin Seq(Clean) /\ Len(s) = 3
             /\ \E e \in Seq(Nat) : Shown(s, x, e)
  <2>1. PICK e \in Seq(Nat) : Dotless(e) /\ s = <<x, <<Stop>> \o e, mark>>
    BY <1>7 DEF Dotted
  <2>2. x \o (<<Stop>> \o e) \in Seq(Nat)
    <3>1. <<Stop>> \in Seq(Nat)
      BY PoolAssumption
    <3>2. <<Stop>> \o e \in Seq(Nat)
      BY <3>1, ConcatIs
    <3> QED BY <3>2, ConcatIs
  <2>3. Conv(s) = (x \o (<<Stop>> \o e)) \o mark
    <3>1. PICK g : g = <<Stop>> \o e
      OBVIOUS
    <3>2. OfThree(s, x, g, mark)
      BY <2>1, <3>1, Zenon DEF OfThree
    <3>3. Conv(s) = (x \o g) \o mark
      BY <3>2, ConvThree, SMT
    <3> QED BY <3>1, <3>2, <3>3, Zenon
  <2>4. Conv(s) \notin Seq(Clean)
    <3>1. (x \o (<<Stop>> \o e)) \o mark \notin Seq(Clean)
      BY <1>5, <2>2, FileMarked DEF mark
    <3> QED BY <2>3, <3>1, Zenon
  <2>5. Len(s) = 3
    BY <2>1
  <2>6. Shown(s, x, e)
    BY <2>1, <2>2, <2>3, Zenon DEF Shown
  <2> QED BY <2>4, <2>5, <2>6, Zenon
<1>8. a.file <=> b.file
  <2>1. a.file => Conv(fit[a]) \notin Seq(Clean)
    BY <1>3, <1>5, <1>6, <1>7
  <2>2. b.file => Conv(fit[b]) \notin Seq(Clean)
    BY <1>4, <1>5, <1>6, <1>7
  <2>3. ~a.file => Conv(fit[a]) \in Seq(Clean)
    BY <1>3, ConvOne
  <2>4. ~b.file => Conv(fit[b]) \in Seq(Clean)
    BY <1>4, ConvOne
  <2> QED BY <1>1, <2>1, <2>2, <2>3, <2>4
<1>9. ASSUME Len(fit[a]) = Len(fit[b]) \/ ~a.file PROVE fit[a] = fit[b]
  <2>1. CASE ~a.file
    <3>1. fit[a] = <<c>> /\ fit[b] = <<d>>
      BY <1>1, <1>3, <1>4, <1>8, <2>1
    <3>2. c = d
      BY <3>1, ConvOne
    <3> QED BY <3>1, <3>2
  <2>2. CASE a.file /\ Plain(fit[a], c)
    <3>1. Plain(fit[b], d)
      <4>1. Len(fit[b]) = 2 /\ 2 # 3
        <5>1. Len(fit[a]) = 2 /\ Len(fit[a]) = Len(fit[b])
          BY <1>5, <1>6, <1>9, <2>2, Zenon
        <5>2. 2 # 3
          OBVIOUS
        <5> QED BY <5>1, <5>2, Zenon
      <4> QED BY <1>4, <1>5, <1>7, <1>8, <2>2, <4>1, Zenon
    <3>2. c \o mark = d \o mark
      BY <1>5, <1>6, <2>2, <3>1, Zenon
    <3>3. c = d
      BY <1>5, <3>2, EndsCancel
    <3> QED BY <2>2, <3>1, <3>3 DEF Plain
  <2>3. CASE a.file /\ Dotted(fit[a], c)
    <3>1. Dotted(fit[b], d)
      <4>1. Len(fit[b]) = 3 /\ 2 # 3
        <5>1. Len(fit[a]) = 3 /\ Len(fit[a]) = Len(fit[b])
          BY <1>5, <1>7, <1>9, <2>3, Zenon
        <5>2. 2 # 3
          OBVIOUS
        <5> QED BY <5>1, <5>2, Zenon
      <4> QED BY <1>4, <1>5, <1>6, <1>8, <2>3, <4>1, Zenon
    <3>2. PICK e \in Seq(Nat) : Shown(fit[a], c, e)
      BY <1>5, <1>7, <2>3, Zenon
    <3>3. PICK f \in Seq(Nat) : Shown(fit[b], d, f)
      BY <1>5, <1>7, <3>1, Zenon
    <3>4. c \o (<<Stop>> \o e) = d \o (<<Stop>> \o f)
      <4> DEFINE x == c \o (<<Stop>> \o e)
                 y == d \o (<<Stop>> \o f)
      <4>1. x \in Seq(Nat) /\ y \in Seq(Nat) /\ x \o mark = y \o mark
        BY <3>2, <3>3, Zenon DEF Shown
      <4> HIDE DEF x, y
      <4>2. x = y
        BY <1>5, <4>1, EndsCancel
      <4> QED BY <4>2 DEF x, y
    <3>5. c = d /\ e = f
      <4>1. PICK x, y : x = c /\ y = d
        OBVIOUS
      <4>2. x \in Seq(Nat) /\ y \in Seq(Nat) /\ x \o (<<Stop>> \o e) = y \o (<<Stop>> \o f)
        BY <1>5, <3>4, <4>1, Zenon
      <4>3. Dotless(e) /\ Dotless(f)
        BY <3>2, <3>3, Zenon DEF Shown
      <4>4. x = y /\ e = f
        BY <4>2, <4>3, DotsCancel
      <4> QED BY <4>1, <4>4, Zenon
    <3> QED BY <3>2, <3>3, <3>5, Zenon DEF Shown
  <2> QED BY <1>1, <1>3, <2>1, <2>2, <2>3
<1>10. CASE fit[a] = fit[b]
  BY <1>10, PoolApart
<1>11. CASE fit[a] # fit[b]
  <2>1. a.file /\ Len(fit[a]) # Len(fit[b])
    BY <1>1, <1>9, <1>11
  <2> QED BY <1>8, <2>1
<1> QED BY <1>10, <1>11
-----------------------------------------------------------------------------
(***************************************************************************)
(* The invariant.                                                          *)
(***************************************************************************)
\* The directories of a volume that are written by now: the last ones of the
\* path table.
WrittenDirs(v) ==
    {PathTable[i] : i \in {j \in DOMAIN PathTable :
                              v < vol \/ (v = vol /\ j > Len(PathTable) - dirNo)}}

Placing == decoded \in TextSets /\ vol \in 1 .. Len(Rules) + 1 /\ dirNo \in 0 .. Len(PathTable)

\* Nothing is written before the file area is.
Early == stage \notin {"planned", "burnt"} => vol = 1 /\ dirNo = 0

\* The names fitted are those of the first entries of the directory at hand.
Pooled ==
    /\ vol \in Volumes => PoolInv(Rules[vol])
    /\ attempt \in Nat
    /\ vol \notin Volumes \/ dirNo = Len(PathTable) => fit = <<>>
    /\ IsFiniteSet(DOMAIN fit)
    /\ fit # <<>> =>
          /\ Cardinality(DOMAIN fit) \in 0 .. Len(Entries[Current])
          /\ DOMAIN fit = {NameOf(Entries[Current][j]) : j \in 1 .. Cardinality(DOMAIN fit)}

\* What is noted of the directories written.
Dots ==
    /\ DOMAIN burners = {k \in (1 .. vol) \X Dirs : k[2] \in WrittenDirs(k[1])}
    /\ \A k \in DOMAIN burners : {"tmp", "dot", "up"} \subseteq DOMAIN burners[k]
    /\ DotsRight

Filing ==
    /\ DOMAIN folders = WrittenDirs(vol)
    /\ \A d \in DOMAIN folders :
          /\ {"off", "len", "name"} \subseteq DOMAIN folders[d]
          /\ burners[<<vol, d>>].dot.lba = folders[d].off \div blkSz

\* What the name of a directory consists of.
TextOf(d) == Segment(folders[d].name, 1)

\* The names of the directories in those that are written.
Naming ==
    /\ \A v \in 1 .. Len(Rules) + 1 : \A e \in Dirs :
          <<v, e>> \in DOMAIN names <=> e # Root /\ ParentOf(e) \in WrittenDirs(v)
    /\ \A e \in Dirs \ {Root} : ParentOf(e) \in WrittenDirs(vol) =>
          /\ e \in WrittenDirs(vol)
          /\ folders[e].name = names[<<vol, e>>]
          /\ TextOf(e) \in Seq(Nat) /\ folders[e].name = <<TextOf(e)>>
    /\ \A e, g \in Dirs \ {Root} :
          e # g /\ ParentOf(e) = ParentOf(g) /\ ParentOf(e) \in WrittenDirs(vol) => TextOf(e) # TextOf(g)

Keys == (Nat \ {0}) \X (Nat \ {0}) \X Seq(Nat)

\* path: the keys in the order their directories were listed.
Walked(path) ==
    /\ path \in Seq(DOMAIN pTab) /\ rows = [i \in 1 .. Len(path) |-> RowOf(path[i])]
    /\ DOMAIN pTab \subseteq Keys
    /\ \A k \in DOMAIN pTab : pTab[k] \in Dirs
    /\ IsInjective(pTab)
    /\ <<1, 1, <<>>>> \in DOMAIN pTab /\ pTab[<<1, 1, <<>>>>] = Root
    /\ \A k \in DOMAIN pTab : k # <<1, 1, <<>>>> =>
          /\ k[2] \in 1 .. Len(path) /\ pTab[k] # Root
          /\ ParentOf(pTab[k]) = pTab[path[k[2]]]
          /\ k[1] = path[k[2]][1] + 1 /\ k[3] = TextOf(pTab[k])
    /\ \A i \in 1 .. Len(path) : \A e \in Dirs \ {Root} :
          ParentOf(e) = pTab[path[i]] => \E k \in DOMAIN pTab : pTab[k] = e
    /\ \A i, j \in 1 .. Len(path) : i < j => PathLess(path[i], path[j])
    /\ itd = IF Len(path) = 0 THEN <<>> ELSE path[Len(path)]
    /\ \A k \in DOMAIN pTab : k \in Unvisited \/ \E i \in 1 .. Len(path) : path[i] = k

Walking ==
    /\ pTab = <<>> => rows = <<>> /\ itd = <<>>
    /\ pTab # <<>> => dirNo = Len(PathTable) /\ \E path : Walked(path)

Listing == DOMAIN tables \subseteq 1 .. vol - 1

IsoInv == Placing /\ Early /\ Pooled /\ Dots /\ Filing /\ Naming /\ Walking /\ Listing
-----------------------------------------------------------------------------
(***************************************************************************)
(* The path table has parents first, so children are written first.        *)
(***************************************************************************)
N == Len(PathTable)

LEMMA TableIs ==
    /\ N \in Nat \ {0} /\ DOMAIN PathTable = 1 .. N /\ \A i \in 1 .. N : PathTable[i] \in Dirs
    /\ Root = PathTable[1] /\ Root \in Dirs
    /\ \A i, j \in 1 .. N : PathTable[i] = PathTable[j] => i = j
    /\ \A d \in Dirs : \E i \in 1 .. N : PathTable[i] = d
<1>1. PathTable \in Seq(Dirs) /\ PathTable # <<>>
  BY IsoAssumption
<1>2. N \in Nat \ {0} /\ DOMAIN PathTable = 1 .. N /\ \A i \in 1 .. N : PathTable[i] \in Dirs
  BY <1>1, EmptySeq DEF N
<1>3. Root = PathTable[1]
  BY <1>1 DEF Root
<1>4. \A i, j \in 1 .. N : PathTable[i] = PathTable[j] => i = j
  BY <1>2, IsoAssumption DEF IsInjective
<1>5. \A d \in Dirs : \E i \in 1 .. N : PathTable[i] = d
  BY <1>2 DEF Dirs, ToSet
<1> QED BY <1>2, <1>3, <1>4, <1>5

LEMMA EntriesAre ==
    ASSUME NEW d \in Dirs
    PROVE  /\ Entries[d] \in Seq((Files \cup Dirs) \ {Root}) /\ Len(Entries[d]) \in Nat
           /\ DOMAIN Entries[d] = 1 .. Len(Entries[d])
           /\ Root \notin ToSet(Entries[d]) /\ ToSet(Entries[d]) \subseteq Files \cup Dirs
           /\ \A e : e \in ToSet(Entries[d]) <=> \E j \in 1 .. Len(Entries[d]) : Entries[d][j] = e
<1>1. Entries[d] \in Seq((Files \cup Dirs) \ {Root})
  BY IsoAssumption
<1>2. Len(Entries[d]) \in Nat /\ DOMAIN Entries[d] = 1 .. Len(Entries[d])
  BY <1>1
<1>3. \A j \in 1 .. Len(Entries[d]) : Entries[d][j] \in (Files \cup Dirs) \ {Root}
  BY <1>1
<1> QED BY <1>1, <1>2, <1>3 DEF ToSet

LEMMA ParentIs ==
    /\ ParentOf(Root) = Root
    /\ \A e \in Dirs \ {Root} : ParentOf(e) \in Dirs /\ e \in ToSet(Entries[ParentOf(e)])
    /\ \A p \in Dirs, e \in Dirs : e \in ToSet(Entries[p]) <=> e # Root /\ p = ParentOf(e)
    /\ \A i \in 2 .. N : \E j \in 1 .. i - 1 : ParentOf(PathTable[i]) = PathTable[j]
<1>1. ParentOf(Root) = Root
  BY DEF ParentOf
<1>2. ASSUME NEW i \in 2 .. N
      PROVE  \E j \in 1 .. i - 1 : PathTable[j] \in Dirs /\ PathTable[i] \in ToSet(Entries[PathTable[j]])
  <2>1. PICK j \in 1 .. i - 1 : PathTable[i] \in ToSet(Entries[PathTable[j]])
    BY IsoAssumption DEF N
  <2>2. j \in 1 .. N
    BY TableIs
  <2> QED BY <2>1, <2>2, TableIs
<1>3. ASSUME NEW e \in Dirs \ {Root} PROVE ParentOf(e) \in Dirs /\ e \in ToSet(Entries[ParentOf(e)])
  <2>1. PICK i \in 1 .. N : PathTable[i] = e
    BY TableIs
  <2>2. i \in 2 .. N
    BY <2>1, TableIs
  <2>3. \E p \in Dirs : e \in ToSet(Entries[p])
    BY <1>2, <2>1, <2>2
  <2> QED BY <2>3 DEF ParentOf
<1>4. ASSUME NEW p \in Dirs, NEW e \in Dirs, e \in ToSet(Entries[p]) PROVE e # Root /\ p = ParentOf(e)
  <2>1. e # Root
    BY <1>4, EntriesAre
  <2>2. ParentOf(e) \in Dirs /\ e \in ToSet(Entries[ParentOf(e)])
    BY <1>3, <2>1
  <2>3. \A d, g \in Dirs : d # g => ToSet(Entries[d]) \cap ToSet(Entries[g]) \cap Dirs = {}
    BY IsoAssumption
  <2> QED BY <1>4, <2>1, <2>2, <2>3
<1>5. ASSUME NEW i \in 2 .. N PROVE \E j \in 1 .. i - 1 : ParentOf(PathTable[i]) = PathTable[j]
  <2>1. PICK j \in 1 .. i - 1 : PathTable[j] \in Dirs /\ PathTable[i] \in ToSet(Entries[PathTable[j]])
    BY <1>2
  <2>2. PathTable[i] \in Dirs
    BY TableIs
  <2> QED BY <1>4, <2>1, <2>2
<1> QED BY <1>1, <1>3, <1>4, <1>5

\* The directory that is written next is not written yet, nor what it is in;
\* what is in it is.
LEMMA CurrentIs ==
    ASSUME Placing, dirNo < N
    PROVE  /\ Current \in Dirs /\ Current = PathTable[N - dirNo] /\ N - dirNo \in 1 .. N
           /\ Current \notin WrittenDirs(vol)
           /\ Current # Root => ParentOf(Current) \notin WrittenDirs(vol) /\ ParentOf(Current) # Current
           /\ \A e \in Dirs \ {Root} : ParentOf(e) = Current => e \in WrittenDirs(vol)
<1> DEFINE at == N - dirNo
<1>1. dirNo \in Nat /\ at \in 1 .. N /\ vol \in Nat
  BY TableIs DEF Placing, N
<1>2. Current = PathTable[at] /\ Current \in Dirs
  BY <1>1, TableIs DEF Current, N
<1>3. WrittenDirs(vol) = {PathTable[i] : i \in {j \in 1 .. N : j > at}}
  BY <1>1, TableIs DEF WrittenDirs, N
<1> HIDE DEF at
<1>4. \A i \in 1 .. N : PathTable[i] \in WrittenDirs(vol) <=> i > at
  BY <1>3, TableIs
<1>5. Current \notin WrittenDirs(vol)
  BY <1>1, <1>2, <1>4
<1>6. ASSUME Current # Root PROVE ParentOf(Current) \notin WrittenDirs(vol) /\ ParentOf(Current) # Current
  <2>1. at \in 2 .. N
    BY <1>1, <1>2, <1>6, TableIs
  <2>2. PICK j \in 1 .. at - 1 : ParentOf(Current) = PathTable[j]
    BY <1>2, <2>1, ParentIs
  <2>3. j \in 1 .. N /\ ~(j > at) /\ j # at
    BY <1>1, <2>1, TableIs
  <2> QED BY <1>1, <1>2, <1>4, <2>2, <2>3, TableIs
<1>7. ASSUME NEW e \in Dirs \ {Root}, ParentOf(e) = Current PROVE e \in WrittenDirs(vol)
  <2>1. PICK i \in 1 .. N : PathTable[i] = e
    BY TableIs
  <2>2. i \in 2 .. N
    BY <2>1, TableIs
  <2>3. PICK j \in 1 .. i - 1 : ParentOf(e) = PathTable[j]
    BY <2>1, <2>2, ParentIs
  <2>4. j \in 1 .. N /\ j < i
    BY <2>2, TableIs
  <2>5. j = at
    <3>1. PathTable[j] = PathTable[at]
      BY <1>2, <1>7, <2>3
    <3> QED BY <1>1, <2>4, <3>1, TableIs
  <2> QED BY <1>4, <2>1, <2>4, <2>5
<1> QED BY <1>1, <1>2, <1>5, <1>6, <1>7 DEF at

\* What is written when one directory more is.
LEMMA WrittenNext ==
    ASSUME Placing, dirNo < N, dirNo' = dirNo + 1, vol' = vol
    PROVE  \A v : WrittenDirs(v)' = IF v = vol THEN WrittenDirs(v) \cup {Current} ELSE WrittenDirs(v)
<1> DEFINE at == N - dirNo
<1>1. dirNo \in Nat /\ at \in 1 .. N /\ vol \in Nat /\ N \in Nat /\ DOMAIN PathTable = 1 .. N
  BY TableIs DEF Placing, N
<1>2. Current = PathTable[at]
  BY <1>1 DEF Current, N
<1>3. N - dirNo' = at - 1
  BY <1>1
<1> SUFFICES ASSUME NEW v
             PROVE  WrittenDirs(v)' = IF v = vol THEN WrittenDirs(v) \cup {Current} ELSE WrittenDirs(v)
  OBVIOUS
<1>4. WrittenDirs(v) = {PathTable[i] : i \in {j \in 1 .. N : v < vol \/ (v = vol /\ j > at)}}
  BY <1>1 DEF WrittenDirs, N
<1>5. WrittenDirs(v)' = {PathTable[i] : i \in {j \in 1 .. N : v < vol \/ (v = vol /\ j > at - 1)}}
  BY <1>1, <1>3 DEF WrittenDirs, N
<1> HIDE DEF at
<1>6. CASE v = vol
  <2>1. {j \in 1 .. N : v < vol \/ (v = vol /\ j > at - 1)} = {j \in 1 .. N : v < vol \/ (v = vol /\ j > at)} \cup {at}
    BY <1>1, <1>6
  <2> QED BY <1>2, <1>4, <1>5, <1>6, <2>1
<1>7. CASE v # vol
  BY <1>4, <1>5, <1>7
<1> QED BY <1>6, <1>7

\* All of a volume is written before the next one.
LEMMA WrittenAll ==
    ASSUME Placing
    PROVE  /\ \A v \in Nat : v < vol => WrittenDirs(v) = Dirs
           /\ dirNo = N => WrittenDirs(vol) = Dirs
           /\ dirNo = 0 => WrittenDirs(vol) = {}
           /\ \A v \in Nat : v > vol => WrittenDirs(v) = {}
           /\ \A v : WrittenDirs(v) \subseteq Dirs
<1>1. vol \in Nat /\ N \in Nat /\ DOMAIN PathTable = 1 .. N /\ Dirs = {PathTable[i] : i \in 1 .. N}
  BY TableIs DEF Placing, Dirs, ToSet
<1>2. \A v : WrittenDirs(v) = {PathTable[i] : i \in {j \in 1 .. N : v < vol \/ (v = vol /\ j > N - dirNo)}}
  BY <1>1 DEF WrittenDirs, N
<1>3. ASSUME NEW v \in Nat, v < vol PROVE WrittenDirs(v) = Dirs
  <2>1. {j \in 1 .. N : v < vol \/ (v = vol /\ j > N - dirNo)} = 1 .. N
    BY <1>3
  <2> QED BY <1>1, <1>2, <2>1
<1>4. ASSUME dirNo = N PROVE WrittenDirs(vol) = Dirs
  <2>1. {j \in 1 .. N : vol < vol \/ (vol = vol /\ j > N - dirNo)} = 1 .. N
    BY <1>1, <1>4
  <2> QED BY <1>1, <1>2, <2>1
<1>5. ASSUME dirNo = 0 PROVE WrittenDirs(vol) = {}
  <2>1. {j \in 1 .. N : vol < vol \/ (vol = vol /\ j > N - dirNo)} = {}
    BY <1>1, <1>5
  <2> QED BY <1>2, <2>1
<1>6. ASSUME NEW v \in Nat, v > vol PROVE WrittenDirs(v) = {}
  <2>1. {j \in 1 .. N : v < vol \/ (v = vol /\ j > N - dirNo)} = {}
    BY <1>1, <1>6
  <2> QED BY <1>2, <2>1
<1>7. \A v : WrittenDirs(v) \subseteq Dirs
  BY <1>1, <1>2
<1> QED BY <1>3, <1>4, <1>5, <1>6, <1>7
-----------------------------------------------------------------------------
(***************************************************************************)
(* Steps that write nothing.                                               *)
(***************************************************************************)
kept == <<decoded, vol, dirVars, tabVars, poolVars>>

LEMMA WrittenKept == UNCHANGED <<vol, dirNo>> => \A v : WrittenDirs(v)' = WrittenDirs(v)
BY DEF WrittenDirs

LEMMA PlacingKept == Placing /\ UNCHANGED kept => Placing'
BY DEF Placing, kept, dirVars

LEMMA PooledKept == Pooled /\ UNCHANGED kept => Pooled'
<1> SUFFICES ASSUME Pooled, UNCHANGED kept PROVE Pooled'
  OBVIOUS
<1>1. /\ decoded' = decoded /\ vol' = vol /\ dirNo' = dirNo /\ convToLink' = convToLink
      /\ linkToConv' = linkToConv /\ attempt' = attempt /\ fit' = fit
  BY DEF kept, dirVars, poolVars
<1>2. \A rule : PoolInv(rule)' <=> PoolInv(rule)
  BY <1>1 DEF PoolInv
<1>3. Current' = Current /\ \A e : NameOf(e)' = NameOf(e)
  BY <1>1 DEF Current, NameOf
<1> QED BY <1>1, <1>2, <1>3 DEF Pooled

LEMMA DotsKept == Dots /\ UNCHANGED <<vol, dirNo, burners>> => Dots'
<1> SUFFICES ASSUME Dots, UNCHANGED <<vol, dirNo, burners>> PROVE Dots'
  OBVIOUS
<1>1. \A v : WrittenDirs(v)' = WrittenDirs(v)
  BY WrittenKept
<1>2. DotsRight'
  BY DEF Dots, DotsRight
<1> QED BY <1>1, <1>2 DEF Dots

LEMMA NamingKept == Naming /\ UNCHANGED <<vol, dirNo, folders, names>> => Naming'
<1> SUFFICES ASSUME Naming, UNCHANGED <<vol, dirNo, folders, names>> PROVE Naming'
  OBVIOUS
<1>1. \A v : WrittenDirs(v)' = WrittenDirs(v)
  BY WrittenKept
<1>2. \A e : TextOf(e)' = TextOf(e)
  BY DEF TextOf, Segment
<1> QED BY <1>1, <1>2 DEF Naming

LEMMA FilingKept == Filing /\ UNCHANGED <<vol, dirNo, folders, burners, blkSz>> => Filing'
<1> SUFFICES ASSUME Filing, UNCHANGED <<vol, dirNo, folders, burners, blkSz>> PROVE Filing'
  OBVIOUS
<1>1. \A v : WrittenDirs(v)' = WrittenDirs(v)
  BY WrittenKept
<1> QED BY <1>1 DEF Filing

LEMMA WalkedKept ==
    ASSUME UNCHANGED <<pTab, itd, rows, folders, blkSz>>, NEW path, Walked(path)
    PROVE  Walked(path)'
<1>1. \A e : TextOf(e)' = TextOf(e)
  BY DEF TextOf, Segment
<1>2. Unvisited' = Unvisited
  BY DEF Unvisited
<1>3. \A k : RowOf(k)' = RowOf(k)
  BY DEF RowOf
<1> QED BY <1>1, <1>2, <1>3 DEF Walked

LEMMA WalkingKept == Walking /\ UNCHANGED <<dirNo, pTab, itd, rows, folders, blkSz>> => Walking'
<1> SUFFICES ASSUME Walking, UNCHANGED <<dirNo, pTab, itd, rows, folders, blkSz>> PROVE Walking'
  OBVIOUS
<1>1. (\E path : Walked(path)) => \E path : Walked(path)'
  BY WalkedKept
<1> QED BY <1>1 DEF Walking

LEMMA QuietIsoInv ==
    ASSUME IsoInv, UNCHANGED kept, blkSz' = blkSz \/ stage = "crawl",
           stage \in {"planned", "burnt"} => stage' \in {"planned", "burnt"}
    PROVE  IsoInv'
<1>1. /\ vol' = vol /\ dirNo' = dirNo /\ burners' = burners /\ folders' = folders /\ names' = names
      /\ pTab' = pTab /\ itd' = itd /\ rows' = rows /\ tables' = tables
  BY DEF kept, dirVars, tabVars
<1>2. Placing' /\ Pooled' /\ Dots' /\ Naming'
  BY <1>1, PlacingKept, PooledKept, DotsKept, NamingKept DEF IsoInv
<1>3. Early'
  BY <1>1 DEF IsoInv, Early
<1>4. Filing' /\ Walking'
  <2>1. CASE blkSz' = blkSz
    BY <1>1, <2>1, FilingKept, WalkingKept DEF IsoInv
  <2>2. CASE stage = "crawl"
    <3>1. dirNo = 0 /\ WrittenDirs(vol) = {}
      BY <2>2, WrittenAll DEF IsoInv, Early
    <3>2. folders = <<>> \/ DOMAIN folders = {}
      BY <3>1 DEF IsoInv, Filing
    <3>3. pTab = <<>>
      BY <3>1, TableIs DEF IsoInv, Walking, N
    <3> QED BY <1>1, <3>1, <3>2, <3>3, WrittenKept DEF IsoInv, Filing, Walking
  <2> QED BY <2>1, <2>2
<1>5. Listing'
  BY <1>1 DEF IsoInv, Listing
<1> QED BY <1>2, <1>3, <1>4, <1>5 DEF IsoInv

LEMMA InitIsoInv == IsoInit => IsoInv
<1> SUFFICES ASSUME IsoInit PROVE IsoInv
  OBVIOUS
<1>1. /\ decoded \in TextSets /\ vol = 1 /\ dirNo = 0 /\ folders = <<>> /\ burners = <<>>
      /\ names = <<>> /\ pTab = <<>> /\ itd = <<>> /\ rows = <<>> /\ tables = <<>>
      /\ convToLink = <<>> /\ linkToConv = <<>> /\ attempt = 0 /\ fit = <<>>
  BY DEF IsoInit, PoolInit
<1>2. Placing
  <2>1. N \in Nat /\ Len(Rules) \in Nat
    BY TableIs, IsoAssumption
  <2> QED BY <1>1, <2>1 DEF Placing, N
<1>3. \A v \in Nat : v > 0 => WrittenDirs(v) = {}
  <2>1. WrittenDirs(vol) = {} /\ \A v \in Nat : v > vol => WrittenDirs(v) = {}
    BY <1>1, <1>2, WrittenAll
  <2> QED BY <1>1, <2>1
<1>4. Early
  BY <1>1 DEF Early
<1>5. Pooled
  <2>1. DOMAIN fit = {} /\ IsFiniteSet({})
    BY <1>1, FS_EmptySet
  <2> QED BY <1>1, <2>1 DEF Pooled, PoolInv
<1>6. Dots
  <2>1. \A v \in 1 .. 1 : WrittenDirs(v) = {}
    BY <1>3
  <2>2. DOMAIN burners = {}
    BY <1>1
  <2>3. {k \in (1 .. vol) \X Dirs : k[2] \in WrittenDirs(k[1])} = {}
    BY <1>1, <2>1
  <2> QED BY <2>2, <2>3 DEF Dots, DotsRight
<1>7. Filing
  BY <1>1, <1>3 DEF Filing
<1>8. Naming
  <2>1. \A v \in 1 .. Len(Rules) + 1 : WrittenDirs(v) = {}
    BY <1>3
  <2>2. WrittenDirs(vol) = {} /\ DOMAIN names = {}
    BY <1>1, <1>3
  <2> QED BY <2>1, <2>2 DEF Naming
<1>9. Walking /\ Listing
  BY <1>1 DEF Walking, Listing
<1> QED BY <1>2, <1>4, <1>5, <1>6, <1>7, <1>8, <1>9 DEF IsoInv

LEMMA LayoutIsoInv == IsoInv /\ Layout /\ UNCHANGED <<poolVars, isoVars>> => IsoInv'
<1> SUFFICES ASSUME IsoInv, Layout, UNCHANGED <<poolVars, isoVars>> PROVE IsoInv'
  OBVIOUS
<1>1. UNCHANGED kept
  BY DEF isoVars, kept
<1>2. blkSz' = blkSz \/ stage = "crawl"
  BY DEF Layout, OnFileFd, Adjust, WriteRange, Planned, CommitMapped, CommitCopied
<1>3. stage \in {"planned", "burnt"} => stage' \in {"planned", "burnt"}
  BY DEF Layout, OnFileFd, Adjust, WriteRange, Planned, CommitMapped, CommitCopied
<1> QED BY <1>1, <1>2, <1>3, QuietIsoInv

LEMMA HeadIsoInv ==
    ASSUME IsoInv, NEW slave, PlanHead(slave) \/ BreachOfTrust(slave)
    PROVE  IsoInv'
<1>1. CASE PlanHead(slave)
  <2>1. UNCHANGED kept /\ stage = "adjusted" /\ blkSz' = blkSz
    BY <1>1 DEF PlanHead, OptimizeBehind, kept
  <2> QED BY <2>1, QuietIsoInv
<1>2. CASE BreachOfTrust(slave)
  <2>1. UNCHANGED kept /\ stage = "adjusted" /\ blkSz' = blkSz
    BY <1>2 DEF BreachOfTrust, isoVars, kept
  <2> QED BY <2>1, QuietIsoInv
<1> QED BY <1>1, <1>2

LEMMA LateIsoInv == IsoInv /\ (PlanMeta \/ CommitTmp \/ ReadVolume) => IsoInv'
<1> SUFFICES ASSUME IsoInv, PlanMeta \/ CommitTmp \/ ReadVolume PROVE IsoInv'
  OBVIOUS
<1>1. CASE PlanMeta
  <2>1. UNCHANGED kept /\ stage' = stage /\ blkSz' = blkSz
    BY <1>1 DEF PlanMeta, laid, kept
  <2> QED BY <2>1, QuietIsoInv
<1>2. CASE CommitTmp
  <2>1. UNCHANGED kept /\ stage' = stage /\ blkSz' = blkSz
    BY <1>2 DEF CommitTmp, vars, kept
  <2> QED BY <2>1, QuietIsoInv
<1>3. CASE ReadVolume
  <2>1. UNCHANGED kept /\ stage' = stage /\ blkSz' = blkSz
    BY <1>3 DEF ReadVolume, vars, kept
  <2> QED BY <2>1, QuietIsoInv
<1> QED BY <1>1, <1>2, <1>3
-----------------------------------------------------------------------------
(***************************************************************************)
(* The names of a directory.                                               *)
(***************************************************************************)
LEMMA RuleIs == \A v \in Volumes : IsRule(Rules[v]) /\ Rules[v].version # <<>>
BY IsoAssumption

LEMMA VolumesAre == Len(Rules) \in Nat /\ Volumes = 1 .. Len(Rules)
<1>1. Rules \in Seq(ToSet(Rules))
  BY IsoAssumption
<1> QED BY <1>1 DEF Volumes

LEMMA NameOfIn ==
    ASSUME Placing, NEW v \in Volumes, NEW e \in Files \cup Dirs
    PROVE  NameOf(e) \in NamesOf(Rules[v]) /\ (NameOf(e).file <=> e \in Files) /\ NameOf(e).text = decoded[e]
<1>1. e \in DOMAIN decoded
  BY IsoAssumption DEF Placing
<1>2. decoded[e] \in Seq(DOMAIN Rules[v].spay)
  BY <1>1, IsoAssumption DEF Placing, IsText
<1>3. (e \in Files) \in BOOLEAN
  OBVIOUS
<1> QED BY <1>2, <1>3 DEF NameOf, NamesOf

LEMMA NamesDiffer ==
    ASSUME Placing, NEW d \in Dirs, NEW i \in DOMAIN Entries[d], NEW j \in DOMAIN Entries[d],
           NameOf(Entries[d][i]) = NameOf(Entries[d][j])
    PROVE  i = j
<1>1. decoded[Entries[d][i]] = decoded[Entries[d][j]]
  BY DEF NameOf
<1> QED BY <1>1, IsoAssumption DEF Placing

LEMMA FitEntryPooled ==
    ASSUME IsoInv, FitEntry
    PROVE  Pooled'
<1> DEFINE d == Current
           list == Entries[d]
<1>1. /\ stage = "planned" /\ vol \in Volumes /\ dirNo < N
      /\ UNCHANGED <<decoded, vol, dirNo>>
  BY DEF FitEntry, Planning, isoVars, dirVars, N
<1>2. PICK i \in DOMAIN list :
         Cardinality(DOMAIN fit) = i - 1 /\ FitName(NameOf(list[i]), Rules[vol])
  BY DEF FitEntry
<1> DEFINE name == NameOf(list[i])
<1>3. Placing /\ Pooled
  BY DEF IsoInv
<1>4. d \in Dirs /\ d' = d
  BY <1>1, <1>3, CurrentIs DEF Current
<1> HIDE DEF d
<1>5. list \in Seq((Files \cup Dirs) \ {Root}) /\ i \in 1 .. Len(list) /\ Len(list) \in Nat
  BY <1>4, EntriesAre
<1>6. list[i] \in Files \cup Dirs
  BY <1>5
<1>7. name \in NamesOf(Rules[vol])
  BY <1>1, <1>3, <1>6, NameOfIn
<1>8. \A e : NameOf(e)' = NameOf(e)
  BY <1>1 DEF NameOf
<1> HIDE DEF list, name
<1>9. PoolInv(Rules[vol])' /\ (fit' = fit \/ DOMAIN fit' = DOMAIN fit \cup {name})
  <2>1. PoolInv(Rules[vol])
    BY <1>1, <1>3 DEF Pooled
  <2>2. TryExisting(name, Rules[vol]) \/ TryBrandNew(name, Rules[vol])
    BY <1>2 DEF FitName, name
  <2>3. IsRule(Rules[vol]) /\ Rules[vol].version # <<>>
    BY <1>1, RuleIs
  <2>4. CASE TryExisting(name, Rules[vol])
    BY <1>1, <1>7, <2>1, <2>3, <2>4, ExistingPoolInv
  <2>5. CASE TryBrandNew(name, Rules[vol])
    BY <1>1, <1>7, <2>1, <2>3, <2>5, BrandNewPoolInv
  <2> QED BY <2>2, <2>4, <2>5
<1>10. attempt' \in Nat
  BY <1>9 DEF PoolInv
<1>11. dirNo # N /\ dirNo' # N /\ vol' \in Volumes
  <2>1. dirNo \in Nat /\ N \in Nat
    BY <1>3, TableIs DEF Placing, N
  <2> QED BY <1>1, <2>1
<1>12. DOMAIN fit = {NameOf(list[j]) : j \in 1 .. i - 1} /\ IsFiniteSet(DOMAIN fit)
  <2>1. CASE fit = <<>>
    <3>1. DOMAIN fit = {} /\ i = 1
      BY <1>2, <1>5, <2>1, FS_EmptySet
    <3>2. 1 .. i - 1 = {}
      BY <3>1
    <3> QED BY <1>3, <3>1, <3>2 DEF Pooled
  <2>2. CASE fit # <<>>
    BY <1>2, <1>3, <2>2 DEF Pooled, list, d
  <2> QED BY <2>1, <2>2
<1>13. CASE fit' = fit
  <2>1. Current' = Current
    BY <1>4 DEF d
  <2>2. ~(vol \notin Volumes \/ dirNo = Len(PathTable))'
    BY <1>11 DEF N
  <2>3. (vol \in Volumes => PoolInv(Rules[vol]))'
    BY <1>9
  <2> QED BY <1>3, <1>8, <1>10, <1>13, <2>1, <2>2, <2>3 DEF Pooled
<1>14. CASE DOMAIN fit' = DOMAIN fit \cup {name}
  <2>1. name \notin DOMAIN fit
    <3> SUFFICES ASSUME NEW j \in 1 .. i - 1, NameOf(list[j]) = name PROVE FALSE
      BY <1>12
    <3>1. j \in DOMAIN list /\ i \in DOMAIN list /\ j # i
      BY <1>5
    <3> QED BY <1>3, <1>4, <3>1, NamesDiffer DEF list, name
  <2>2. IsFiniteSet(DOMAIN fit') /\ Cardinality(DOMAIN fit') = Cardinality(DOMAIN fit) + 1
    BY <1>12, <1>14, <2>1, FS_AddElement
  <2>3. Cardinality(DOMAIN fit') = i
    BY <1>2, <1>5, <2>2
  <2>4. DOMAIN fit' = {NameOf(list[j]) : j \in 1 .. i}
    <3>1. 1 .. i = (1 .. i - 1) \cup {i}
      BY <1>5
    <3> QED BY <1>12, <1>14, <3>1 DEF name
  <2>5. i \in 0 .. Len(list)
    BY <1>5
  <2>6. Entries[Current'] = list
    BY <1>4 DEF list, d
  <2>7. \A j : NameOf(Entries[Current][j])' = NameOf(list[j])
    BY <1>1, <2>6 DEF NameOf
  <2>8. (Cardinality(DOMAIN fit) \in 0 .. Len(Entries[Current]))'
    <3>1. Cardinality(DOMAIN fit') \in 0 .. Len(Entries[Current'])
      BY <2>3, <2>5, <2>6
    <3> QED BY <3>1
  <2>9. (DOMAIN fit = {NameOf(Entries[Current][j]) : j \in 1 .. Cardinality(DOMAIN fit)})'
    <3>1. {NameOf(list[j]) : j \in 1 .. i} = {NameOf(Entries[Current][j])' : j \in 1 .. i}
      BY <2>7
    <3> QED BY <2>3, <2>4, <3>1
  <2>10. ~(vol \notin Volumes \/ dirNo = Len(PathTable))'
    BY <1>11 DEF N
  <2>11. (vol \in Volumes => PoolInv(Rules[vol]))'
    BY <1>9
  <2> QED BY <1>10, <2>2, <2>8, <2>9, <2>10, <2>11 DEF Pooled
<1> QED BY <1>9, <1>13, <1>14

LEMMA FitEntryIsoInv == IsoInv /\ FitEntry => IsoInv'
<1> SUFFICES ASSUME IsoInv, FitEntry PROVE IsoInv'
  OBVIOUS
<1>1. /\ UNCHANGED <<decoded, vol, dirNo, burners, folders, names, pTab, itd, rows, tables, stage, blkSz>>
  BY DEF FitEntry, isoVars, dirVars, tabVars, vars
<1>2. Dots' /\ Naming' /\ Filing' /\ Walking'
  BY <1>1, DotsKept, NamingKept, FilingKept, WalkingKept DEF IsoInv
<1>3. Placing' /\ Early' /\ Listing'
  BY <1>1 DEF IsoInv, Placing, Early, Listing
<1> QED BY <1>2, <1>3, FitEntryPooled DEF IsoInv
-----------------------------------------------------------------------------
(***************************************************************************)
(* A directory is written.                                                 *)
(***************************************************************************)
\* The directories below that are given the name they were fitted to.
NamedBelow == {EntryOf(name) : name \in {fit[n] : n \in DOMAIN fit}} \cap Dirs

LEMMA WriteDirIs ==
    ASSUME WriteDir
    PROVE  /\ stage = "planned" /\ vol \in Volumes /\ dirNo < N
           /\ Cardinality(DOMAIN fit) = Len(Entries[Current])
           /\ \E off, len, own :
                /\ own.dot.lba = off \div blkSz /\ {"tmp", "dot", "up"} \subseteq DOMAIN own
                /\ burners' = Settle(Put(burners, <<vol, Current>>, own), vol, Current, own.dot)
                /\ folders' = [e \in DOMAIN folders \cup {Current} |->
                      IF e = Current THEN [off |-> off, len |-> len, name |-> <<>>]
                      ELSE IF e \in NamedBelow THEN [folders[e] EXCEPT !.name = fit[NameOf(e)]]
                      ELSE folders[e]]
           /\ names' = [k \in DOMAIN names \cup ({vol} \X ToSet(Entries[Current])) |->
                           IF k \in DOMAIN names THEN names[k] ELSE fit[NameOf(k[2])]]
           /\ dirNo' = dirNo + 1 /\ NewPool
           /\ UNCHANGED <<stage, blkSz, decoded, vol, pTab, itd, rows, tables>>
<1>1. /\ stage = "planned" /\ vol \in Volumes /\ dirNo < N
      /\ Cardinality(DOMAIN fit) = Len(Entries[Current])
      /\ dirNo' = dirNo + 1 /\ NewPool
      /\ UNCHANGED <<stage, blkSz, decoded, vol, pTab, itd, rows, tables>>
  BY DEF WriteDir, Planning, N, vars, tabVars
<1>2. names' = [k \in DOMAIN names \cup ({vol} \X ToSet(Entries[Current])) |->
                           IF k \in DOMAIN names THEN names[k] ELSE fit[NameOf(k[2])]]
  BY DEF WriteDir
<1>3. \E off, len, recs :
         /\ burners' = Settle(Put(burners, <<vol, Current>>,
                             [tmp |-> tmpOff, dot |-> Place(off, len), up |-> Place(off, 0),
                              recs |-> recs]), vol, Current, Place(off, len))
         /\ folders' = [e \in DOMAIN folders \cup {Current} |->
                      IF e = Current THEN [off |-> off, len |-> len, name |-> <<>>]
                      ELSE IF e \in NamedBelow THEN [folders[e] EXCEPT !.name = fit[NameOf(e)]]
                      ELSE folders[e]]
  BY DEF WriteDir, NamedBelow
<1>4. PICK off, len, recs :
         /\ burners' = Settle(Put(burners, <<vol, Current>>,
                             [tmp |-> tmpOff, dot |-> Place(off, len), up |-> Place(off, 0),
                              recs |-> recs]), vol, Current, Place(off, len))
         /\ folders' = [e \in DOMAIN folders \cup {Current} |->
                      IF e = Current THEN [off |-> off, len |-> len, name |-> <<>>]
                      ELSE IF e \in NamedBelow THEN [folders[e] EXCEPT !.name = fit[NameOf(e)]]
                      ELSE folders[e]]
  BY <1>3
<1> DEFINE own == [tmp |-> tmpOff, dot |-> Place(off, len), up |-> Place(off, 0), recs |-> recs]
<1>5. own.dot = Place(off, len) /\ {"tmp", "dot", "up"} \subseteq DOMAIN own
  OBVIOUS
<1>6. own.dot.lba = off \div blkSz
  BY <1>5 DEF Place
<1>7. burners' = Settle(Put(burners, <<vol, Current>>, own), vol, Current, own.dot)
  BY <1>4, <1>5
<1> HIDE DEF own
<1> QED BY <1>1, <1>2, <1>4, <1>5, <1>6, <1>7

\* All entries have a name, and the directories among them one of their own.
LEMMA NamesBelow ==
    ASSUME IsoInv, WriteDir
    PROVE  LET below == ToSet(Entries[Current]) IN
           /\ NamedBelow = below \cap Dirs
           /\ \A e \in below \cap Dirs :
                 \E c \in Seq(Nat) : fit[NameOf(e)] = <<c>>
           /\ \A e, g \in below \cap Dirs : e # g => fit[NameOf(e)] # fit[NameOf(g)]
           /\ \A n \in DOMAIN fit : EntryOf(fit[n]) \in below
<1> DEFINE list == Entries[Current]
           n == Len(list)
<1>1. Placing /\ Pooled /\ vol \in Volumes /\ dirNo < N /\ Cardinality(DOMAIN fit) = n
  BY WriteDirIs DEF IsoInv
<1>2. Current \in Dirs
  BY <1>1, CurrentIs
<1>3. /\ list \in Seq((Files \cup Dirs) \ {Root}) /\ n \in Nat /\ DOMAIN list = 1 .. n
      /\ \A e : e \in ToSet(list) <=> \E j \in 1 .. n : list[j] = e
      /\ \A j \in 1 .. n : list[j] \in Files \cup Dirs
  BY <1>2, EntriesAre
<1>4. \A i, j \in 1 .. n : NameOf(list[i]) = NameOf(list[j]) => i = j
  BY <1>1, <1>2, <1>3, NamesDiffer
<1>5. DOMAIN fit = {NameOf(list[j]) : j \in 1 .. n}
  <2>1. CASE fit = <<>>
    <3>1. DOMAIN fit = {} /\ n = 0
      BY <1>1, <2>1, FS_EmptySet
    <3> QED BY <3>1
  <2>2. CASE fit # <<>>
    BY <1>1, <2>2 DEF Pooled
  <2> QED BY <2>1, <2>2
<1>6. PoolInv(Rules[vol]) /\ IsRule(Rules[vol]) /\ Rules[vol].version # <<>>
  BY <1>1, RuleIs DEF Pooled
<1>7. \A j \in 1 .. n : NameOf(list[j]) \in NamesOf(Rules[vol]) /\ (NameOf(list[j]).file <=> list[j] \in Files)
  BY <1>1, <1>3, NameOfIn
<1>8. ASSUME NEW i \in 1 .. n, NEW j \in 1 .. n, list[i] \in Dirs, fit[NameOf(list[i])] = fit[NameOf(list[j])]
      PROVE  i = j
  <2>1. ~NameOf(list[i]).file
    BY <1>7, <1>8, IsoAssumption
  <2>2. NameOf(list[i]) = NameOf(list[j])
    BY <1>5, <1>6, <1>8, <2>1, PoolApart
  <2> QED BY <1>4, <2>2
<1>9. ASSUME NEW j \in 1 .. n PROVE EntryOf(fit[NameOf(list[j])]) \in ToSet(list)
  <2> DEFINE alike == {i \in DOMAIN list : fit[NameOf(list[i])] = fit[NameOf(list[j])]}
  <2>1. EntryOf(fit[NameOf(list[j])]) = list[Max(alike)]
    BY DEF EntryOf
  <2>2. alike \in SUBSET Nat /\ alike # {} /\ \A x \in alike : x =< n
    BY <1>3
  <2>3. alike \subseteq 1 .. n
    BY <1>3
  <2> HIDE DEF alike
  <2>4. Max(alike) \in 1 .. n
    BY <1>3, <2>2, <2>3, MaxOf
  <2> QED BY <1>3, <2>1, <2>4
<1>10. ASSUME NEW j \in 1 .. n, list[j] \in Dirs PROVE EntryOf(fit[NameOf(list[j])]) = list[j]
  <2> DEFINE alike == {i \in DOMAIN list : fit[NameOf(list[i])] = fit[NameOf(list[j])]}
  <2>1. EntryOf(fit[NameOf(list[j])]) = list[Max(alike)]
    BY DEF EntryOf
  <2>2. alike = {j}
    BY <1>3, <1>8, <1>10
  <2>3. j \in Nat
    BY <1>3
  <2> QED BY <2>1, <2>2, <2>3, MaxOne
<1>11. NamedBelow = ToSet(list) \cap Dirs
  <2>1. \A e \in NamedBelow : e \in ToSet(list) \cap Dirs
    BY <1>5, <1>9 DEF NamedBelow
  <2>2. ASSUME NEW e \in ToSet(list) \cap Dirs PROVE e \in NamedBelow
    <3>1. PICK j \in 1 .. n : list[j] = e
      BY <1>3
    <3>2. NameOf(e) \in DOMAIN fit /\ EntryOf(fit[NameOf(e)]) = e
      BY <1>5, <1>10, <3>1
    <3> QED BY <3>2 DEF NamedBelow
  <2> QED BY <2>1, <2>2
<1>12. ASSUME NEW e \in ToSet(list) \cap Dirs PROVE \E c \in Seq(Nat) : fit[NameOf(e)] = <<c>>
  <2>1. PICK j \in 1 .. n : list[j] = e
    BY <1>3
  <2>2. NameOf(e) \in DOMAIN fit /\ NameOf(e) \in NamesOf(Rules[vol]) /\ ~NameOf(e).file
    BY <1>5, <1>7, <2>1, IsoAssumption
  <2>3. PICK c \in DOMAIN convToLink : fit[NameOf(e)] = Decorate(Translit(NameOf(e), Rules[vol]), Rules[vol], c)
    BY <1>6, <2>2 DEF PoolInv
  <2>4. c \in Seq(Nat)
    BY <1>6, <2>3, CleanSeq DEF PoolInv
  <2>5. fit[NameOf(e)] = <<c>>
    BY <1>6, <2>2, <2>3, <2>4, DecorateIs
  <2> QED BY <2>4, <2>5
<1>13. ASSUME NEW e \in ToSet(list) \cap Dirs, NEW g \in ToSet(list) \cap Dirs, e # g
       PROVE  fit[NameOf(e)] # fit[NameOf(g)]
  BY <1>3, <1>8, <1>13
<1>14. \A m \in DOMAIN fit : EntryOf(fit[m]) \in ToSet(list)
  BY <1>5, <1>9
<1> QED BY <1>11, <1>12, <1>13, <1>14

LEMMA WriteDirDots == IsoInv /\ WriteDir => Dots'
<1> SUFFICES ASSUME IsoInv, WriteDir PROVE Dots'
  OBVIOUS
<1> DEFINE d == Current
<1>1. Placing /\ Dots /\ vol \in Volumes /\ dirNo < N /\ dirNo' = dirNo + 1 /\ vol' = vol
  BY WriteDirIs DEF IsoInv
<1>2. PICK off, len, own :
         /\ {"tmp", "dot", "up"} \subseteq DOMAIN own
         /\ burners' = Settle(Put(burners, <<vol, d>>, own), vol, d, own.dot)
  BY WriteDirIs
<1>3. /\ d \in Dirs /\ d \notin WrittenDirs(vol)
      /\ d # Root => ParentOf(d) \notin WrittenDirs(vol) /\ ParentOf(d) # d
  BY <1>1, CurrentIs
<1> HIDE DEF d
<1>4. \A v : WrittenDirs(v)' = IF v = vol THEN WrittenDirs(v) \cup {d} ELSE WrittenDirs(v)
  BY <1>1, WrittenNext DEF d
<1>5. vol \in Nat \ {0}
  BY <1>1, VolumesAre
<1>6. DOMAIN burners' = DOMAIN burners \cup {<<vol, d>>}
  BY <1>2 DEF Settle, Put
<1>7. DOMAIN burners' = {k \in (1 .. vol) \X Dirs : k[2] \in WrittenDirs(k[1])'}
  <2>1. DOMAIN burners = {k \in (1 .. vol) \X Dirs : k[2] \in WrittenDirs(k[1])}
    BY <1>1 DEF Dots
  <2>2. {k \in (1 .. vol) \X Dirs : k[2] \in WrittenDirs(k[1])'}
        = {k \in (1 .. vol) \X Dirs : k[2] \in WrittenDirs(k[1])} \cup {<<vol, d>>}
    <3>1. ASSUME NEW k \in (1 .. vol) \X Dirs
          PROVE  k[2] \in WrittenDirs(k[1])' <=> k[2] \in WrittenDirs(k[1]) \/ k = <<vol, d>>
      BY <1>4
    <3>2. <<vol, d>> \in (1 .. vol) \X Dirs
      BY <1>3, <1>5
    <3> QED BY <3>1, <3>2
  <2> QED BY <1>6, <2>1, <2>2
<1> DEFINE list == Put(burners, <<vol, d>>, own)
<1>8. /\ DOMAIN list = DOMAIN burners' /\ list[<<vol, d>>] = own
      /\ \A k \in DOMAIN burners : k # <<vol, d>> => list[k] = burners[k]
  BY <1>6 DEF Put
<1>9. <<vol, d>> \notin DOMAIN burners
  BY <1>1, <1>3 DEF Dots
<1>10. \A k \in DOMAIN list : {"tmp", "dot", "up"} \subseteq DOMAIN list[k]
  BY <1>1, <1>2, <1>6, <1>8 DEF Dots
<1> HIDE DEF list
<1>11. \A k \in DOMAIN list :
          burners'[k] = IF k[1] = vol /\ ParentOf(k[2]) = d THEN [list[k] EXCEPT !.up = own.dot] ELSE list[k]
  BY <1>2 DEF Settle, list
<1>12. ASSUME NEW k \in DOMAIN list
       PROVE  /\ {"tmp", "dot", "up"} \subseteq DOMAIN burners'[k] /\ burners'[k].dot = list[k].dot
              /\ burners'[k].up = IF k[1] = vol /\ ParentOf(k[2]) = d THEN own.dot ELSE list[k].up
  BY <1>10, <1>11
<1>13. ASSUME NEW k \in DOMAIN burners', <<k[1], ParentOf(k[2])>> \in DOMAIN burners'
       PROVE  burners'[k].up = burners'[<<k[1], ParentOf(k[2])>>].dot
  <2> DEFINE up == <<k[1], ParentOf(k[2])>>
  <2>1. k \in DOMAIN list /\ up \in DOMAIN list
    BY <1>8, <1>13
  <2>2. CASE up = <<vol, d>>
    BY <1>8, <1>12, <2>1, <2>2
  <2>3. CASE up # <<vol, d>>
    <3>1. ~(k[1] = vol /\ ParentOf(k[2]) = d)
      BY <2>3
    <3>2. up \in DOMAIN burners
      BY <1>6, <1>13, <2>3
    <3>3. k # <<vol, d>>
      <4> SUFFICES ASSUME k = <<vol, d>> PROVE FALSE
        OBVIOUS
      <4>1. d # Root
        BY <2>3, ParentIs
      <4>2. ParentOf(d) \in WrittenDirs(vol)
        BY <1>1, <3>2 DEF Dots
      <4> QED BY <1>3, <4>1, <4>2
    <3>4. k \in DOMAIN burners
      BY <1>6, <1>13, <3>3
    <3>5. burners[k].up = burners[up].dot
      BY <1>1, <3>2, <3>4 DEF Dots, DotsRight
    <3> QED BY <1>8, <1>12, <2>1, <2>3, <3>1, <3>2, <3>3, <3>4, <3>5
  <2> QED BY <2>2, <2>3
<1> QED BY <1>1, <1>7, <1>8, <1>12, <1>13 DEF Dots, DotsRight

LEMMA WriteDirFiling == IsoInv /\ WriteDir => Filing'
<1> SUFFICES ASSUME IsoInv, WriteDir PROVE Filing'
  OBVIOUS
<1> DEFINE d == Current
<1>1. Placing /\ Dots /\ Filing /\ vol \in Volumes /\ dirNo < N /\ dirNo' = dirNo + 1 /\ UNCHANGED <<vol, blkSz>>
  BY WriteDirIs DEF IsoInv
<1>2. PICK off, len, own :
         /\ own.dot.lba = off \div blkSz /\ {"tmp", "dot", "up"} \subseteq DOMAIN own
         /\ burners' = Settle(Put(burners, <<vol, d>>, own), vol, d, own.dot)
         /\ folders' = [e \in DOMAIN folders \cup {d} |->
                      IF e = d THEN [off |-> off, len |-> len, name |-> <<>>]
                      ELSE IF e \in NamedBelow THEN [folders[e] EXCEPT !.name = fit[NameOf(e)]]
                      ELSE folders[e]]
  BY WriteDirIs
<1>3. d \in Dirs /\ d \notin WrittenDirs(vol)
  BY <1>1, CurrentIs
<1>4. WrittenDirs(vol)' = WrittenDirs(vol) \cup {d}
  BY <1>1, WrittenNext
<1> HIDE DEF d
<1>5. DOMAIN folders' = WrittenDirs(vol)'
  BY <1>1, <1>2, <1>4 DEF Filing
<1>6. ASSUME NEW e \in DOMAIN folders'
      PROVE  {"off", "len", "name"} \subseteq DOMAIN folders'[e] /\ burners'[<<vol, e>>].dot.lba = folders'[e].off \div blkSz
  <2> DEFINE list == Put(burners, <<vol, d>>, own)
  <2>1. e \in Dirs /\ <<vol, e>> \in DOMAIN list
        /\ {"tmp", "dot", "up"} \subseteq DOMAIN list[<<vol, e>>]
        /\ list[<<vol, e>>] = IF e = d THEN own ELSE burners[<<vol, e>>]
    <3>1. CASE e = d
      BY <1>2, <1>3, <3>1 DEF Put
    <3>2. CASE e # d
      <4>1. e \in WrittenDirs(vol) /\ e \in Dirs
        BY <1>1, <1>4, <1>5, <3>2, WrittenAll
      <4>2. vol \in 1 .. vol
        BY <1>1, VolumesAre
      <4>3. <<vol, e>> \in DOMAIN burners
        BY <1>1, <4>1, <4>2 DEF Dots
      <4> QED BY <1>1, <3>2, <4>1, <4>3 DEF Dots, Put
    <3> QED BY <3>1, <3>2
  <2> HIDE DEF list
  <2>2. burners'[<<vol, e>>].dot = list[<<vol, e>>].dot
    <3>1. burners'[<<vol, e>>] = IF ParentOf(e) = d THEN [list[<<vol, e>>] EXCEPT !.up = own.dot] ELSE list[<<vol, e>>]
      BY <1>2, <2>1 DEF Settle, list
    <3> QED BY <2>1, <3>1
  <2>3. CASE e = d
    <3>1. folders'[e] = [off |-> off, len |-> len, name |-> <<>>]
      BY <1>2, <2>3
    <3> QED BY <1>2, <2>1, <2>2, <2>3, <3>1
  <2>4. CASE e # d
    <3>1. e \in DOMAIN folders
      BY <1>1, <1>4, <1>5, <2>4 DEF Filing
    <3>2. folders'[e] = IF e \in NamedBelow THEN [folders[e] EXCEPT !.name = fit[NameOf(e)]] ELSE folders[e]
      BY <1>2, <2>4, <3>1
    <3>3. {"off", "len", "name"} \subseteq DOMAIN folders[e] /\ burners[<<vol, e>>].dot.lba = folders[e].off \div blkSz
      BY <1>1, <3>1 DEF Filing
    <3>4. {"off", "len", "name"} \subseteq DOMAIN folders'[e] /\ folders'[e].off = folders[e].off
      BY <3>2, <3>3
    <3> QED BY <2>1, <2>2, <2>4, <3>3, <3>4
  <2> QED BY <2>3, <2>4
<1> QED BY <1>1, <1>5, <1>6 DEF Filing

LEMMA WriteDirNaming == IsoInv /\ WriteDir => Naming'
<1> SUFFICES ASSUME IsoInv, WriteDir PROVE Naming'
  OBVIOUS
<1> DEFINE d == Current
           below == ToSet(Entries[d])
<1>1. /\ Placing /\ Filing /\ Naming /\ vol \in Volumes /\ dirNo < N /\ dirNo' = dirNo + 1 /\ vol' = vol
      /\ names' = [k \in DOMAIN names \cup ({vol} \X below) |->
                           IF k \in DOMAIN names THEN names[k] ELSE fit[NameOf(k[2])]]
  BY WriteDirIs DEF IsoInv
<1>2. PICK off, len, own :
         /\ own.dot.lba = off \div blkSz /\ {"tmp", "dot", "up"} \subseteq DOMAIN own
         /\ burners' = Settle(Put(burners, <<vol, d>>, own), vol, d, own.dot)
         /\ folders' = [e \in DOMAIN folders \cup {d} |->
                      IF e = d THEN [off |-> off, len |-> len, name |-> <<>>]
                      ELSE IF e \in NamedBelow THEN [folders[e] EXCEPT !.name = fit[NameOf(e)]]
                      ELSE folders[e]]
  BY WriteDirIs
<1>3. /\ d \in Dirs /\ d \notin WrittenDirs(vol)
      /\ d # Root => ParentOf(d) \notin WrittenDirs(vol) /\ ParentOf(d) # d
      /\ \A e \in Dirs \ {Root} : ParentOf(e) = d => e \in WrittenDirs(vol)
  BY <1>1, CurrentIs
<1>4. /\ \A v : WrittenDirs(v)' = IF v = vol THEN WrittenDirs(v) \cup {d} ELSE WrittenDirs(v)
      /\ WrittenDirs(vol)' = WrittenDirs(vol) \cup {d}
  BY <1>1, WrittenNext
<1>5. /\ NamedBelow = below \cap Dirs
      /\ \A e \in below \cap Dirs : \E c \in Seq(Nat) : fit[NameOf(e)] = <<c>>
      /\ \A e, g \in below \cap Dirs : e # g => fit[NameOf(e)] # fit[NameOf(g)]
  BY NamesBelow
<1>6. \A e \in Dirs : e \in below <=> e # Root /\ ParentOf(e) = d
  BY <1>3, ParentIs
<1> HIDE DEF d, below
<1>7. vol \in 1 .. Len(Rules) + 1
  BY <1>1 DEF Placing
<1>8. ASSUME NEW v \in 1 .. Len(Rules) + 1, NEW e \in Dirs
      PROVE  <<v, e>> \in DOMAIN names' <=> e # Root /\ ParentOf(e) \in WrittenDirs(v)'
  <2>1. <<v, e>> \in DOMAIN names' <=> <<v, e>> \in DOMAIN names \/ (v = vol /\ e \in below)
    BY <1>1
  <2>2. <<v, e>> \in DOMAIN names <=> e # Root /\ ParentOf(e) \in WrittenDirs(v)
    BY <1>1 DEF Naming
  <2> QED BY <1>4, <1>6, <2>1, <2>2
<1>9. ASSUME NEW e \in Dirs \ {Root}, ParentOf(e) = d
      PROVE  /\ e \in WrittenDirs(vol)'
             /\ folders'[e].name = names'[<<vol, e>>] /\ TextOf(e)' \in Seq(Nat)
             /\ folders'[e].name = <<TextOf(e)'>> /\ folders'[e].name = fit[NameOf(e)] /\ e \in below \cap Dirs
  <2>1. e \in below \cap Dirs
    BY <1>6, <1>9
  <2>2. PICK c \in Seq(Nat) : fit[NameOf(e)] = <<c>>
    BY <1>5, <2>1
  <2>3. e \in WrittenDirs(vol) /\ e # d
    BY <1>3, <1>9
  <2>4. e \in DOMAIN folders /\ "name" \in DOMAIN folders[e]
    BY <1>1, <2>3 DEF Filing
  <2>5. folders'[e] = [folders[e] EXCEPT !.name = fit[NameOf(e)]]
    BY <1>2, <1>5, <2>1, <2>3, <2>4
  <2>6. folders'[e].name = <<c>>
    BY <2>2, <2>4, <2>5
  <2>7. <<vol, e>> \notin DOMAIN names
    BY <1>1, <1>3, <1>7, <1>9 DEF Naming
  <2>8. names'[<<vol, e>>] = fit[NameOf(e)]
    BY <1>1, <2>1, <2>7
  <2>9. TextOf(e)' = c
    BY <2>6 DEF TextOf, Segment
  <2> QED BY <1>4, <2>1, <2>2, <2>3, <2>6, <2>8, <2>9
<1>10. ASSUME NEW e \in Dirs \ {Root}, ParentOf(e) \in WrittenDirs(vol)
       PROVE  /\ e \in WrittenDirs(vol)'
              /\ folders'[e].name = names'[<<vol, e>>] /\ TextOf(e)' \in Seq(Nat)
              /\ folders'[e].name = <<TextOf(e)'>> /\ TextOf(e)' = TextOf(e)
  <2>1. /\ e \in WrittenDirs(vol) /\ folders[e].name = names[<<vol, e>>]
        /\ TextOf(e) \in Seq(Nat) /\ folders[e].name = <<TextOf(e)>>
    BY <1>1, <1>10 DEF Naming
  <2>2. e # d /\ e \in DOMAIN folders /\ e \notin NamedBelow
    BY <1>1, <1>3, <1>5, <1>6, <1>10, <2>1 DEF Filing
  <2>3. folders'[e] = folders[e]
    BY <1>2, <2>2
  <2>4. <<vol, e>> \in DOMAIN names
    BY <1>1, <1>7, <1>10 DEF Naming
  <2>5. names'[<<vol, e>>] = names[<<vol, e>>]
    BY <1>1, <2>4
  <2>6. TextOf(e)' = TextOf(e)
    BY <2>3 DEF TextOf, Segment
  <2> QED BY <1>4, <2>1, <2>3, <2>5, <2>6
<1>11. ASSUME NEW e \in Dirs \ {Root}, ParentOf(e) \in WrittenDirs(vol)'
       PROVE  ParentOf(e) = d \/ ParentOf(e) \in WrittenDirs(vol)
  BY <1>4, <1>11
<1>12. ASSUME NEW e \in Dirs \ {Root}, NEW g \in Dirs \ {Root}, e # g,
              ParentOf(e) = ParentOf(g), ParentOf(e) \in WrittenDirs(vol)'
       PROVE  TextOf(e)' # TextOf(g)'
  <2>1. CASE ParentOf(e) = d
    <3>1. fit[NameOf(e)] # fit[NameOf(g)]
      BY <1>5, <1>9, <1>12, <2>1
    <3>2. fit[NameOf(e)] = <<TextOf(e)'>> /\ fit[NameOf(g)] = <<TextOf(g)'>>
      BY <1>9, <1>12, <2>1
    <3> QED BY <3>1, <3>2
  <2>2. CASE ParentOf(e) \in WrittenDirs(vol)
    <3>1. TextOf(e)' = TextOf(e) /\ TextOf(g)' = TextOf(g)
      BY <1>10, <1>12, <2>2
    <3> QED BY <1>1, <1>12, <2>2, <3>1 DEF Naming
  <2> QED BY <1>11, <1>12, <2>1, <2>2
<1>13. ASSUME NEW e \in Dirs \ {Root}, ParentOf(e) \in WrittenDirs(vol)'
       PROVE  /\ e \in WrittenDirs(vol)'
              /\ folders'[e].name = names'[<<vol, e>>] /\ TextOf(e)' \in Seq(Nat)
              /\ folders'[e].name = <<TextOf(e)'>>
  BY <1>9, <1>10, <1>11, <1>13
<1> QED BY <1>1, <1>8, <1>12, <1>13 DEF Naming

LEMMA WriteDirIsoInv == IsoInv /\ WriteDir => IsoInv'
<1> SUFFICES ASSUME IsoInv, WriteDir PROVE IsoInv'
  OBVIOUS
<1>1. /\ Placing /\ Early /\ Walking /\ Listing /\ stage = "planned" /\ vol \in Volumes /\ dirNo < N
      /\ dirNo' = dirNo + 1 /\ NewPool /\ UNCHANGED <<stage, decoded, vol, pTab, itd, rows, tables>>
  BY WriteDirIs DEF IsoInv
<1>2. Placing'
  <2>1. dirNo \in Nat /\ N \in Nat
    BY <1>1, TableIs DEF Placing, N
  <2>2. dirNo' \in 0 .. N
    BY <1>1, <2>1
  <2> QED BY <1>1, <2>2 DEF Placing, N
<1>3. Early' /\ Listing'
  BY <1>1 DEF Early, Listing
<1>4. Walking'
  <2>1. dirNo # N
    <3>1. dirNo \in Nat /\ N \in Nat
      BY <1>1, TableIs DEF Placing, N
    <3> QED BY <1>1, <3>1
  <2>2. pTab = <<>>
    BY <1>1, <2>1 DEF Walking, N
  <2> QED BY <1>1, <2>2 DEF Walking
<1>5. Pooled'
  <2>1. fit' = <<>> /\ attempt' = 0 /\ DOMAIN fit' = {}
    BY <1>1 DEF NewPool
  <2>2. (vol \in Volumes => PoolInv(Rules[vol]))'
    BY <1>1, NewPoolInv
  <2>3. IsFiniteSet(DOMAIN fit)'
    BY <2>1, FS_EmptySet
  <2> QED BY <2>1, <2>2, <2>3 DEF Pooled
<1> QED BY <1>2, <1>3, <1>4, <1>5, WriteDirDots, WriteDirFiling, WriteDirNaming DEF IsoInv
-----------------------------------------------------------------------------
(***************************************************************************)
(* The order of the keys.                                                  *)
(***************************************************************************)
\* Two texts agree up to a place, and the first one is smaller there or ends.
LessAt(a, b, n) ==
    /\ n <= Len(a) /\ n <= Len(b) /\ \A j \in 1 .. n : a[j] = b[j]
    /\ \/ n = Len(a) /\ Len(a) < Len(b)
       \/ n < Len(a) /\ n < Len(b) /\ a[n+1] < b[n+1]

LEMMA PrefixIs ==
    ASSUME NEW a \in Seq(Nat), NEW b \in Seq(Nat)
    PROVE  IsStrictPrefix(a, b) <=> Len(a) < Len(b) /\ \A j \in 1 .. Len(a) : a[j] = b[j]
<1>1. Len(a) \in Nat /\ Len(b) \in Nat
  OBVIOUS
<1>2. CASE Len(a) <= Len(b)
  <2>1. SubSeq(a, 1, Len(a)) = a
    BY SubSeqFull
  <2>2. SubSeq(b, 1, Len(a)) \in Seq(Nat) /\ Len(SubSeq(b, 1, Len(a))) = Len(a)
    BY <1>1, <1>2, CutIs
  <2>3. \A j \in 1 .. Len(a) : SubSeq(b, 1, Len(a))[j] = b[j]
    BY <1>1, <1>2
  <2>4. a = SubSeq(b, 1, Len(a)) <=> \A j \in 1 .. Len(a) : a[j] = b[j]
    BY <2>2, <2>3, SeqEqual
  <2>5. (\A j \in 1 .. Len(a) : a[j] = b[j]) /\ Len(a) = Len(b) => a = b
    BY SeqEqual
  <2>6. a = b => ~(Len(a) < Len(b))
    BY <1>1
  <2>7. IsStrictPrefix(a, b) <=> a = SubSeq(b, 1, Len(a)) /\ a # b
    BY <1>2, <2>1 DEF IsStrictPrefix, IsPrefix
  <2>8. Len(a) < Len(b) <=> Len(a) # Len(b)
    BY <1>1, <1>2
  <2> DEFINE agree == \A j \in 1 .. Len(a) : a[j] = b[j]
  <2>9. a = b => agree
    OBVIOUS
  <2> HIDE DEF agree
  <2> QED BY <2>4, <2>5, <2>6, <2>7, <2>8, <2>9 DEF agree
<1>3. CASE ~(Len(a) <= Len(b))
  BY <1>1, <1>3 DEF IsStrictPrefix, IsPrefix
<1> QED BY <1>2, <1>3

LEMMA SeqLessIs ==
    ASSUME NEW a \in Seq(Nat), NEW b \in Seq(Nat)
    PROVE  SeqLess(a, b) <=> \E n \in Nat : LessAt(a, b, n)
<1>1. Len(a) \in Nat /\ Len(b) \in Nat /\ DOMAIN a = 1 .. Len(a) /\ DOMAIN b = 1 .. Len(b)
  OBVIOUS
<1>2. ASSUME SeqLess(a, b) PROVE \E n \in Nat : LessAt(a, b, n)
  <2>1. CASE IsStrictPrefix(a, b)
    <3>1. Len(a) < Len(b) /\ \A j \in 1 .. Len(a) : a[j] = b[j]
      BY <2>1, PrefixIs
    <3>2. PICK n \in Nat : n = Len(a)
      BY <1>1
    <3>3. n <= Len(a) /\ n <= Len(b) /\ \A j \in 1 .. n : a[j] = b[j]
      BY <1>1, <3>1, <3>2
    <3>4. LessAt(a, b, n)
      BY <3>1, <3>2, <3>3 DEF LessAt
    <3> QED BY <3>4
  <2>2. CASE \E i \in DOMAIN a \cap DOMAIN b : a[i] < b[i] /\ \A j \in 1 .. i - 1 : a[j] = b[j]
    <3>1. PICK i \in DOMAIN a \cap DOMAIN b : a[i] < b[i] /\ \A j \in 1 .. i - 1 : a[j] = b[j]
      BY <2>2
    <3>2. PICK n \in Nat : n + 1 = i /\ n = i - 1
      <4>1. i - 1 \in Nat /\ (i - 1) + 1 = i
        BY <1>1, <3>1
      <4> QED BY <4>1
    <3>3. n < Len(a) /\ n < Len(b)
      BY <1>1, <3>1, <3>2
    <3>4. \A j \in 1 .. n : a[j] = b[j]
      BY <3>1, <3>2
    <3>5. a[n+1] < b[n+1]
      BY <3>1, <3>2
    <3>6. n <= Len(a) /\ n <= Len(b)
      BY <1>1, <3>3
    <3> QED BY <3>3, <3>4, <3>5, <3>6 DEF LessAt
  <2> QED BY <1>2, <2>1, <2>2 DEF SeqLess
<1>3. ASSUME NEW n \in Nat, LessAt(a, b, n) PROVE SeqLess(a, b)
  <2>1. CASE n = Len(a) /\ Len(a) < Len(b)
    BY <1>3, <2>1, PrefixIs DEF SeqLess, LessAt
  <2>2. CASE n < Len(a) /\ n < Len(b) /\ a[n+1] < b[n+1]
    <3>1. n + 1 \in DOMAIN a \cap DOMAIN b /\ (n + 1) - 1 = n
      BY <1>1, <2>2
    <3>2. \A j \in 1 .. (n + 1) - 1 : a[j] = b[j]
      BY <1>3, <3>1 DEF LessAt
    <3> QED BY <2>2, <3>1, <3>2 DEF SeqLess
  <2> QED BY <1>3, <2>1, <2>2 DEF LessAt
<1> QED BY <1>2, <1>3

\* Two texts are equal, or there is a place up to which they agree.
LEMMA SeqTotal ==
    ASSUME NEW a \in Seq(Nat), NEW b \in Seq(Nat), a # b
    PROVE  SeqLess(a, b) \/ SeqLess(b, a)
<1>1. Len(a) \in Nat /\ Len(b) \in Nat
      /\ (\A i \in 1 .. Len(a) : a[i] \in Nat) /\ (\A i \in 1 .. Len(b) : b[i] \in Nat)
  OBVIOUS
<1> DEFINE S == {n \in Nat : n <= Len(a) /\ n <= Len(b) /\ \A j \in 1 .. n : a[j] = b[j]}
<1>2. PICK n \in S : \A m \in S : m =< n
  <2>1. 0 \in S
    BY <1>1
  <2>2. \A m \in S : m =< Len(a)
    OBVIOUS
  <2>3. S \in SUBSET Nat
    OBVIOUS
  <2> HIDE DEF S
  <2> QED BY <1>1, <2>1, <2>2, <2>3, GreatestOf
<1>3. n \in Nat /\ n <= Len(a) /\ n <= Len(b) /\ \A j \in 1 .. n : a[j] = b[j]
  OBVIOUS
<1>4. ~(n + 1 \in S) /\ n + 1 \in Nat
  BY <1>2, <1>3
<1>5. CASE n < Len(a) /\ n < Len(b)
  <2>1. a[n+1] # b[n+1]
    <3> SUFFICES ASSUME a[n+1] = b[n+1] PROVE FALSE
      OBVIOUS
    <3>1. \A j \in 1 .. n + 1 : a[j] = b[j]
      BY <1>3
    <3> QED BY <1>1, <1>3, <1>4, <1>5, <3>1
  <2>2. a[n+1] \in Nat /\ b[n+1] \in Nat
    BY <1>1, <1>3, <1>5
  <2>3. a[n+1] < b[n+1] \/ b[n+1] < a[n+1]
    BY <2>1, <2>2
  <2>4. CASE a[n+1] < b[n+1]
    BY <1>3, <1>5, <2>4, SeqLessIs DEF LessAt
  <2>5. CASE b[n+1] < a[n+1]
    BY <1>3, <1>5, <2>5, SeqLessIs DEF LessAt
  <2> QED BY <2>3, <2>4, <2>5
<1>6. CASE n = Len(a) /\ n < Len(b)
  BY <1>1, <1>3, <1>6, SeqLessIs DEF LessAt
<1>7. CASE n = Len(b) /\ n < Len(a)
  BY <1>1, <1>3, <1>7, SeqLessIs DEF LessAt
<1>8. CASE n = Len(a) /\ n = Len(b)
  BY <1>3, <1>8, SeqEqual
<1> QED BY <1>1, <1>3, <1>5, <1>6, <1>7, <1>8

LEMMA SeqIrreflexive == ASSUME NEW a \in Seq(Nat) PROVE ~SeqLess(a, a)
<1> SUFFICES ASSUME SeqLess(a, a) PROVE FALSE
  OBVIOUS
<1>1. Len(a) \in Nat /\ \A i \in 1 .. Len(a) : a[i] \in Nat
  OBVIOUS
<1>2. PICK n \in Nat : \/ n = Len(a) /\ Len(a) < Len(a)
                       \/ n < Len(a) /\ n < Len(a) /\ a[n+1] < a[n+1]
  BY SeqLessIs DEF LessAt
<1>3. n < Len(a) => n + 1 \in 1 .. Len(a)
  BY <1>1
<1> QED BY <1>1, <1>2, <1>3

LEMMA SeqTransitive ==
    ASSUME NEW a \in Seq(Nat), NEW b \in Seq(Nat), NEW c \in Seq(Nat), SeqLess(a, b), SeqLess(b, c)
    PROVE  SeqLess(a, c)
<1>1. Len(a) \in Nat /\ Len(b) \in Nat /\ Len(c) \in Nat
      /\ (\A i \in 1 .. Len(a) : a[i] \in Nat) /\ (\A i \in 1 .. Len(b) : b[i] \in Nat)
      /\ (\A i \in 1 .. Len(c) : c[i] \in Nat)
  OBVIOUS
<1>2. PICK n \in Nat : LessAt(a, b, n)
  BY SeqLessIs
<1>3. PICK m \in Nat : LessAt(b, c, m)
  BY SeqLessIs
<1>4. CASE n < m
  <2>1. n < Len(b) /\ n < Len(c) /\ n <= Len(a)
    BY <1>1, <1>2, <1>3, <1>4 DEF LessAt
  <2>2. b[n+1] = c[n+1]
    BY <1>3, <1>4 DEF LessAt
  <2>3. \A j \in 1 .. n : a[j] = c[j]
    BY <1>2, <1>3, <1>4 DEF LessAt
  <2>4. LessAt(a, c, n)
    <3>1. CASE n = Len(a)
      BY <1>1, <2>1, <2>3, <3>1 DEF LessAt
    <3>2. CASE n < Len(a) /\ a[n+1] < b[n+1]
      BY <1>1, <2>1, <2>2, <2>3, <3>2 DEF LessAt
    <3> QED BY <1>2, <3>1, <3>2 DEF LessAt
  <2> QED BY <2>4, SeqLessIs
<1>5. CASE m < n
  <2>1. m < Len(a) /\ m < Len(b) /\ m <= Len(c)
    BY <1>1, <1>2, <1>3, <1>5 DEF LessAt
  <2>2. a[m+1] = b[m+1]
    BY <1>2, <1>5 DEF LessAt
  <2>3. \A j \in 1 .. m : a[j] = c[j]
    BY <1>2, <1>3, <1>5 DEF LessAt
  <2>4. m < Len(c) /\ b[m+1] < c[m+1]
    BY <1>1, <1>3, <2>1 DEF LessAt
  <2>5. LessAt(a, c, m)
    BY <1>1, <2>1, <2>2, <2>3, <2>4 DEF LessAt
  <2> QED BY <2>5, SeqLessIs
<1>6. CASE n = m
  <2>1. \A j \in 1 .. n : a[j] = c[j]
    BY <1>2, <1>3, <1>6 DEF LessAt
  <2>2. n < Len(b) /\ n <= Len(a)
    BY <1>1, <1>2 DEF LessAt
  <2>3. n < Len(c) /\ b[n+1] < c[n+1]
    BY <1>1, <1>3, <1>6, <2>2 DEF LessAt
  <2>4. LessAt(a, c, n)
    <3>1. CASE n = Len(a)
      BY <1>1, <2>1, <2>3, <3>1 DEF LessAt
    <3>2. CASE n < Len(a) /\ a[n+1] < b[n+1]
      <4>1. a[n+1] \in Nat /\ b[n+1] \in Nat /\ c[n+1] \in Nat
        BY <1>1, <2>2, <2>3, <3>2
      <4>2. a[n+1] < c[n+1]
        BY <2>3, <3>2, <4>1
      <4>3. n <= Len(c)
        BY <1>1, <2>3
      <4> QED BY <2>1, <2>2, <2>3, <3>2, <4>2, <4>3 DEF LessAt
    <3> QED BY <1>2, <3>1, <3>2 DEF LessAt
  <2> QED BY <2>4, SeqLessIs
<1> QED BY <1>4, <1>5, <1>6

LEMMA PathOrder ==
    /\ \A k \in Keys : ~PathLess(k, k)
    /\ \A k, l \in Keys : PathLess(k, l) \/ PathLess(l, k) \/ k = l
    /\ \A k, l, m \in Keys : PathLess(k, l) /\ PathLess(l, m) => PathLess(k, m)
<1>1. \A k \in Keys : k[1] \in Nat /\ k[2] \in Nat /\ k[3] \in Seq(Nat) /\ k = <<k[1], k[2], k[3]>>
  BY DEF Keys
<1>2. \A k \in Keys : ~PathLess(k, k)
  BY <1>1, SeqIrreflexive DEF PathLess
<1>3. ASSUME NEW k \in Keys, NEW l \in Keys, k # l PROVE PathLess(k, l) \/ PathLess(l, k)
  <2>1. CASE k[1] = l[1] /\ k[2] = l[2]
    <3>1. k[3] # l[3]
      BY <1>1, <1>3, <2>1
    <3>2. SeqLess(k[3], l[3]) \/ SeqLess(l[3], k[3])
      BY <1>1, <3>1, SeqTotal
    <3> QED BY <2>1, <3>2 DEF PathLess
  <2>2. CASE ~(k[1] = l[1] /\ k[2] = l[2])
    BY <1>1, <2>2 DEF PathLess
  <2> QED BY <2>1, <2>2
<1>4. ASSUME NEW k \in Keys, NEW l \in Keys, NEW m \in Keys, PathLess(k, l), PathLess(l, m)
      PROVE  PathLess(k, m)
  <2>1. k[1] \in Nat /\ k[2] \in Nat /\ l[1] \in Nat /\ l[2] \in Nat /\ m[1] \in Nat /\ m[2] \in Nat
    BY <1>1
  <2>2. CASE k[1] = l[1] /\ k[2] = l[2] /\ l[1] = m[1] /\ l[2] = m[2]
    <3>1. SeqLess(k[3], l[3]) /\ SeqLess(l[3], m[3])
      BY <1>4, <2>1, <2>2 DEF PathLess
    <3>2. SeqLess(k[3], m[3])
      BY <1>1, <3>1, SeqTransitive
    <3> QED BY <2>2, <3>2 DEF PathLess
  <2>3. CASE ~(k[1] = l[1] /\ k[2] = l[2] /\ l[1] = m[1] /\ l[2] = m[2])
    BY <1>4, <2>1, <2>3 DEF PathLess
  <2> QED BY <2>2, <2>3
<1> QED BY <1>2, <1>3, <1>4
\* A set of keys has a first one.
LEMMA FirstOf ==
    ASSUME NEW S \in SUBSET Keys, S # {}, IsFiniteSet(S)
    PROVE  \E k \in S : \A l \in S : ~PathLess(l, k)
<1> DEFINE T == {n \in Nat : \A U \in SUBSET Keys : IsFiniteSet(U) /\ Cardinality(U) = n + 1 =>
                    \E k \in U : \A l \in U : ~PathLess(l, k)}
<1>1. 0 \in T
  <2> SUFFICES ASSUME NEW U \in SUBSET Keys, IsFiniteSet(U), Cardinality(U) = 1
               PROVE  \E k \in U : \A l \in U : ~PathLess(l, k)
    OBVIOUS
  <2>1. PICK k : U = {k}
    BY FS_Singleton
  <2> QED BY <2>1, PathOrder
<1>2. ASSUME NEW n \in T PROVE n + 1 \in T
  <2> SUFFICES ASSUME NEW U \in SUBSET Keys, IsFiniteSet(U), Cardinality(U) = (n + 1) + 1
               PROVE  \E k \in U : \A l \in U : ~PathLess(l, k)
    OBVIOUS
  <2>1. PICK x : x \in U
    <3>1. Cardinality(U) # 0
      OBVIOUS
    <3> QED BY <3>1, FS_EmptySet
  <2>2. IsFiniteSet(U \ {x}) /\ Cardinality(U \ {x}) = n + 1
    BY <2>1, FS_RemoveElement
  <2>3. PICK k \in U \ {x} : \A l \in U \ {x} : ~PathLess(l, k)
    BY <2>2
  <2>4. CASE PathLess(x, k)
    <3>1. ASSUME NEW l \in U PROVE ~PathLess(l, x)
      BY <2>1, <2>3, <2>4, PathOrder
    <3> QED BY <2>1, <3>1
  <2>5. CASE ~PathLess(x, k)
    BY <2>3, <2>5
  <2> QED BY <2>4, <2>5
<1>3. T = Nat
  <2> HIDE DEF T
  <2>1. T \in SUBSET Nat
    BY DEF T
  <2> QED BY <1>1, <1>2, <2>1, NatSetInduction
<1>4. Cardinality(S) \in Nat \ {0}
  BY FS_CardinalityType, FS_EmptySet
<1>5. Cardinality(S) - 1 \in T /\ (Cardinality(S) - 1) + 1 = Cardinality(S)
  BY <1>3, <1>4
<1> QED BY <1>5

LEMMA DirsFinite == IsFiniteSet(Dirs) /\ Cardinality(Dirs) = N
<1> DEFINE f == [i \in 1 .. N |-> PathTable[i]]
<1>1. f \in Bijection(1 .. N, Dirs)
  <2>1. f \in [1 .. N -> Dirs]
    BY TableIs
  <2>2. f \in Injection(1 .. N, Dirs)
    BY <2>1, TableIs DEF Injection, IsInjective
  <2>3. f \in Surjection(1 .. N, Dirs)
    BY <2>1, TableIs DEF Surjection
  <2> QED BY <2>2, <2>3 DEF Bijection
<1>2. ExistsBijection(1 .. N, Dirs)
  BY <1>1 DEF ExistsBijection
<1>3. N \in Nat
  BY TableIs
<1> QED BY <1>2, <1>3, FS_CountingElements, FS_NatBijection

\* No more keys than directories.
LEMMA KeysFinite ==
    ASSUME IsInjective(pTab), \A k \in DOMAIN pTab : pTab[k] \in Dirs
    PROVE  IsFiniteSet(DOMAIN pTab) /\ Cardinality(DOMAIN pTab) <= N
<1> DEFINE f == [k \in DOMAIN pTab |-> pTab[k]]
<1>1. f \in Injection(DOMAIN pTab, Dirs)
  BY DEF IsInjective, Injection
<1>2. IsFiniteSet(Dirs) /\ Cardinality(Dirs) = N
  BY DirsFinite
<1> HIDE DEF f
<1> QED BY <1>1, <1>2, FS_Injection
-----------------------------------------------------------------------------
RootKey == <<1, 1, <<>>>>

LEMMA OpenTableIsoInv == IsoInv /\ OpenTable => IsoInv'
<1> SUFFICES ASSUME IsoInv, OpenTable PROVE IsoInv'
  OBVIOUS
<1>1. /\ vol \in Volumes /\ dirNo = N /\ pTab = <<>>
      /\ pTab' = Put(pTab, RootKey, Root)
      /\ folders' = [folders EXCEPT ![Root].name = RootName]
      /\ UNCHANGED <<stage, blkSz, decoded, vol, dirNo, burners, names, itd, rows, tables, poolVars>>
  BY DEF OpenTable, Planning, vars, N, RootKey
<1>2. Placing' /\ Early' /\ Listing' /\ Dots'
  BY <1>1, DotsKept DEF IsoInv, Placing, Early, Listing
<1>3. Pooled'
  <2>1. /\ convToLink' = convToLink /\ linkToConv' = linkToConv /\ attempt' = attempt /\ fit' = fit
    BY <1>1 DEF poolVars
  <2>2. \A rule : PoolInv(rule)' <=> PoolInv(rule)
    BY <2>1 DEF PoolInv
  <2>3. Current' = Current /\ \A e : NameOf(e)' = NameOf(e)
    BY <1>1 DEF Current, NameOf
  <2> QED BY <1>1, <2>1, <2>2, <2>3 DEF IsoInv, Pooled
<1>4. \A v : WrittenDirs(v)' = WrittenDirs(v)
  BY <1>1, WrittenKept
<1>5. /\ DOMAIN folders' = DOMAIN folders
      /\ \A e \in DOMAIN folders : e # Root => folders'[e] = folders[e]
      /\ Root \in DOMAIN folders => folders'[Root] = [folders[Root] EXCEPT !.name = RootName]
  BY <1>1
<1>6. Filing'
  <2>1. ASSUME NEW e \in DOMAIN folders
        PROVE  {"off", "len", "name"} \subseteq DOMAIN folders'[e] /\ folders'[e].off = folders[e].off
    <3>1. {"off", "len", "name"} \subseteq DOMAIN folders[e]
      BY DEF IsoInv, Filing
    <3>2. CASE e = Root
      BY <1>5, <3>1, <3>2
    <3>3. CASE e # Root
      BY <1>5, <3>1, <3>3
    <3> QED BY <3>2, <3>3
  <2> QED BY <1>1, <1>4, <1>5, <2>1 DEF IsoInv, Filing
<1>7. Naming'
  <2>1. ASSUME NEW e \in Dirs \ {Root}, ParentOf(e) \in WrittenDirs(vol)
        PROVE  folders'[e] = folders[e] /\ TextOf(e)' = TextOf(e)
    <3>1. e \in DOMAIN folders
      BY <2>1 DEF IsoInv, Naming, Filing
    <3>2. folders'[e] = folders[e]
      BY <1>5, <3>1
    <3> QED BY <3>2 DEF TextOf, Segment
  <2> QED BY <1>1, <1>4, <2>1 DEF IsoInv, Naming
<1>8. Walked(<<>>)'
  <2>1. rows' = <<>> /\ itd' = <<>>
    BY <1>1 DEF IsoInv, Walking
  <2>2. DOMAIN pTab' = {RootKey} /\ pTab'[RootKey] = Root
    BY <1>1 DEF Put
  <2>3. RootKey \in Keys
    <3>1. 1 \in Nat \ {0} /\ <<>> \in Seq(Nat)
      BY EmptySeq
    <3> QED BY <3>1 DEF Keys, RootKey
  <2>4. Unvisited' = {RootKey}
    BY <2>1, <2>2 DEF Unvisited
  <2>5. <<>> \in Seq(DOMAIN pTab') /\ Len(<<>>) = 0 /\ Len(rows') = 0 /\ 1 .. Len(<<>>) = {}
    BY <2>1, EmptySeq
  <2>6. IsInjective(pTab')
    BY <2>2 DEF IsInjective
  <2> QED BY <2>1, <2>2, <2>3, <2>4, <2>5, <2>6, TableIs DEF Walked, RootKey
<1>9. Walking'
  <2>1. pTab' # <<>>
    BY <1>1 DEF Put
  <2> QED BY <1>1, <1>8, <2>1 DEF Walking, N
<1> QED BY <1>2, <1>3, <1>6, <1>7, <1>9 DEF IsoInv

Below(d) == {e \in Dirs \ {Root} : ParentOf(e) = d}

KeysOf(d, level, daddy) == {KeyOf(level, daddy, e) : e \in Below(d)}

LEMMA KeyOfIs == \A level, daddy, e : KeyOf(level, daddy, e) = <<level, daddy, TextOf(e)>>
BY DEF KeyOf, TextOf

\* What is filed of a directory: those below it, each under a key of its own.
LEMMA FiledIs ==
    ASSUME IsoInv, dirNo = N, NEW d \in Dirs, NEW level \in Nat \ {0}, NEW daddy \in Nat \ {0}
    PROVE  /\ KeysOf(d, level, daddy) \subseteq Keys
           /\ \A e, g \in Below(d) : KeyOf(level, daddy, e) = KeyOf(level, daddy, g) => e = g
           /\ DOMAIN Filed(d, level, daddy) = DOMAIN pTab \cup KeysOf(d, level, daddy)
           /\ \A e \in Below(d) : Filed(d, level, daddy)[KeyOf(level, daddy, e)] = e
           /\ \A k \in DOMAIN pTab \ KeysOf(d, level, daddy) : Filed(d, level, daddy)[k] = pTab[k]
<1> DEFINE below == Below(d)
           key(e) == KeyOf(level, daddy, e)
           keys == KeysOf(d, level, daddy)
           list == Entries[d]
           at(k) == {i \in DOMAIN list : list[i] \in Dirs /\ key(list[i]) = k}
           F == Filed(d, level, daddy)
<1>1. d \in WrittenDirs(vol)
  BY WrittenAll DEF IsoInv
<1>2. \A e \in below : TextOf(e) \in Seq(Nat)
  BY <1>1 DEF IsoInv, Naming, Below
<1>3. \A e, g \in below : e # g => TextOf(e) # TextOf(g)
  BY <1>1 DEF IsoInv, Naming, Below
<1>4. ToSet(list) \cap Dirs = below
  BY ParentIs DEF Below
<1>5. keys \subseteq Keys
  BY <1>2, KeyOfIs DEF Keys, KeysOf
<1>6. \A e, g \in below : key(e) = key(g) => e = g
  BY <1>3, KeyOfIs
<1>7. F = [k \in DOMAIN pTab \cup keys |-> IF k \in keys THEN list[Max(at(k))] ELSE pTab[k]]
  BY <1>4 DEF Filed, KeysOf
<1>8. ASSUME NEW e \in below PROVE F[key(e)] = e
  <2>1. Len(list) \in Nat /\ DOMAIN list = 1 .. Len(list) /\ e \in ToSet(list)
    BY <1>4, EntriesAre
  <2>2. PICK j \in 1 .. Len(list) : list[j] = e
    BY <2>1 DEF ToSet
  <2>3. at(key(e)) \subseteq 1 .. Len(list) /\ j \in at(key(e))
    BY <2>1, <2>2 DEF Below
  <2>4. Max(at(key(e))) \in at(key(e))
    <3> DEFINE S == at(key(e))
    <3>1. S \in SUBSET Nat /\ S # {} /\ \A x \in S : x =< Len(list)
      BY <2>1, <2>3
    <3> HIDE DEF S
    <3>2. Max(S) \in S
      BY <2>1, <3>1, MaxOf
    <3> QED BY <3>2 DEF S
  <2>5. PICK m \in at(key(e)) : m = Max(at(key(e)))
    BY <2>4
  <2>6. list[m] \in below
    BY <1>4, <2>1, <2>5 DEF ToSet
  <2>7. list[m] = e
    BY <1>6, <2>5, <2>6
  <2>8. F[key(e)] = list[Max(at(key(e)))]
    BY <1>7 DEF KeysOf
  <2> QED BY <2>5, <2>7, <2>8
<1>9. DOMAIN F = DOMAIN pTab \cup keys /\ \A k \in DOMAIN pTab \ keys : F[k] = pTab[k]
  BY <1>7
<1> QED BY <1>5, <1>6, <1>8, <1>9

LEMMA KeyIs == ASSUME NEW k \in Keys
               PROVE  k[1] \in Nat \ {0} /\ k[2] \in Nat \ {0} /\ k[3] \in Seq(Nat) /\ k # <<>>
<1>1. k = <<k[1], k[2], k[3]>>
  BY DEF Keys
<1>2. Len(<<k[1], k[2], k[3]>>) = 3 /\ Len(<<>>) = 0
  OBVIOUS
<1>3. k # <<>>
  BY <1>1, <1>2
<1> QED BY <1>3 DEF Keys

\* The rows are those of the keys on the path.
LEMMA RowsAre ==
    ASSUME NEW path, Walked(path)
    PROVE  /\ Len(path) \in Nat /\ Len(rows) = Len(path)
           /\ \A i \in 1 .. Len(path) : rows[i] = RowOf(path[i])
           /\ rows \in Seq({RowOf(path[i]) : i \in 1 .. Len(path)})
<1>1. Len(path) \in Nat /\ rows = [i \in 1 .. Len(path) |-> RowOf(path[i])]
  BY DEF Walked
<1> DEFINE R == {RowOf(path[i]) : i \in 1 .. Len(path)}
<1>2. rows \in [1 .. Len(path) -> R]
  BY <1>1
<1>3. rows \in Seq(R)
  <2> HIDE DEF R
  <2> QED BY <1>1, <1>2
<1>4. Len(rows) = Len(path)
  BY <1>1, <1>3
<1> QED BY <1>1, <1>3, <1>4

\* A directory that was listed comes before those that were not.
LEMMA ListedBefore ==
    ASSUME NEW path, Walked(path), NEW k \in Unvisited, NEW i \in 1 .. Len(path)
    PROVE  PathLess(path[i], k) /\ path[i] \in DOMAIN pTab /\ path[i] # k
<1>1. /\ DOMAIN pTab \subseteq Keys /\ path \in Seq(DOMAIN pTab)
      /\ \A x, y \in 1 .. Len(path) : x < y => PathLess(path[x], path[y])
      /\ itd = IF Len(path) = 0 THEN <<>> ELSE path[Len(path)]
  BY DEF Walked
<1>2. Len(path) \in Nat /\ i \in 1 .. Len(path) /\ Len(path) \in 1 .. Len(path)
  BY <1>1
<1>3. path[i] \in DOMAIN pTab /\ path[Len(path)] \in DOMAIN pTab /\ k \in DOMAIN pTab
  BY <1>1, <1>2 DEF Unvisited
<1>4. path[i] \in Keys /\ path[Len(path)] \in Keys /\ k \in Keys
  BY <1>1, <1>3
<1>5. itd = path[Len(path)] /\ itd # <<>>
  BY <1>1, <1>2, <1>4, KeyIs
<1>6. PathLess(path[Len(path)], k)
  BY <1>5 DEF Unvisited
<1>7. path[i] = path[Len(path)] \/ PathLess(path[i], path[Len(path)])
  <2>1. i = Len(path) \/ i < Len(path)
    BY <1>2
  <2> QED BY <1>1, <1>2, <2>1
<1>8. PathLess(path[i], k)
  BY <1>4, <1>6, <1>7, PathOrder
<1> QED BY <1>3, <1>4, <1>8, PathOrder

LEMMA VisitDirWalked ==
    ASSUME IsoInv, VisitDir, NEW path, Walked(path), NEW k, k = NextKey
    PROVE  Walked(Append(path, k))'
<1> DEFINE d == pTab[k]
           level == k[1] + 1
           daddy == Len(rows) + 1
           below == Below(d)
           keys == KeysOf(d, level, daddy)
           next == Append(path, k)
<1>1. /\ Unvisited # {} /\ rows' = Append(rows, RowOf(k)) /\ pTab' = Filed(d, level, daddy) /\ itd' = k
      /\ UNCHANGED <<folders, blkSz>>
  BY DEF VisitDir, vars, dirVars
<1>2. /\ path \in Seq(DOMAIN pTab) 
      /\ DOMAIN pTab \subseteq Keys
      /\ \A m \in DOMAIN pTab : pTab[m] \in Dirs
      /\ IsInjective(pTab)
      /\ RootKey \in DOMAIN pTab /\ pTab[RootKey] = Root /\ Len(path) = Len(rows)
  BY RowsAre DEF Walked, RootKey
<1>3. \A m \in DOMAIN pTab : m # RootKey =>
          /\ m[2] \in 1 .. Len(path) /\ pTab[m] # Root
          /\ ParentOf(pTab[m]) = pTab[path[m[2]]]
          /\ m[1] = path[m[2]][1] + 1 /\ m[3] = TextOf(pTab[m])
  BY DEF Walked, RootKey
<1>4. /\ \A i \in 1 .. Len(path) : \A e \in Dirs \ {Root} :
             ParentOf(e) = pTab[path[i]] => \E m \in DOMAIN pTab : pTab[m] = e
      /\ \A i, j \in 1 .. Len(path) : i < j => PathLess(path[i], path[j])
      /\ \A m \in DOMAIN pTab : m \in Unvisited \/ \E i \in 1 .. Len(path) : path[i] = m
      /\ \A i \in 1 .. Len(path) : rows[i] = RowOf(path[i])
  BY RowsAre DEF Walked
<1>5. k \in Unvisited /\ \A l \in Unvisited : ~PathLess(l, k)
  <2>1. Unvisited \subseteq DOMAIN pTab
    BY DEF Unvisited
  <2>2. IsFiniteSet(Unvisited) /\ Unvisited \in SUBSET Keys
    BY <1>2, <2>1, KeysFinite, FS_Subset
  <2>3. \E x \in Unvisited : \A l \in Unvisited : ~PathLess(l, x)
    BY <1>1, <2>2, FirstOf
  <2> QED BY <2>3 DEF NextKey
<1>6. k \in DOMAIN pTab /\ k \in Keys /\ d \in Dirs
  BY <1>2, <1>5 DEF Unvisited
<1>7. k[1] \in Nat \ {0} /\ k[2] \in Nat \ {0} /\ k[3] \in Seq(Nat) /\ k # <<>>
  BY <1>6, KeyIs
<1>8. level \in Nat \ {0} /\ level > 1 /\ level > k[1] /\ Len(path) \in Nat /\ daddy \in Nat \ {0} /\ daddy = Len(path) + 1
  BY <1>2, <1>7
<1>9. dirNo = N /\ \A e : TextOf(e)' = TextOf(e)
  <2>1. pTab # <<>>
    BY <1>6
  <2> QED BY <1>1, <2>1 DEF IsoInv, Walking, N, TextOf, Segment
<1>10. /\ keys \subseteq Keys
       /\ \A e, g \in below : KeyOf(level, daddy, e) = KeyOf(level, daddy, g) => e = g
       /\ DOMAIN pTab' = DOMAIN pTab \cup keys
       /\ \A e \in below : pTab'[KeyOf(level, daddy, e)] = e
       /\ \A m \in DOMAIN pTab \ keys : pTab'[m] = pTab[m]
  <2> HIDE DEF d, level, daddy
  <2>1. /\ keys \subseteq Keys
        /\ \A e, g \in below : KeyOf(level, daddy, e) = KeyOf(level, daddy, g) => e = g
        /\ DOMAIN Filed(d, level, daddy) = DOMAIN pTab \cup keys
        /\ \A e \in below : Filed(d, level, daddy)[KeyOf(level, daddy, e)] = e
        /\ \A m \in DOMAIN pTab \ keys : Filed(d, level, daddy)[m] = pTab[m]
    BY <1>6, <1>8, <1>9, FiledIs
  <2> QED BY <1>1, <2>1
<1> HIDE DEF level, daddy, keys
<1>11. \A e : e \in below <=> e \in Dirs \ {Root} /\ ParentOf(e) = d
  BY DEF Below
<1> HIDE DEF below
<1>12. \A m \in keys : \E e \in below : m = KeyOf(level, daddy, e) /\ m[1] = level /\ m[2] = daddy /\ m[3] = TextOf(e)
  <2> SUFFICES ASSUME NEW m \in keys
               PROVE  \E e \in below : m = KeyOf(level, daddy, e) /\ m[1] = level /\ m[2] = daddy /\ m[3] = TextOf(e)
    OBVIOUS
  <2>1. PICK e \in below : m = KeyOf(level, daddy, e)
    BY DEF keys, KeysOf, below
  <2> QED BY <2>1, KeyOfIs
<1>13. \A m \in keys : m \notin DOMAIN pTab
  <2> SUFFICES ASSUME NEW m \in keys, m \in DOMAIN pTab PROVE FALSE
    OBVIOUS
  <2>1. m[1] = level /\ m[2] = daddy
    BY <1>12
  <2>2. m # RootKey
    BY <1>8, <2>1 DEF RootKey
  <2>3. m[2] \in 1 .. Len(path)
    BY <1>3, <2>2
  <2> QED BY <1>8, <2>1, <2>3
<1>14. \A m \in DOMAIN pTab : pTab'[m] = pTab[m] /\ m \in DOMAIN pTab'
  BY <1>10, <1>13
<1>15. /\ next \in Seq(DOMAIN pTab') /\ Len(next) = Len(path) + 1 /\ next[Len(path) + 1] = k
       /\ \A i \in 1 .. Len(path) : next[i] = path[i] /\ path[i] \in DOMAIN pTab /\ i \in 1 .. Len(next)
       /\ \A i \in 1 .. Len(next) : i \in 1 .. Len(path) \/ i = Len(path) + 1
  <2>1. path \in Seq(DOMAIN pTab') /\ k \in DOMAIN pTab'
    <3>1. \A i \in 1 .. Len(path) : path[i] \in DOMAIN pTab
      BY <1>2
    <3>2. DOMAIN pTab \subseteq DOMAIN pTab'
      BY <1>10
    <3> QED BY <1>2, <1>6, <3>2
  <2> QED BY <1>2, <1>8, <2>1
<1>16. Len(rows') = Len(next)
  BY <1>1, <1>2, <1>15
<1> HIDE DEF next
<1>17. IsInjective(pTab')
  <2> SUFFICES ASSUME NEW x \in DOMAIN pTab', NEW y \in DOMAIN pTab', pTab'[x] = pTab'[y]
               PROVE  x = y
    BY DEF IsInjective
  <2>1. ASSUME NEW m \in DOMAIN pTab, NEW n \in keys PROVE pTab'[m] # pTab'[n]
    <3>1. PICK e \in below : n = KeyOf(level, daddy, e)
      BY <1>12
    <3>2. pTab'[n] = e
      BY <1>10, <3>1
    <3>3. pTab[m] = e => m # RootKey
      BY <1>2, <1>11
    <3>4. pTab[m] = e => m[2] \in 1 .. Len(path) /\ d = pTab[path[m[2]]]
      BY <1>3, <1>11, <3>3
    <3>5. pTab[m] = e => FALSE
      <4> SUFFICES ASSUME pTab[m] = e PROVE FALSE
        OBVIOUS
      <4>1. PICK i \in 1 .. Len(path) : d = pTab[path[i]]
        BY <3>4
      <4>2. path[i] \in DOMAIN pTab /\ path[i] # k
        BY <1>5, ListedBefore
      <4> QED BY <1>2, <1>6, <4>1, <4>2 DEF IsInjective
    <3> QED BY <1>14, <3>2, <3>5
  <2>2. CASE x \in DOMAIN pTab /\ y \in DOMAIN pTab
    BY <1>2, <1>14, <2>2 DEF IsInjective
  <2>3. CASE x \in keys /\ y \in keys
    <3>1. PICK e \in below : x = KeyOf(level, daddy, e)
      BY <1>12, <2>3
    <3>2. PICK g \in below : y = KeyOf(level, daddy, g)
      BY <1>12, <2>3
    <3> QED BY <1>10, <3>1, <3>2
  <2> QED BY <1>10, <2>1, <2>2, <2>3
<1>18. \A m \in DOMAIN pTab' : pTab'[m] \in Dirs
  <2>1. ASSUME NEW m \in keys PROVE pTab'[m] \in Dirs
    <3>1. PICK e \in below : m = KeyOf(level, daddy, e)
      BY <1>12
    <3> QED BY <1>10, <1>11, <3>1
  <2> QED BY <1>2, <1>10, <1>14, <2>1
<1>19. ASSUME NEW m \in DOMAIN pTab', m # RootKey
       PROVE  /\ m[2] \in 1 .. Len(next) /\ pTab'[m] # Root
              /\ ParentOf(pTab'[m]) = pTab'[next[m[2]]]
              /\ m[1] = next[m[2]][1] + 1 /\ m[3] = TextOf(pTab'[m])
  <2>1. CASE m \in DOMAIN pTab
    <3>1. m[2] \in 1 .. Len(path)
      BY <1>3, <1>19, <2>1
    <3> QED BY <1>3, <1>14, <1>15, <1>19, <2>1, <3>1
  <2>2. CASE m \in keys
    <3>1. PICK e \in below : m = KeyOf(level, daddy, e) /\ m[1] = level /\ m[2] = daddy /\ m[3] = TextOf(e)
      BY <1>12, <2>2
    <3>2. pTab'[m] = e /\ next[m[2]] = k /\ m[2] \in 1 .. Len(next)
      BY <1>8, <1>10, <1>15, <3>1
    <3>3. pTab'[k] = d
      BY <1>6, <1>14
    <3>4. e # Root /\ ParentOf(e) = d
      BY <1>11
    <3> QED BY <3>1, <3>2, <3>3, <3>4 DEF level
  <2> QED BY <1>10, <2>1, <2>2
<1>20. ASSUME NEW i \in 1 .. Len(next), NEW e \in Dirs \ {Root}, ParentOf(e) = pTab'[next[i]]
       PROVE  \E m \in DOMAIN pTab' : pTab'[m] = e
  <2>1. CASE i \in 1 .. Len(path)
    <3>1. ParentOf(e) = pTab[path[i]]
      BY <1>14, <1>15, <1>20, <2>1
    <3>2. PICK m \in DOMAIN pTab : pTab[m] = e
      BY <1>4, <2>1, <3>1
    <3> QED BY <1>14, <3>2
  <2>2. CASE i = Len(path) + 1
    <3>1. e \in below
      BY <1>6, <1>14, <1>15, <1>20, <1>11, <2>2
    <3>2. KeyOf(level, daddy, e) \in DOMAIN pTab'
      BY <1>10, <3>1 DEF keys, KeysOf, below
    <3> QED BY <1>10, <3>1, <3>2
  <2> QED BY <1>15, <2>1, <2>2
<1>21. ASSUME NEW i \in 1 .. Len(next), NEW j \in 1 .. Len(next), i < j
       PROVE  PathLess(next[i], next[j])
  <2>1. i \in 1 .. Len(path)
    BY <1>8, <1>15, <1>21
  <2>2. CASE j \in 1 .. Len(path)
    BY <1>4, <1>15, <1>21, <2>1, <2>2
  <2>3. CASE j = Len(path) + 1
    BY <1>5, <1>15, <2>1, <2>3, ListedBefore
  <2> QED BY <1>15, <2>2, <2>3
<1>22. itd' = IF Len(next) = 0 THEN <<>> ELSE next[Len(next)]
  BY <1>1, <1>8, <1>15
<1>23. ASSUME NEW m \in DOMAIN pTab' PROVE m \in Unvisited' \/ \E i \in 1 .. Len(next) : next[i] = m
  <2>1. Unvisited' = {l \in DOMAIN pTab' : PathLess(k, l)}
    BY <1>1, <1>7 DEF Unvisited
  <2>2. CASE m \in keys
    <3>1. m[1] = level
      BY <1>12, <2>2
    <3> QED BY <1>8, <2>1, <3>1 DEF PathLess
  <2>3. CASE m \in Unvisited
    <3>1. m \in Keys /\ ~PathLess(m, k)
      BY <1>2, <1>5, <2>3 DEF Unvisited
    <3>2. PathLess(k, m) \/ m = k
      BY <1>6, <3>1, PathOrder
    <3>3. k = next[Len(path) + 1] /\ Len(path) + 1 \in 1 .. Len(next)
      BY <1>8, <1>15
    <3> QED BY <2>1, <3>2, <3>3
  <2>4. CASE \E i \in 1 .. Len(path) : path[i] = m
    BY <1>15, <2>4
  <2> QED BY <1>4, <1>10, <2>2, <2>3, <2>4
<1>24. ASSUME NEW i \in 1 .. Len(next) PROVE rows'[i] = RowOf(next[i])'
  <2>1. \A m \in DOMAIN pTab : RowOf(m)' = RowOf(m)
    BY <1>1, <1>14 DEF RowOf
  <2>2. rows \in Seq({RowOf(path[j]) : j \in 1 .. Len(path)}) /\ Len(rows) = Len(path)
    BY RowsAre
  <2>3. ASSUME NEW R, NEW q \in Seq(R), NEW r
        PROVE  /\ \A j \in 1 .. Len(q) : Append(q, r)[j] = q[j]
               /\ Append(q, r)[Len(q) + 1] = r
    OBVIOUS
  <2>4. (\A j \in 1 .. Len(path) : rows'[j] = rows[j]) /\ rows'[Len(path) + 1] = RowOf(k)
    BY <1>1, <2>2, <2>3
  <2>5. CASE i \in 1 .. Len(path)
    BY <1>4, <1>15, <2>1, <2>4, <2>5
  <2>6. CASE i = Len(path) + 1
    BY <1>6, <1>15, <2>1, <2>4, <2>6
  <2> QED BY <1>15, <2>5, <2>6
<1>25. DOMAIN pTab' \subseteq Keys /\ RootKey \in DOMAIN pTab' /\ pTab'[RootKey] = Root
  BY <1>2, <1>10, <1>14
<1>26. rows' = [i \in 1 .. Len(next) |-> RowOf(next[i])']
  <2>1. DOMAIN rows' = 1 .. Len(next)
    BY <1>1, <1>16, RowsAre
  <2>2. rows \in Seq({RowOf(path[j]) : j \in 1 .. Len(path)})
    BY RowsAre
  <2>3. ASSUME NEW R, NEW q \in Seq(R), NEW r
        PROVE  Append(q, r) = [i \in DOMAIN Append(q, r) |-> Append(q, r)[i]]
    <3>1. q \in Seq(R \cup {r}) /\ r \in R \cup {r}
      OBVIOUS
    <3>2. Append(q, r) \in Seq(R \cup {r})
      BY <3>1
    <3>3. ASSUME NEW T, NEW s \in Seq(T) PROVE s = [i \in DOMAIN s |-> s[i]]
      <4>1. s \in [1 .. Len(s) -> T]
        OBVIOUS
      <4> QED BY <4>1
    <3> QED BY <3>2, <3>3
  <2>4. rows' = [i \in DOMAIN rows' |-> rows'[i]]
    BY <1>1, <2>2, <2>3
  <2> QED BY <1>24, <2>1, <2>4
<1>27. Walked(next)'
  <2>1. next \in Seq(DOMAIN pTab')
    BY <1>15
  <2>2. \A m \in DOMAIN pTab' : m # RootKey =>
              /\ m[2] \in 1 .. Len(next) /\ pTab'[m] # Root
              /\ ParentOf(pTab'[m]) = pTab'[next[m[2]]]
              /\ m[1] = next[m[2]][1] + 1 /\ m[3] = Segment(folders'[pTab'[m]].name, 1)
    BY <1>1, <1>19 DEF TextOf, Segment
  <2>3. \A i \in 1 .. Len(next) : \A e \in Dirs \ {Root} :
              ParentOf(e) = pTab'[next[i]] => \E m \in DOMAIN pTab' : pTab'[m] = e
    BY <1>20
  <2>4. \A i, j \in 1 .. Len(next) : i < j => PathLess(next[i], next[j])
    BY <1>21
  <2>5. \A m \in DOMAIN pTab' : m \in Unvisited' \/ \E i \in 1 .. Len(next) : next[i] = m
    BY <1>23
  <2> QED BY <1>17, <1>18, <1>22, <1>25, <1>26, <2>1, <2>2, <2>3, <2>4, <2>5 DEF Walked, TextOf, Segment, RootKey
<1> QED BY <1>27 DEF next

LEMMA VisitDirIsoInv == IsoInv /\ VisitDir => IsoInv'
<1> SUFFICES ASSUME IsoInv, VisitDir PROVE IsoInv'
  OBVIOUS
<1>1. /\ Unvisited # {} /\ pTab' = Filed(pTab[NextKey], NextKey[1] + 1, Len(rows) + 1)
      /\ UNCHANGED <<stage, blkSz, decoded, vol, dirNo, burners, folders, names, tables, poolVars>>
  BY DEF VisitDir, vars, dirVars
<1>2. pTab # <<>>
  BY <1>1 DEF Unvisited
<1>3. dirNo = N /\ \E path : Walked(path)
  BY <1>2 DEF IsoInv, Walking, N
<1>4. PICK path : Walked(path)
  BY <1>3
<1>5. PICK k : k = NextKey
  OBVIOUS
<1>6. Walked(Append(path, k))'
  BY <1>4, <1>5, VisitDirWalked
<1>7. Placing' /\ Early' /\ Listing' /\ Dots' /\ Filing' /\ Naming'
  BY <1>1, DotsKept, FilingKept, NamingKept DEF IsoInv, Placing, Early, Listing
<1>8. Pooled'
  <2>1. /\ convToLink' = convToLink /\ linkToConv' = linkToConv /\ attempt' = attempt /\ fit' = fit
    BY <1>1 DEF poolVars
  <2>2. \A rule : PoolInv(rule)' <=> PoolInv(rule)
    BY <2>1 DEF PoolInv
  <2>3. Current' = Current /\ \A e : NameOf(e)' = NameOf(e)
    BY <1>1 DEF Current, NameOf
  <2> QED BY <1>1, <2>1, <2>2, <2>3 DEF IsoInv, Pooled
<1>9. pTab' # <<>>
  <2>1. DOMAIN pTab \subseteq DOMAIN pTab' /\ DOMAIN pTab # {}
    BY <1>1 DEF Filed, Unvisited
  <2> QED BY <2>1
<1>10. Walking'
  BY <1>1, <1>3, <1>6, <1>9 DEF Walking, N
<1> QED BY <1>7, <1>8, <1>10 DEF IsoInv

LEMMA WriteTablesIsoInv == IsoInv /\ WriteTables => IsoInv'
<1> SUFFICES ASSUME IsoInv, WriteTables PROVE IsoInv'
  OBVIOUS
<1>1. /\ stage = "planned" /\ vol \in Volumes /\ pTab # <<>>
      /\ \E t : tables' = Put(tables, vol, t)
      /\ vol' = vol + 1 /\ dirNo' = 0
      /\ folders' = <<>> /\ pTab' = <<>> /\ itd' = <<>> /\ rows' = <<>>
      /\ UNCHANGED <<stage, blkSz, decoded, burners, names, poolVars>>
  BY DEF WriteTables, Planning, vars
<1>2. dirNo = N /\ fit = <<>>
  BY <1>1 DEF IsoInv, Walking, Pooled, N
<1>3. vol \in 1 .. Len(Rules) /\ Len(Rules) \in Nat /\ N \in Nat
  BY <1>1, VolumesAre, TableIs
<1>4. Placing'
  <2>1. vol' \in 1 .. Len(Rules) + 1 /\ 0 \in 0 .. N
    BY <1>1, <1>3
  <2> QED BY <1>1, <2>1 DEF IsoInv, Placing, N
<1>5. Dirs = {PathTable[i] : i \in 1 .. N} /\ DOMAIN PathTable = 1 .. N
  BY TableIs DEF Dirs, ToSet
<1>6. \A v : WrittenDirs(v)' = {PathTable[i] : i \in {j \in 1 .. N : v < vol + 1 \/ (v = vol + 1 /\ j > N - 0)}}
  BY <1>1, <1>5 DEF WrittenDirs, N
<1>7. \A v \in 1 .. vol : WrittenDirs(v) = Dirs /\ WrittenDirs(v)' = Dirs
  <2>1. \A v \in 1 .. vol : WrittenDirs(v) = Dirs
    BY <1>2, <1>3, WrittenAll DEF IsoInv
  <2>2. ASSUME NEW v \in 1 .. vol PROVE WrittenDirs(v)' = Dirs
    <3>1. {j \in 1 .. N : v < vol + 1 \/ (v = vol + 1 /\ j > N - 0)} = 1 .. N
      BY <1>3
    <3> QED BY <1>5, <1>6, <3>1
  <2> QED BY <2>1, <2>2
<1>8. \A v \in Nat : v > vol => WrittenDirs(v) = {} /\ WrittenDirs(v)' = {}
  <2>1. \A v \in Nat : v > vol => WrittenDirs(v) = {}
    BY WrittenAll DEF IsoInv
  <2>2. ASSUME NEW v \in Nat, v > vol PROVE WrittenDirs(v)' = {}
    <3>1. {j \in 1 .. N : v < vol + 1 \/ (v = vol + 1 /\ j > N - 0)} = {}
      BY <1>3, <2>2
    <3> QED BY <1>6, <3>1
  <2> QED BY <2>1, <2>2
<1>9. WrittenDirs(vol)' = {}
  <2>1. {j \in 1 .. N : vol' < vol' \/ (vol' = vol' /\ j > N - dirNo')} = {}
    BY <1>1, <1>3
  <2>2. WrittenDirs(vol)' = {PathTable[i] : i \in {j \in 1 .. N : vol' < vol' \/ (vol' = vol' /\ j > N - dirNo')}}
    BY <1>5 DEF WrittenDirs, N
  <2> QED BY <2>1, <2>2
<1>10. Early' /\ Walking' /\ Listing'
  <2>1. DOMAIN tables' = DOMAIN tables \cup {vol}
    BY <1>1 DEF Put
  <2>2. DOMAIN tables \subseteq 1 .. vol - 1
    BY DEF IsoInv, Listing
  <2>3. DOMAIN tables' \subseteq 1 .. vol' - 1
    BY <1>1, <1>3, <2>1, <2>2
  <2> QED BY <1>1, <2>3 DEF Early, Walking, Listing
<1>11. Pooled'
  <2>1. /\ convToLink' = convToLink /\ linkToConv' = linkToConv /\ attempt' = attempt /\ fit' = fit
    BY <1>1 DEF poolVars
  <2>2. PoolInv(Rules[vol])
    BY <1>1 DEF IsoInv, Pooled
  <2>3. \A rule : PoolInv(rule)'
    BY <1>2, <2>1, <2>2 DEF PoolInv
  <2>4. fit' = <<>> /\ IsFiniteSet(DOMAIN fit') /\ attempt' \in Nat
    BY <1>2, <2>1 DEF IsoInv, Pooled
  <2> QED BY <2>3, <2>4 DEF Pooled
<1>12. Dots'
  <2>1. ASSUME NEW v, NEW d \in Dirs
        PROVE  v \in 1 .. vol' /\ d \in WrittenDirs(v)' <=> v \in 1 .. vol /\ d \in WrittenDirs(v)
    <3>1. v \in 1 .. vol' <=> v \in 1 .. vol \/ v = vol + 1
      BY <1>1, <1>3
    <3>2. v = vol + 1 => v \in Nat /\ v > vol
      BY <1>3
    <3> QED BY <1>7, <1>8, <3>1, <3>2
  <2>2. {k \in (1 .. vol') \X Dirs : k[2] \in WrittenDirs(k[1])'} = {k \in (1 .. vol) \X Dirs : k[2] \in WrittenDirs(k[1])}
    BY <2>1
  <2> QED BY <1>1, <2>2 DEF IsoInv, Dots, DotsRight
<1>13. Filing'
  BY <1>1, <1>9 DEF Filing
<1>14. Naming'
  <2>1. ASSUME NEW v \in 1 .. Len(Rules) + 1 PROVE WrittenDirs(v)' = WrittenDirs(v)
    <3>1. v \in 1 .. vol \/ (v \in Nat /\ v > vol)
      BY <1>3
    <3> QED BY <1>7, <1>8, <3>1
  <2> QED BY <1>1, <1>9, <2>1 DEF IsoInv, Naming
<1> QED BY <1>4, <1>10, <1>11, <1>12, <1>13, <1>14 DEF IsoInv

LEMMA NextIsoInv == IsoInv /\ [IsoNext]_allVars => IsoInv'
<1> SUFFICES ASSUME IsoInv, [IsoNext]_allVars PROVE IsoInv'
  OBVIOUS
<1>1. CASE Layout /\ UNCHANGED <<poolVars, isoVars>>
  BY <1>1, LayoutIsoInv
<1>2. ASSUME NEW slave \in SlaveLens, PlanHead(slave) \/ BreachOfTrust(slave) PROVE IsoInv'
  BY <1>2, HeadIsoInv
<1>3. CASE FitEntry
  BY <1>3, FitEntryIsoInv
<1>4. CASE WriteDir
  BY <1>4, WriteDirIsoInv
<1>5. CASE OpenTable
  BY <1>5, OpenTableIsoInv
<1>6. CASE VisitDir
  BY <1>6, VisitDirIsoInv
<1>7. CASE WriteTables
  BY <1>7, WriteTablesIsoInv
<1>8. CASE PlanMeta \/ CommitTmp \/ ReadVolume
  BY <1>8, LateIsoInv
<1>9. CASE UNCHANGED allVars
  <2>1. UNCHANGED kept /\ stage' = stage /\ blkSz' = blkSz
    BY <1>9 DEF allVars, isoVars, vars, kept
  <2> QED BY <2>1, QuietIsoInv
<1> QED BY <1>1, <1>2, <1>3, <1>4, <1>5, <1>6, <1>7, <1>8, <1>9 DEF IsoNext
-----------------------------------------------------------------------------
(***************************************************************************)
(* The path table when it is written.                                      *)
(***************************************************************************)
\* No directory is listed twice, and one that is not leaves room for its row.
LEMMA PathLen ==
    ASSUME NEW path, Walked(path)
    PROVE  /\ Len(path) \in Nat /\ Len(path) <= N
           /\ Unvisited # {} => Len(path) < N
           /\ \A i, j \in 1 .. Len(path) : pTab[path[i]] = pTab[path[j]] => i = j
<1>1. /\ path \in Seq(DOMAIN pTab) /\ Len(path) \in Nat /\ DOMAIN pTab \subseteq Keys
      /\ IsInjective(pTab) /\ \A k \in DOMAIN pTab : pTab[k] \in Dirs
      /\ \A i, j \in 1 .. Len(path) : i < j => PathLess(path[i], path[j])
  BY SMTT(30) DEF Walked
<1>2. \A i \in 1 .. Len(path) : path[i] \in DOMAIN pTab /\ path[i] \in Keys
  BY <1>1
<1>3. ASSUME NEW i \in 1 .. Len(path), NEW j \in 1 .. Len(path), path[i] = path[j] PROVE i = j
  <2>1. ~(i < j) /\ ~(j < i)
    BY <1>1, <1>2, <1>3, PathOrder
  <2> QED BY <1>1, <2>1
<1>4. \A i, j \in 1 .. Len(path) : pTab[path[i]] = pTab[path[j]] => i = j
  BY <1>1, <1>2, <1>3 DEF IsInjective
<1>5. IsFiniteSet(DOMAIN pTab) /\ Cardinality(DOMAIN pTab) <= N /\ Cardinality(DOMAIN pTab) \in Nat
  BY <1>1, KeysFinite, FS_CardinalityType
<1> DEFINE listed == {path[i] : i \in 1 .. Len(path)}
           f == [i \in 1 .. Len(path) |-> path[i]]
<1>6. Cardinality(listed) = Len(path)
  <2>1. f \in Bijection(1 .. Len(path), listed)
    <3>1. f \in [1 .. Len(path) -> listed]
      OBVIOUS
    <3>2. f \in Injection(1 .. Len(path), listed)
      BY <1>3, <3>1 DEF Injection, IsInjective
    <3>3. f \in Surjection(1 .. Len(path), listed)
      BY <3>1 DEF Surjection
    <3> QED BY <3>2, <3>3 DEF Bijection
  <2>2. ExistsBijection(1 .. Len(path), listed)
    BY <2>1 DEF ExistsBijection
  <2> HIDE DEF f, listed
  <2> QED BY <1>1, <2>2, FS_CountingElements
<1>7. listed \in SUBSET DOMAIN pTab
  BY <1>2
<1>8. Unvisited # {} => listed # DOMAIN pTab
  <2> SUFFICES ASSUME Unvisited # {} PROVE listed # DOMAIN pTab
    OBVIOUS
  <2>1. PICK k \in Unvisited : TRUE
    OBVIOUS
  <2>2. k \in DOMAIN pTab /\ k \notin listed
    BY <2>1, ListedBefore DEF Unvisited
  <2> QED BY <2>2
<1> HIDE DEF listed
<1>9. /\ Cardinality(listed) <= Cardinality(DOMAIN pTab)
      /\ Cardinality(DOMAIN pTab) = Cardinality(listed) => DOMAIN pTab = listed
  BY <1>5, <1>7, FS_Subset
<1>10. N \in Nat
  BY TableIs
<1> QED BY <1>1, <1>4, <1>5, <1>6, <1>8, <1>9, <1>10

\* When no directory is left they all have a row.
LEMMA PathFull ==
    ASSUME NEW path, Walked(path), Unvisited = {}
    PROVE  /\ \A d \in Dirs : \E i \in 1 .. Len(path) : pTab[path[i]] = d
           /\ Len(path) = Cardinality(Dirs)
<1>1. /\ path \in Seq(DOMAIN pTab) /\ \A k \in DOMAIN pTab : \E i \in 1 .. Len(path) : path[i] = k
      /\ RootKey \in DOMAIN pTab /\ pTab[RootKey] = Root
      /\ \A k \in DOMAIN pTab : pTab[k] \in Dirs
      /\ \A i \in 1 .. Len(path) : \A e \in Dirs \ {Root} :
             ParentOf(e) = pTab[path[i]] => \E k \in DOMAIN pTab : pTab[k] = e
  BY DEF Walked, RootKey
<1> DEFINE T == {n \in Nat : \A m \in 1 .. N : m <= n => \E k \in DOMAIN pTab : pTab[k] = PathTable[m]}
<1>2. 0 \in T
  BY TableIs
<1>3. ASSUME NEW n \in T PROVE n + 1 \in T
  <2> SUFFICES ASSUME NEW m \in 1 .. N, m = n + 1 PROVE \E k \in DOMAIN pTab : pTab[k] = PathTable[m]
    BY TableIs
  <2>1. CASE m = 1
    BY <1>1, <2>1, TableIs
  <2>2. CASE m # 1
    <3>1. m \in 2 .. N /\ PathTable[m] \in Dirs /\ PathTable[m] # Root
      BY <2>2, TableIs
    <3>2. PICK j \in 1 .. m - 1 : ParentOf(PathTable[m]) = PathTable[j]
      BY <3>1, ParentIs
    <3>3. j \in 1 .. N /\ j <= n
      BY <3>1, <3>2, TableIs
    <3>4. PICK k \in DOMAIN pTab : pTab[k] = PathTable[j]
      BY <3>3
    <3>5. PICK i \in 1 .. Len(path) : path[i] = k
      BY <1>1
    <3>6. ParentOf(PathTable[m]) = pTab[path[i]]
      BY <3>2, <3>4, <3>5
    <3>7. PathTable[m] \in Dirs \ {Root}
      BY <3>1
    <3> QED BY <1>1, <3>6, <3>7
  <2> QED BY <2>1, <2>2
<1>4. T = Nat
  <2> HIDE DEF T
  <2>1. T \in SUBSET Nat
    BY DEF T
  <2> QED BY <1>2, <1>3, <2>1, NatSetInduction
<1>5. ASSUME NEW d \in Dirs PROVE \E i \in 1 .. Len(path) : pTab[path[i]] = d
  <2>1. PICK m \in 1 .. N : PathTable[m] = d
    BY TableIs
  <2>2. m \in T
    <3> HIDE DEF T
    <3>1. m \in Nat
      BY TableIs
    <3> QED BY <1>4, <3>1
  <2>3. PICK k \in DOMAIN pTab : pTab[k] = d
    BY <2>1, <2>2
  <2> QED BY <1>1, <2>3
<1> DEFINE f == [i \in 1 .. Len(path) |-> pTab[path[i]]]
<1>6. ExistsBijection(1 .. Len(path), Dirs)
  <2>1. f \in [1 .. Len(path) -> Dirs]
    BY <1>1
  <2>2. f \in Injection(1 .. Len(path), Dirs)
    BY <2>1, PathLen DEF Injection, IsInjective
  <2>3. f \in Surjection(1 .. Len(path), Dirs)
    BY <1>5, <2>1 DEF Surjection
  <2>4. f \in Bijection(1 .. Len(path), Dirs)
    BY <2>2, <2>3 DEF Bijection
  <2> QED BY <2>4 DEF ExistsBijection
<1>7. Len(path) \in Nat
  BY PathLen
<1> QED BY <1>5, <1>6, <1>7, FS_CountingElements

\* A parent has its row before, and rows go by parent and name.
LEMMA PathOrdered ==
    ASSUME NEW path, Walked(path)
    PROVE  /\ \A i \in 1 .. Len(path) : path[i] # RootKey =>
                  path[i][2] \in 1 .. Len(path) /\ path[i][2] < i
           /\ \A i \in 2 .. Len(path) : path[i] # RootKey
           /\ \A i \in 2 .. Len(path) - 1 :
                \/ path[i][2] < path[i+1][2]
                \/ path[i][2] = path[i+1][2] /\ SeqLess(path[i][3], path[i+1][3])
<1>1. /\ path \in Seq(DOMAIN pTab) /\ Len(path) \in Nat /\ DOMAIN pTab \subseteq Keys
      /\ RootKey \in DOMAIN pTab
      /\ \A i, j \in 1 .. Len(path) : i < j => PathLess(path[i], path[j])
      /\ \A k \in DOMAIN pTab : k # RootKey => k[2] \in 1 .. Len(path) /\ k[1] = path[k[2]][1] + 1
  BY DEF Walked, RootKey
<1>2. \A i \in 1 .. Len(path) : path[i] \in DOMAIN pTab /\ path[i] \in Keys /\ path[i][1] \in Nat \ {0} /\ path[i][2] \in Nat
  BY <1>1, KeyIs
<1>3. \A i, j \in 1 .. Len(path) : path[i][1] < path[j][1] => i < j
  <2> SUFFICES ASSUME NEW i \in 1 .. Len(path), NEW j \in 1 .. Len(path), path[i][1] < path[j][1], ~(i < j)
               PROVE  FALSE
    OBVIOUS
  <2>1. i = j \/ j < i
    OBVIOUS
  <2>2. PathLess(path[j], path[i]) \/ i = j
    BY <1>1, <2>1
  <2> QED BY <1>2, <2>2 DEF PathLess
<1>4. ASSUME NEW i \in 1 .. Len(path), path[i] # RootKey
      PROVE  path[i][2] \in 1 .. Len(path) /\ path[i][2] < i /\ path[i][1] = path[path[i][2]][1] + 1 /\ path[i][1] > 1
  <2>1. path[i][2] \in 1 .. Len(path) /\ path[i][1] = path[path[i][2]][1] + 1
    BY <1>1, <1>2, <1>4
  <2>2. path[path[i][2]][1] \in Nat \ {0}
    BY <1>2, <2>1
  <2>3. path[path[i][2]][1] < path[i][1] /\ path[i][1] > 1
    BY <2>1, <2>2
  <2> QED BY <1>3, <2>1, <2>3
<1>5. ASSUME NEW i \in 2 .. Len(path), path[i] = RootKey PROVE FALSE
  <2>1. 1 \in 1 .. Len(path) /\ i \in 1 .. Len(path) /\ 1 < i
    BY <1>1
  <2>2. PathLess(path[1], RootKey)
    BY <1>1, <1>5, <2>1
  <2>3. RootKey \in Keys
    BY <1>1
  <2>4. path[1] # RootKey
    BY <2>2, <2>3, PathOrder
  <2>5. path[1][1] > 1 /\ RootKey[1] = 1
    BY <1>4, <2>1, <2>4 DEF RootKey
  <2> QED BY <1>2, <2>1, <2>2, <2>5 DEF PathLess
<1>6. ASSUME NEW i \in 2 .. Len(path) - 1
      PROVE  \/ path[i][2] < path[i+1][2]
             \/ path[i][2] = path[i+1][2] /\ SeqLess(path[i][3], path[i+1][3])
  <2>1. i \in 1 .. Len(path) /\ i + 1 \in 1 .. Len(path) /\ i + 1 \in 2 .. Len(path) /\ i \in 2 .. Len(path) /\ i < i + 1
    BY <1>1
  <2>2. path[i] # RootKey /\ path[i+1] # RootKey
    BY <1>5, <2>1
  <2>3. PathLess(path[i], path[i+1])
    BY <1>1, <2>1
  <2>4. CASE path[i][1] = path[i+1][1]
    <3>1. path[i][1] \in Nat
      BY <1>2, <2>1
    <3> QED BY <2>3, <2>4, <3>1 DEF PathLess
  <2>5. CASE path[i][1] < path[i+1][1]
    <3> DEFINE p == path[i][2]
               q == path[i+1][2]
    <3>1. p \in 1 .. Len(path) /\ path[i][1] = path[p][1] + 1 /\ q \in 1 .. Len(path) /\ path[i+1][1] = path[q][1] + 1
      BY <1>4, <2>1, <2>2
    <3> HIDE DEF p, q
    <3>2. path[p][1] \in Nat /\ path[q][1] \in Nat
      BY <1>2, <3>1
    <3>5. path[p][1] + 1 < path[q][1] + 1
      BY <2>5, <3>1
    <3>3. path[p][1] < path[q][1]
      BY <3>2, <3>5
    <3>4. p < q
      BY <1>3, <3>1, <3>3
    <3> QED BY <3>4 DEF p, q
  <2> QED BY <2>3, <2>4, <2>5 DEF PathLess
<1> QED BY <1>4, <1>5, <1>6
\* What PathTableRight says of the tables of one volume.
TableRight(v) ==
    LET list == tables[v].rows IN
    /\ Len(list) = Cardinality(Dirs)
    /\ \A d \in Dirs \ {Root} : \E i, j \in DOMAIN list :
          /\ list[i].lba = burners[<<v, d>>].dot.lba /\ list[i].name = names[<<v, d>>]
          /\ list[j].lba = burners[<<v, ParentOf(d)>>].dot.lba /\ list[i].parent = j /\ j < i
    /\ \A i \in 2 .. Len(list) - 1 :
          \/ list[i].parent < list[i+1].parent
          \/ list[i].parent = list[i+1].parent /\ NameLess(list[i].name, list[i+1].name)

LEMMA SegmentLess ==
    ASSUME NEW a, NEW b, SeqLess(a, b)
    PROVE  NameLess(<<a>>, <<b>>)
<1>1. 1 \in DOMAIN <<a>> \cup DOMAIN <<b>> /\ Segment(<<a>>, 1) = a /\ Segment(<<b>>, 1) = b
  BY DEF Segment
<1>2. \A j \in 1 .. 1 - 1 : Segment(<<a>>, j) = Segment(<<b>>, j)
  OBVIOUS
<1> QED BY <1>1, <1>2 DEF NameLess

\* What is written for the volume at hand is right.
LEMMA TableWritten ==
    ASSUME N < PathCap, IsoInv, WriteTables, NEW v, v = vol
    PROVE  TableRight(v)'
<1>1. /\ Planning /\ pTab # <<>> /\ (Unvisited = {} \/ Len(rows) + 1 >= PathCap)
      /\ burners' = burners /\ names' = names
  BY DEF WriteTables
<1>2. tables'[v].rows = rows
  BY DEF WriteTables, Put
<1>3. /\ v \in 1 .. Len(Rules) /\ Len(Rules) \in Nat /\ PathCap \in Nat /\ N \in Nat /\ dirNo = N
      /\ \E path : Walked(path)
  BY <1>1, VolumesAre, IsoAssumption, TableIs DEF Planning, IsoInv, Walking, N
<1>4. PICK path : Walked(path)
  BY <1>3
<1>5. /\ Len(path) \in Nat /\ Len(rows) = Len(path) /\ DOMAIN rows = 1 .. Len(path)
      /\ \A i \in 1 .. Len(path) : rows[i] = RowOf(path[i])
  BY <1>4, RowsAre DEF Walked
<1>6. Unvisited = {}
  <2>1. Unvisited # {} => Len(path) < N
    BY <1>4, PathLen
  <2> QED BY <1>1, <1>3, <1>5, <2>1
<1>7. Len(path) = Cardinality(Dirs) /\ \A d \in Dirs : \E i \in 1 .. Len(path) : pTab[path[i]] = d
  BY <1>4, <1>6, PathFull
<1>8. /\ path \in Seq(DOMAIN pTab)
      /\ pTab[RootKey] = Root /\ \A k \in DOMAIN pTab : pTab[k] \in Dirs
      /\ \A k \in DOMAIN pTab : k # RootKey =>
             pTab[k] # Root /\ ParentOf(pTab[k]) = pTab[path[k[2]]] /\ k[3] = TextOf(pTab[k])
  BY <1>4 DEF Walked, RootKey
<1>9. \A i \in 1 .. Len(path) : path[i] \in DOMAIN pTab
  BY <1>8
<1>10. /\ \A i \in 1 .. Len(path) : path[i] # RootKey =>
              path[i][2] \in 1 .. Len(path) /\ path[i][2] < i
       /\ \A i \in 2 .. Len(path) : path[i] # RootKey
       /\ \A i \in 2 .. Len(path) - 1 :
            \/ path[i][2] < path[i+1][2]
            \/ path[i][2] = path[i+1][2] /\ SeqLess(path[i][3], path[i+1][3])
  BY <1>4, PathOrdered
<1>11. \A d \in Dirs : burners[<<v, d>>].dot.lba = folders[d].off \div blkSz
  BY <1>3, WrittenAll DEF IsoInv, Filing
<1>12. \A d \in Dirs \ {Root} : folders[d].name = names[<<v, d>>] /\ folders[d].name = <<TextOf(d)>>
  BY <1>3, WrittenAll, ParentIs DEF IsoInv, Naming
<1>13. ASSUME NEW i \in 1 .. Len(path)
       PROVE  /\ rows[i].lba = folders[pTab[path[i]]].off \div blkSz
              /\ rows[i].name = folders[pTab[path[i]]].name /\ rows[i].parent = path[i][2]
  BY <1>5 DEF RowOf
<1>14. ASSUME NEW d \in Dirs \ {Root}
       PROVE  \E i, j \in DOMAIN rows :
                 /\ rows[i].lba = burners[<<v, d>>].dot.lba /\ rows[i].name = names[<<v, d>>]
                 /\ rows[j].lba = burners[<<v, ParentOf(d)>>].dot.lba /\ rows[i].parent = j /\ j < i
  <2>1. PICK i \in 1 .. Len(path) : pTab[path[i]] = d
    BY <1>7
  <2>2. path[i] # RootKey
    BY <1>8, <2>1
  <2>3. PICK j \in 1 .. Len(path) : path[i][2] = j /\ j < i
    BY <1>10, <2>2
  <2>4. pTab[path[j]] = ParentOf(d) /\ ParentOf(d) \in Dirs
    BY <1>8, <1>9, <2>1, <2>2, <2>3, ParentIs
  <2>5. rows[i].lba = burners[<<v, d>>].dot.lba /\ rows[i].name = names[<<v, d>>] /\ rows[i].parent = j
    BY <1>11, <1>12, <1>13, <2>1, <2>3
  <2>6. rows[j].lba = burners[<<v, ParentOf(d)>>].dot.lba
    BY <1>11, <1>13, <2>4
  <2> QED BY <1>5, <2>3, <2>5, <2>6
<1>15. ASSUME NEW i \in 2 .. Len(rows) - 1
       PROVE  \/ rows[i].parent < rows[i+1].parent
              \/ rows[i].parent = rows[i+1].parent /\ NameLess(rows[i].name, rows[i+1].name)
  <2>1. i \in 1 .. Len(path) /\ i + 1 \in 1 .. Len(path) /\ i \in 2 .. Len(path) - 1
        /\ i \in 2 .. Len(path) /\ i + 1 \in 2 .. Len(path)
    BY <1>5
  <2>2. rows[i].parent = path[i][2] /\ rows[i+1].parent = path[i+1][2]
    BY <1>13, <2>1
  <2>3. CASE path[i][2] < path[i+1][2]
    BY <2>2, <2>3
  <2>4. CASE path[i][2] = path[i+1][2] /\ SeqLess(path[i][3], path[i+1][3])
    <3>1. ASSUME NEW m \in 2 .. Len(path), m \in 1 .. Len(path) PROVE rows[m].name = <<path[m][3]>>
      <4>1. path[m] \in DOMAIN pTab /\ path[m] # RootKey
        BY <1>9, <1>10, <3>1
      <4>2. PICK d \in Dirs \ {Root} : d = pTab[path[m]] /\ path[m][3] = TextOf(d)
        BY <1>8, <4>1
      <4> QED BY <1>12, <1>13, <3>1, <4>2
    <3>2. rows[i].name = <<path[i][3]>> /\ rows[i+1].name = <<path[i+1][3]>>
      BY <2>1, <3>1
    <3> QED BY <2>2, <2>4, <3>2, SegmentLess
  <2> QED BY <1>10, <2>1, <2>3, <2>4
<1>16. /\ Len(rows) = Cardinality(Dirs)
       /\ \A d \in Dirs \ {Root} : \E i, j \in DOMAIN rows :
                 /\ rows[i].lba = burners[<<v, d>>].dot.lba /\ rows[i].name = names[<<v, d>>]
                 /\ rows[j].lba = burners[<<v, ParentOf(d)>>].dot.lba /\ rows[i].parent = j /\ j < i
       /\ \A i \in 2 .. Len(rows) - 1 :
              \/ rows[i].parent < rows[i+1].parent
              \/ rows[i].parent = rows[i+1].parent /\ NameLess(rows[i].name, rows[i+1].name)
  BY <1>5, <1>7, <1>14, <1>15
<1> QED BY <1>1, <1>2, <1>16 DEF TableRight

\* What is said of a table that is written stays: its directories have their
\* names and places.
LEMMA TableStays ==
    ASSUME IsoInv, IsoInv', [IsoNext]_allVars, NEW v \in 1 .. vol - 1, TableRight(v),
           tables'[v] = tables[v]
    PROVE  TableRight(v)'
<1>1. v \in Nat /\ v \in 1 .. vol /\ v \in 1 .. Len(Rules) + 1 /\ WrittenDirs(v) = Dirs
  BY WrittenAll, VolumesAre DEF IsoInv, Placing
<1>2. \A d \in Dirs : <<v, d>> \in DOMAIN burners /\ {"tmp", "dot", "up"} \subseteq DOMAIN burners[<<v, d>>]
  BY <1>1 DEF IsoInv, Dots
<1>3. \A d \in Dirs \ {Root} : <<v, d>> \in DOMAIN names
  BY <1>1, ParentIs DEF IsoInv, Naming
<1>4. /\ \A d \in Dirs : burners'[<<v, d>>].dot = burners[<<v, d>>].dot
      /\ \A d \in Dirs \ {Root} : names'[<<v, d>>] = names[<<v, d>>]
  <2>1. CASE WriteDir
    <3>1. names' = [k \in DOMAIN names \cup ({vol} \X ToSet(Entries[Current])) |->
                           IF k \in DOMAIN names THEN names[k] ELSE fit[NameOf(k[2])]]
      BY <2>1, WriteDirIs
    <3>2. PICK off, len, own :
             /\ own.dot.lba = off \div blkSz /\ {"tmp", "dot", "up"} \subseteq DOMAIN own
             /\ burners' = Settle(Put(burners, <<vol, Current>>, own), vol, Current, own.dot)
             /\ folders' = [e \in DOMAIN folders \cup {Current} |->
                          IF e = Current THEN [off |-> off, len |-> len, name |-> <<>>]
                          ELSE IF e \in NamedBelow THEN [folders[e] EXCEPT !.name = fit[NameOf(e)]]
                          ELSE folders[e]]
      BY <2>1, WriteDirIs
    <3>3. v # vol
      BY DEF IsoInv, Placing
    <3>4. ASSUME NEW d \in Dirs PROVE burners'[<<v, d>>] = burners[<<v, d>>]
      BY <1>2, <3>2, <3>3 DEF Settle, Put
    <3> QED BY <1>3, <3>1, <3>4
  <2>2. CASE ~WriteDir
    <3>1. burners' = burners /\ names' = names
      BY <2>2 DEF IsoNext, allVars, isoVars, dirVars, PlanHead, BreachOfTrust, FitEntry, OpenTable,
                  VisitDir, WriteTables, PlanMeta, CommitTmp, ReadVolume
    <3> QED BY <3>1
  <2> QED BY <2>1, <2>2
<1>5. \A d \in Dirs \ {Root} : ParentOf(d) \in Dirs
  BY ParentIs
<1> QED BY <1>4, <1>5 DEF TableRight

LEMMA NextTableRight ==
    ASSUME N < PathCap, IsoInv, IsoInv', PathTableRight, [IsoNext]_allVars
    PROVE  PathTableRight'
<1>1. \A v \in DOMAIN tables : TableRight(v)
  BY DEF PathTableRight, TableRight
<1>2. DOMAIN tables \subseteq 1 .. vol - 1
  BY DEF IsoInv, Listing
<1>3. ASSUME NEW v \in DOMAIN tables' PROVE TableRight(v)'
  <2>1. CASE v \in DOMAIN tables /\ tables'[v] = tables[v]
    BY <1>1, <1>2, <2>1, TableStays
  <2>2. CASE ~(v \in DOMAIN tables /\ tables'[v] = tables[v])
    <3>1. tables' # tables
      BY <1>3, <2>2
    <3>2. WriteTables
      BY <3>1 DEF IsoNext, allVars, isoVars, tabVars, PlanHead, BreachOfTrust, FitEntry, WriteDir, OpenTable,
                  VisitDir, PlanMeta, CommitTmp, ReadVolume
    <3>3. \E t : tables' = Put(tables, vol, t)
      BY <3>2 DEF WriteTables
    <3>4. v = vol
      BY <1>3, <2>2, <3>3 DEF Put
    <3> QED BY <3>2, <3>4, TableWritten
  <2> QED BY <2>1, <2>2
<1> QED BY <1>3 DEF PathTableRight, TableRight

(***************************************************************************)
(* The path table lists every directory once, under its name and place and *)
(* the number of its parent, which comes before it, and in order, on every *)
(* tree of directories that the table has room for.                        *)
(***************************************************************************)
THEOREM PathTableAlways == ASSUME Len(PathTable) < PathCap PROVE IsoSpec => []PathTableRight
<1>1. IsoInit => IsoInv /\ PathTableRight
  <2>1. IsoInit => tables = <<>>
    BY DEF IsoInit
  <2>2. tables = <<>> => PathTableRight
    BY DEF PathTableRight
  <2> QED BY <2>1, <2>2, InitIsoInv
<1>2. IsoInv /\ PathTableRight /\ [IsoNext]_allVars => (IsoInv /\ PathTableRight)'
  <2> SUFFICES ASSUME IsoInv, PathTableRight, [IsoNext]_allVars PROVE (IsoInv /\ PathTableRight)'
    OBVIOUS
  <2>1. IsoInv'
    BY NextIsoInv
  <2>2. N < PathCap
    BY DEF N
  <2> QED BY <2>1, <2>2, NextTableRight
<1> QED BY <1>1, <1>2, PTL DEF IsoSpec

(***************************************************************************)
(* In every volume a directory has its own place in "." and its parent's   *)
(* in "..".                                                                *)
(***************************************************************************)
THEOREM DotsRightAlways == IsoSpec => []DotsRight
<1>1. IsoInv => DotsRight
  BY DEF IsoInv, Dots
<1> QED BY <1>1, InitIsoInv, NextIsoInv, PTL DEF IsoSpec

(***************************************************************************)
(* Names of a directory are written alike only if they are files with a    *)
(* stem in common, or of which one is cut at its dot and the other is not, *)
(* whatever numbers were mixed in.                                         *)
(***************************************************************************)
THEOREM NamesApartAlways == IsoSpec => []NamesApart
<1>1. IsoInv => NamesApart
  <2> SUFFICES ASSUME IsoInv PROVE NamesApart
    OBVIOUS
  <2>1. CASE vol \in Volumes
    <3>1. IsRule(Rules[vol]) /\ Rules[vol].version # <<>> /\ PoolInv(Rules[vol])
      BY <2>1, RuleIs DEF IsoInv, Pooled
    <3>2. ASSUME NEW a \in DOMAIN fit, NEW b \in DOMAIN fit, a # b, Conv(fit[a]) = Conv(fit[b])
          PROVE  a.file /\ b.file /\ (Stems(a) \cap Stems(b) # {} \/ Len(fit[a]) # Len(fit[b]))
      BY <3>1, <3>2, ConvApart
    <3> QED BY <3>2 DEF NamesApart
  <2>2. CASE vol \notin Volumes
    <3>1. DOMAIN fit = {}
      BY <2>2 DEF IsoInv, Pooled
    <3> QED BY <3>1 DEF NamesApart
  <2> QED BY <2>1, <2>2
<1> QED BY <1>1, InitIsoInv, NextIsoInv, PTL DEF IsoSpec
-----------------------------------------------------------------------------
(***************************************************************************)
(* The order of the names in a directory.                                  *)
(***************************************************************************)
\* What goes in front of a segment but the first one.
Between(n, i) == IF i = Len(n) THEN Semi ELSE Stop

\* No version is empty.
Names ==
    {n \in Seq(Seq(Nat)) :
        /\ n # <<>>
        /\ \A i \in 2 .. Len(n) : Tail(n[i]) \in Seq(Nat) /\ n[i] = <<Between(n, i)>> \o Tail(n[i])
        /\ Len(n) = 1 \/ Tail(n[Len(n)]) # <<>>}

\* The segments up to a place are the same, and there the first name is smaller.
NamedBefore(a, b, n) ==
    SeqLess(Segment(a, n), Segment(b, n)) /\ \A j \in 1 .. n - 1 : Segment(a, j) = Segment(b, j)

LEMMA SegmentIs ==
    ASSUME NEW a \in Names
    PROVE  /\ Len(a) \in Nat \ {0} /\ \A i : Segment(a, i) \in Seq(Nat)
           /\ Segment(a, 1) = a[1] /\ a[1] \in Seq(Nat)
           /\ \A i \in 2 .. Len(a) : a[i] = <<Between(a, i)>> \o Segment(a, i)
           /\ \A i : i \notin 1 .. Len(a) => Segment(a, i) = <<>>
           /\ Len(a) = 1 \/ Segment(a, Len(a)) # <<>>
<1>1. a \in Seq(Seq(Nat)) /\ Len(a) \in Nat \ {0} /\ DOMAIN a = 1 .. Len(a)
  BY EmptySeq DEF Names
<1>2. <<>> \in Seq(Nat)
  OBVIOUS
<1>3. Segment(a, 1) = a[1] /\ a[1] \in Seq(Nat)
  BY <1>1 DEF Segment
<1>4. ASSUME NEW i \in 2 .. Len(a)
      PROVE  Segment(a, i) = Tail(a[i]) /\ Segment(a, i) \in Seq(Nat) /\ a[i] = <<Between(a, i)>> \o Segment(a, i)
  <2>1. i \in 1 .. Len(a) /\ i # 1
    BY <1>1
  <2>2. Segment(a, i) = Tail(a[i])
    BY <1>1, <2>1 DEF Segment
  <2>3. Tail(a[i]) \in Seq(Nat) /\ a[i] = <<Between(a, i)>> \o Tail(a[i])
    BY DEF Names
  <2> QED BY <2>2, <2>3
<1>5. ASSUME NEW i PROVE Segment(a, i) \in Seq(Nat) /\ (i \notin 1 .. Len(a) => Segment(a, i) = <<>>)
  <2>1. i \notin 1 .. Len(a) => Segment(a, i) = <<>>
    BY <1>1 DEF Segment
  <2>2. i \in 1 .. Len(a) => i = 1 \/ i \in 2 .. Len(a)
    BY <1>1
  <2> QED BY <1>2, <1>3, <1>4, <2>1, <2>2
<1>6. Len(a) = 1 \/ Segment(a, Len(a)) # <<>>
  <2>1. Len(a) # 1 => Len(a) \in 2 .. Len(a)
    BY <1>1
  <2>2. Len(a) = 1 \/ Tail(a[Len(a)]) # <<>>
    BY DEF Names
  <2> QED BY <1>4, <2>1, <2>2
<1> QED BY <1>1, <1>3, <1>4, <1>5, <1>6

LEMMA NameLessIs ==
    ASSUME NEW a \in Names, NEW b \in Names
    PROVE  NameLess(a, b) <=> \E n \in Nat \ {0} : NamedBefore(a, b, n)
<1>1. /\ DOMAIN a = 1 .. Len(a) /\ DOMAIN b = 1 .. Len(b) /\ Len(a) \in Nat /\ Len(b) \in Nat
  BY DEF Names
<1>2. ASSUME NEW n \in Nat \ {0}, NamedBefore(a, b, n) PROVE n \in DOMAIN a \cup DOMAIN b
  <2> SUFFICES ASSUME n \notin DOMAIN a, n \notin DOMAIN b PROVE FALSE
    OBVIOUS
  <2>1. Segment(a, n) = <<>> /\ Segment(b, n) = <<>>
    BY DEF Segment
  <2>2. SeqLess(<<>>, <<>>) /\ <<>> \in Seq(Nat)
    BY <1>2, <2>1 DEF NamedBefore
  <2> QED BY <2>2, SeqIrreflexive
<1>3. \A n \in DOMAIN a \cup DOMAIN b : n \in Nat \ {0}
  BY <1>1
<1> QED BY <1>2, <1>3 DEF NameLess, NamedBefore

LEMMA NameIrreflexive == ASSUME NEW a \in Names PROVE ~NameLess(a, a)
<1> SUFFICES ASSUME NameLess(a, a) PROVE FALSE
  OBVIOUS
<1>1. PICK n \in Nat \ {0} : NamedBefore(a, a, n)
  BY NameLessIs
<1>2. Segment(a, n) \in Seq(Nat) /\ SeqLess(Segment(a, n), Segment(a, n))
  BY <1>1, SegmentIs DEF NamedBefore
<1> QED BY <1>2, SeqIrreflexive

LEMMA NameTransitive ==
    ASSUME NEW a \in Names, NEW b \in Names, NEW c \in Names, NameLess(a, b), NameLess(b, c)
    PROVE  NameLess(a, c)
<1>1. PICK n \in Nat \ {0} : NamedBefore(a, b, n)
  BY NameLessIs
<1>2. PICK m \in Nat \ {0} : NamedBefore(b, c, m)
  BY NameLessIs
<1>3. \A i : Segment(a, i) \in Seq(Nat) /\ Segment(b, i) \in Seq(Nat) /\ Segment(c, i) \in Seq(Nat)
  BY SegmentIs
<1>4. CASE n < m
  <2>1. n \in 1 .. m - 1 /\ \A j \in 1 .. n - 1 : j \in 1 .. m - 1
    BY <1>4
  <2>2. NamedBefore(a, c, n)
    BY <1>1, <1>2, <2>1 DEF NamedBefore
  <2> QED BY <2>2, NameLessIs
<1>5. CASE m < n
  <2>1. m \in 1 .. n - 1 /\ \A j \in 1 .. m - 1 : j \in 1 .. n - 1
    BY <1>5
  <2>2. NamedBefore(a, c, m)
    BY <1>1, <1>2, <2>1 DEF NamedBefore
  <2> QED BY <2>2, NameLessIs
<1>6. CASE n = m
  <2>1. SeqLess(Segment(a, n), Segment(c, n))
    BY <1>1, <1>2, <1>3, <1>6, SeqTransitive DEF NamedBefore
  <2>2. NamedBefore(a, c, n)
    BY <1>1, <1>2, <1>6, <2>1 DEF NamedBefore
  <2> QED BY <2>2, NameLessIs
<1> QED BY <1>4, <1>5, <1>6

\* Names that differ do so in a segment, as the last one is empty only when it
\* is the first one, and the separators are where they always are.
LEMMA NameTotal ==
    ASSUME NEW a \in Names, NEW b \in Names, a # b
    PROVE  NameLess(a, b) \/ NameLess(b, a)
<1>1. /\ a \in Seq(Seq(Nat)) /\ b \in Seq(Seq(Nat)) /\ Len(a) \in Nat \ {0} /\ Len(b) \in Nat \ {0}
      /\ Len(a) = 1 \/ Segment(a, Len(a)) # <<>>
      /\ Len(b) = 1 \/ Segment(b, Len(b)) # <<>>
  BY SegmentIs DEF Names
<1>2. /\ \A i : Segment(a, i) \in Seq(Nat) /\ Segment(b, i) \in Seq(Nat)
      /\ a[1] = Segment(a, 1) /\ b[1] = Segment(b, 1)
      /\ \A i \in 2 .. Len(a) : a[i] = <<Between(a, i)>> \o Segment(a, i)
      /\ \A i : i \notin 1 .. Len(a) => Segment(a, i) = <<>>
      /\ \A i \in 2 .. Len(b) : b[i] = <<Between(b, i)>> \o Segment(b, i)
      /\ \A i : i \notin 1 .. Len(b) => Segment(b, i) = <<>>
  BY SegmentIs
<1> DEFINE S == {n \in Nat : n # 0 /\ Segment(a, n) # Segment(b, n)}
<1>3. S # {}
  <2> SUFFICES ASSUME S = {} PROVE FALSE
    OBVIOUS
  <2>1. \A n \in Nat \ {0} : Segment(a, n) = Segment(b, n)
    OBVIOUS
  <2>2. ~(Len(a) < Len(b))
    <3> SUFFICES ASSUME Len(a) < Len(b) PROVE FALSE
      OBVIOUS
    <3>0. \A m, n \in Nat \ {0} : m < n => n \in 1 .. n /\ n \notin 1 .. m /\ n # 1
      OBVIOUS
    <3>1. Len(b) \in 1 .. Len(b) /\ Len(b) \notin 1 .. Len(a) /\ Len(b) # 1
      BY <1>1, <3>0, Zenon
    <3>2. Segment(a, Len(b)) = <<>>
      BY <1>2, <3>1
    <3> QED BY <1>1, <2>1, <3>1, <3>2
  <2>3. ~(Len(b) < Len(a))
    <3> SUFFICES ASSUME Len(b) < Len(a) PROVE FALSE
      OBVIOUS
    <3>0. \A m, n \in Nat \ {0} : m < n => n \in 1 .. n /\ n \notin 1 .. m /\ n # 1
      OBVIOUS
    <3>1. Len(a) \in 1 .. Len(a) /\ Len(a) \notin 1 .. Len(b) /\ Len(a) # 1
      BY <1>1, <3>0, Zenon
    <3>2. Segment(b, Len(a)) = <<>>
      BY <1>2, <3>1
    <3> QED BY <1>1, <2>1, <3>1, <3>2
  <2>4. Len(a) = Len(b)
    BY <1>1, <2>2, <2>3
  <2>5. ASSUME NEW i \in 1 .. Len(a) PROVE a[i] = b[i]
    <3>1. i \in Nat \ {0}
      BY <1>1
    <3>2. Segment(a, i) = Segment(b, i)
      BY <2>1, <3>1
    <3>3. CASE i = 1
      BY <1>2, <3>2, <3>3
    <3>4. CASE i # 1
      <4>1. i \in 2 .. Len(a) /\ i \in 2 .. Len(b) /\ Between(a, i) = Between(b, i)
        BY <1>1, <2>4, <3>4 DEF Between
      <4> QED BY <1>2, <3>2, <4>1
    <3> QED BY <3>3, <3>4
  <2>6. a = b
    BY <1>1, <2>4, <2>5, SeqEqual
  <2> QED BY <2>6
<1>4. PICK n \in S : \A y \in S : n =< y
  <2>1. S \in SUBSET Nat
    OBVIOUS
  <2> HIDE DEF S
  <2> QED BY <1>3, <2>1, LeastOf
<1>5. n \in Nat \ {0} /\ Segment(a, n) # Segment(b, n)
  OBVIOUS
<1>6. \A j \in 1 .. n - 1 : Segment(a, j) = Segment(b, j)
  <2> SUFFICES ASSUME NEW j \in 1 .. n - 1, Segment(a, j) # Segment(b, j) PROVE FALSE
    OBVIOUS
  <2>1. j \in Nat /\ j # 0 /\ ~(n =< j)
    BY <1>5
  <2>2. j \in S
    BY <2>1
  <2> QED BY <1>4, <2>1, <2>2
<1>7. SeqLess(Segment(a, n), Segment(b, n)) \/ SeqLess(Segment(b, n), Segment(a, n))
  BY <1>2, <1>5, SeqTotal
<1>8. NamedBefore(a, b, n) \/ NamedBefore(b, a, n)
  BY <1>6, <1>7 DEF NamedBefore
<1> QED BY <1>5, <1>8, NameLessIs
-----------------------------------------------------------------------------
\* The elements in order are all there, each once.
LEMMA InOrderIs ==
    ASSUME NEW S \in SUBSET Names, IsFiniteSet(S)
    PROVE  LET list == InOrder(S, NameLess) IN
           /\ Cardinality(S) \in Nat /\ list \in [1 .. Cardinality(S) -> S]
           /\ \A x \in S : \E i \in 1 .. Cardinality(S) : list[i] = x
           /\ \A i, j \in 1 .. Cardinality(S) : list[i] = list[j] => i = j
<1> DEFINE below(x) == {y \in S : NameLess(y, x)}
           rank(x) == Cardinality(below(x))
           n == Cardinality(S)
           f == [x \in S |-> rank(x)]
<1>1. n \in Nat
  BY FS_CardinalityType
<1>2. ASSUME NEW x \in S
      PROVE  IsFiniteSet(below(x)) /\ rank(x) \in Nat /\ rank(x) \in 0 .. n - 1 /\ rank(x) + 1 \in 1 .. n
  <2>1. below(x) \subseteq S /\ x \in S /\ x \notin below(x)
    BY NameIrreflexive
  <2>2. IsFiniteSet(S \ {x}) /\ Cardinality(S \ {x}) = n - 1
    BY FS_RemoveElement
  <2>3. below(x) \in SUBSET (S \ {x})
    BY <2>1
  <2> HIDE DEF below
  <2>4. IsFiniteSet(below(x)) /\ Cardinality(below(x)) <= n - 1
    BY <2>2, <2>3, FS_Subset
  <2>5. Cardinality(below(x)) \in Nat
    BY <2>4, FS_CardinalityType
  <2> QED BY <1>1, <2>4, <2>5
<1>3. ASSUME NEW x \in S, NEW y \in S, NameLess(x, y) PROVE rank(x) < rank(y)
  <2>1. below(x) \subseteq below(y) /\ x \in below(y) /\ x \notin below(x)
    BY <1>3, NameTransitive, NameIrreflexive
  <2>2. IsFiniteSet(below(y)) /\ rank(x) \in Nat /\ rank(y) \in Nat
    BY <1>2
  <2>3. below(x) \in SUBSET below(y) /\ below(x) # below(y)
    BY <2>1
  <2> HIDE DEF below
  <2>4. Cardinality(below(x)) <= Cardinality(below(y))
        /\ (Cardinality(below(x)) = Cardinality(below(y)) => below(x) = below(y))
    BY <2>2, <2>3, FS_Subset
  <2> QED BY <2>2, <2>3, <2>4
<1>4. ASSUME NEW x \in S, NEW y \in S, rank(x) = rank(y) PROVE x = y
  <2> SUFFICES ASSUME x # y PROVE FALSE
    OBVIOUS
  <2>1. NameLess(x, y) \/ NameLess(y, x)
    BY NameTotal
  <2>2. rank(x) \in Nat /\ rank(y) \in Nat
    BY <1>2
  <2> HIDE DEF rank
  <2> QED BY <1>3, <1>4, <2>1, <2>2
<1>5. \A i \in 0 .. n - 1 : \E x \in S : rank(x) = i
  <2>1. f \in [S -> 0 .. n - 1]
    BY <1>2
  <2>2. \A x, y \in S : f[x] = f[y] => x = y
    <3> HIDE DEF rank
    <3> QED BY <1>4
  <2>3. f \in Injection(S, 0 .. n - 1)
    <3> HIDE DEF f
    <3> QED BY <2>1, <2>2 DEF Injection, IsInjective
  <2>4. IsFiniteSet(0 .. n - 1) /\ Cardinality(0 .. n - 1) = n
    <3>1. CASE n = 0
      <4>1. 0 .. n - 1 = {}
        BY <3>1
      <4> QED BY <3>1, <4>1, FS_EmptySet
    <3>2. CASE n # 0
      <4>1. 0 \in Int /\ n - 1 \in Int
        BY <1>1
      <4>2. IsFiniteSet(0 .. n - 1) /\ Cardinality(0 .. n - 1) = IF 0 > n - 1 THEN 0 ELSE (n - 1) - 0 + 1
        BY <4>1, FS_Interval
      <4>3. (n - 1) - 0 + 1 = n /\ ~(0 > n - 1)
        BY <1>1, <3>2
      <4> QED BY <4>2, <4>3
    <3> QED BY <3>1, <3>2
  <2> HIDE DEF f
  <2>5. {f[x] : x \in S} = 0 .. n - 1
    <3> DEFINE T == {f[x] : x \in S}
    <3>1. T \in SUBSET (0 .. n - 1)
      BY <2>1
    <3>2. f \in Bijection(S, T)
      <4>1. f \in [S -> T]
        BY <2>1
      <4> HIDE DEF T
      <4>2. f \in Injection(S, T)
        BY <4>1, <2>2 DEF Injection, IsInjective
      <4>3. f \in Surjection(S, T)
        BY <4>1 DEF Surjection, T
      <4> QED BY <4>2, <4>3 DEF Bijection
    <3> HIDE DEF T
    <3>3. Cardinality(T) = n
      <4>1. ExistsBijection(S, T)
        BY <3>2 DEF ExistsBijection
      <4> QED BY <4>1, FS_Bijection
    <3>4. T = 0 .. n - 1
      BY <2>4, <3>1, <3>3, FS_Subset
    <3> QED BY <3>4 DEF T
  <2>6. \A x \in S : f[x] = rank(x)
    BY DEF f
  <2> HIDE DEF rank
  <2> QED BY <2>5, <2>6
<1> DEFINE list == InOrder(S, NameLess)
<1>6. list = [i \in 1 .. n |-> CHOOSE x \in S : rank(x) = i - 1]
  BY DEF InOrder
<1> HIDE DEF rank, list, n, f
<1>7. ASSUME NEW i \in 1 .. n PROVE list[i] \in S /\ rank(list[i]) = i - 1
  <2>1. i - 1 \in 0 .. n - 1
    BY <1>1
  <2>2. \E x \in S : rank(x) = i - 1
    BY <1>5, <2>1
  <2>3. list[i] = CHOOSE x \in S : rank(x) = i - 1
    BY <1>6
  <2> QED BY <2>2, <2>3
<1>8. list \in [1 .. n -> S]
  BY <1>6, <1>7
<1>9. ASSUME NEW x \in S PROVE \E i \in 1 .. n : list[i] = x
  <2>1. PICK i \in 1 .. n : i - 1 = rank(x)
    <3>1. rank(x) \in Nat /\ rank(x) + 1 \in 1 .. n
      BY <1>2, Zenon
    <3>2. (rank(x) + 1) - 1 = rank(x)
      BY <3>1
    <3> QED BY <3>1, <3>2, Zenon
  <2>2. list[i] \in S /\ rank(list[i]) = rank(x)
    BY <1>7, <2>1
  <2>3. list[i] = x
    BY <1>4, <2>2
  <2> QED BY <2>1, <2>3
<1>10. ASSUME NEW i \in 1 .. n, NEW j \in 1 .. n, list[i] = list[j] PROVE i = j
  <2>1. rank(list[i]) = i - 1 /\ rank(list[j]) = j - 1
    BY <1>7
  <2> QED BY <1>1, <1>10, <2>1
<1> QED BY <1>1, <1>8, <1>9, <1>10 DEF list, n

LEMMA NatDivision ==
    ASSUME NEW a \in Nat, NEW b \in Nat \ {0}
    PROVE  a \div b \in Nat /\ a % b \in 0 .. b - 1 /\ a = b * (a \div b) + (a % b)
OBVIOUS
-----------------------------------------------------------------------------
(***************************************************************************)
(* The sizes of what is written.                                           *)
(***************************************************************************)
LEMMA TailIs ==
    ASSUME NEW c \in Nat, NEW s \in Seq(Nat)
    PROVE  <<c>> \o s \in Seq(Nat) /\ Tail(<<c>> \o s) = s
<1>1. <<c>> \in Seq(Nat) /\ Len(<<c>>) = 1 /\ Len(s) \in Nat
  OBVIOUS
<1> DEFINE t == <<c>> \o s
<1>2. t \in Seq(Nat) /\ Len(t) = 1 + Len(s) /\ \A i \in 1 .. Len(s) : t[1 + i] = s[i]
  BY <1>1, ConcatIs
<1> HIDE DEF t
<1>3. t # <<>>
  BY <1>1, <1>2
<1>4. /\ Tail(t) \in Seq(Nat) /\ Len(Tail(t)) = Len(t) - 1
      /\ \A i \in 1 .. Len(Tail(t)) : Tail(t)[i] = t[i + 1]
  BY <1>2, <1>3, HeadTailProperties
<1>5. Len(Tail(t)) = Len(s) /\ \A i \in 1 .. Len(s) : Tail(t)[i] = s[i]
  BY <1>1, <1>2, <1>4
<1>6. Tail(t) = s
  BY <1>4, <1>5, SeqEqual
<1> QED BY <1>2, <1>6 DEF t

LEMMA DecorateNames ==
    ASSUME NEW rule, IsRule(rule), rule.version # <<>>, NEW name \in NamesOf(rule), NEW conv \in Seq(Nat)
    PROVE  Decorate(Translit(name, rule), rule, conv) \in Names
<1> DEFINE fitted == Decorate(Translit(name, rule), rule, conv)
           mark == <<Semi>> \o rule.version
<1>1. /\ ~name.file => fitted = <<conv>>
      /\ name.file => \/ fitted = <<conv, mark>>
                      \/ \E ext \in Seq(Nat) : fitted = <<conv, <<Stop>> \o ext, mark>>
  BY DecorateShape
<1> HIDE DEF fitted
<1>2. Stop \in Nat /\ Semi \in Nat /\ rule.version \in Seq(Nat)
  BY PoolAssumption DEF IsRule
<1>3. mark \in Seq(Nat) /\ Tail(mark) = rule.version
  BY <1>2, TailIs
<1>4. mark = <<Semi>> \o Tail(mark) /\ Tail(mark) \in Seq(Nat) /\ Tail(mark) # <<>>
  BY <1>2, <1>3
<1> HIDE DEF mark
<1>5. <<conv>> \in Names
  BY DEF Names
<1>6. <<conv, mark>> \in Names
  <2> DEFINE n == <<conv, mark>>
  <2>1. n \in Seq(Seq(Nat)) /\ Len(n) = 2 /\ n # <<>> /\ n[2] = mark
    BY <1>3
  <2> HIDE DEF n
  <2>2. \A i \in 2 .. Len(n) : i = 2
    BY <2>1
  <2>3. Between(n, 2) = Semi
    BY <2>1 DEF Between
  <2>4. n \in Names
    BY <1>4, <2>1, <2>2, <2>3 DEF Names
  <2> QED BY <2>4 DEF n
<1>7. ASSUME NEW ext \in Seq(Nat) PROVE <<conv, <<Stop>> \o ext, mark>> \in Names
  <2> DEFINE dotted == <<Stop>> \o ext
             n == <<conv, dotted, mark>>
  <2>1. dotted \in Seq(Nat) /\ dotted = <<Stop>> \o Tail(dotted) /\ Tail(dotted) \in Seq(Nat)
    BY <1>2, TailIs
  <2> HIDE DEF dotted
  <2>2. n \in Seq(Seq(Nat)) /\ Len(n) = 3 /\ n # <<>> /\ n[2] = dotted /\ n[3] = mark
    BY <1>3, <2>1
  <2> HIDE DEF n
  <2>3. \A i \in 2 .. Len(n) : i = 2 \/ i = 3
    BY <2>2
  <2>4. Between(n, 2) = Stop /\ Between(n, 3) = Semi
    BY <2>2 DEF Between
  <2>5. \A i \in 2 .. Len(n) : Tail(n[i]) \in Seq(Nat) /\ n[i] = <<Between(n, i)>> \o Tail(n[i])
    BY <1>4, <2>1, <2>2, <2>3, <2>4
  <2>6. n \in Names
    BY <1>4, <2>2, <2>5 DEF Names
  <2> QED BY <2>6 DEF n, dotted
<1>8. name.file \in BOOLEAN
  BY DEF NamesOf
<1> QED BY <1>1, <1>5, <1>6, <1>7, <1>8 DEF fitted

LEMMA FitNames ==
    ASSUME IsoInv, vol \in Volumes
    PROVE  LET used == {fit[n] : n \in DOMAIN fit} IN used \in SUBSET Names /\ IsFiniteSet(used)
<1>1. /\ IsRule(Rules[vol]) /\ Rules[vol].version # <<>>
      /\ PoolInv(Rules[vol]) /\ IsFiniteSet(DOMAIN fit)
  BY RuleIs DEF IsoInv, Pooled
<1>2. ASSUME NEW n \in DOMAIN fit PROVE fit[n] \in Names
  <2>1. n \in NamesOf(Rules[vol])
    BY <1>1 DEF PoolInv
  <2>2. PICK conv \in DOMAIN convToLink : fit[n] = Decorate(Translit(n, Rules[vol]), Rules[vol], conv)
    BY <1>1 DEF PoolInv
  <2>3. conv \in Seq(Nat)
    BY <1>1, <2>2, CleanSeq DEF PoolInv
  <2> QED BY <1>1, <2>1, <2>2, <2>3, DecorateNames
<1>3. IsFiniteSet({fit[n] : n \in DOMAIN fit})
  <2> DEFINE T == {fit[n] : n \in DOMAIN fit}
             f == [n \in DOMAIN fit |-> fit[n]]
  <2>1. f \in [DOMAIN fit -> T]
    OBVIOUS
  <2>2. \A t \in T : \E n \in DOMAIN fit : f[n] = t
    OBVIOUS
  <2>3. f \in Surjection(DOMAIN fit, T)
    <3> HIDE DEF f, T
    <3> QED BY <2>1, <2>2 DEF Surjection
  <2> HIDE DEF f, T
  <2>4. IsFiniteSet(T)
    BY <1>1, <2>3, FS_Surjection
  <2> QED BY <2>4 DEF T
<1> QED BY <1>2, <1>3

LEMMA EntrySizeIs == ASSUME NEW name \in Names PROVE Len(Conv(name)) \in Nat /\ EntrySize(name) \in Nat \ {0}
<1>1. Len(Conv(name)) \in Nat
  BY ConvSeq DEF Names
<1>2. Len(Conv(name)) \div TextUnit \in Nat /\ EntryHead \in Nat \ {0}
  BY <1>1, NatDivision, IsoAssumption
<1> QED BY <1>1, <1>2 DEF EntrySize

LEMMA RoundedUpIs ==
    ASSUME NEW n \in Nat, NEW size \in Nat \ {0}
    PROVE  RoundedUp(n, size) \in Nat /\ n <= RoundedUp(n, size) /\ RoundedUp(n, size) % size = 0
<1> DEFINE q == (n + size - 1) \div size
           r == (n + size - 1) % size
<1>1. q \in Nat /\ r \in 0 .. size - 1 /\ n + size - 1 = size * q + r
  <2>1. n + size - 1 \in Nat
    OBVIOUS
  <2> QED BY <2>1, NatDivision
<1>2. RoundedUp(n, size) = q * size
  BY DEF RoundedUp
<1> HIDE DEF q, r
<1>3. q * size = size * q /\ size * q \in Nat /\ n <= size * q
  BY <1>1
<1>4. (size * q) % size = 0
  <2>1. q \in Int
    BY <1>1
  <2> QED BY <2>1, MultipleIs
<1> QED BY <1>2, <1>3, <1>4

IsWritten(f, recs, n) ==
    f = [i \in 0 .. n |-> IF i = 0 THEN [size |-> 2 * EntryHead, recs |-> <<>>] ELSE WriteEntry(f[i-1], recs[i])]

LEMMA WrittenExists ==
    ASSUME NEW recs, NEW n \in Nat
    PROVE  \E f : IsWritten(f, recs, n)
<1> DEFINE first == [size |-> 2 * EntryHead, recs |-> <<>>]
           T == {m \in Nat : \E f : f = [i \in 0 .. m |-> IF i = 0 THEN first ELSE WriteEntry(f[i-1], recs[i])]}
<1> HIDE DEF first
<1>1. 0 \in T
  <2> DEFINE f == [i \in 0 .. 0 |-> first]
  <2>1. f = [i \in 0 .. 0 |-> IF i = 0 THEN first ELSE WriteEntry(f[i-1], recs[i])]
    OBVIOUS
  <2> HIDE DEF f
  <2> QED BY <2>1
<1>2. ASSUME NEW m \in T PROVE m + 1 \in T
  <2>1. PICK f : f = [i \in 0 .. m |-> IF i = 0 THEN first ELSE WriteEntry(f[i-1], recs[i])]
    BY <1>2
  <2> DEFINE g == [i \in 0 .. m + 1 |-> IF i = m + 1 THEN WriteEntry(f[m], recs[m + 1]) ELSE f[i]]
  <2>2. ASSUME NEW i \in 0 .. m + 1 PROVE g[i] = IF i = 0 THEN first ELSE WriteEntry(g[i-1], recs[i])
    <3>1. CASE i = m + 1
      <4>1. i # 0 /\ i - 1 = m /\ m \in 0 .. m + 1 /\ m # m + 1
        BY <3>1
      <4>2. g[m] = f[m] /\ g[i] = WriteEntry(f[m], recs[i])
        BY <3>1, <4>1
      <4> QED BY <4>1, <4>2
    <3>2. CASE i # m + 1
      <4>1. i \in 0 .. m /\ g[i] = f[i]
        BY <3>2
      <4>2. f[i] = IF i = 0 THEN first ELSE WriteEntry(f[i-1], recs[i])
        BY <2>1, <4>1
      <4>3. i # 0 => i - 1 \in 0 .. m + 1 /\ i - 1 # m + 1
        BY <4>1
      <4>4. i # 0 => g[i-1] = f[i-1]
        BY <4>3
      <4> QED BY <4>1, <4>2, <4>4
    <3> QED BY <3>1, <3>2
  <2>3. g = [i \in 0 .. m + 1 |-> IF i = 0 THEN first ELSE WriteEntry(g[i-1], recs[i])]
    BY <2>2
  <2>4. m + 1 \in Nat
    OBVIOUS
  <2> HIDE DEF g
  <2>5. \E h : h = [i \in 0 .. m + 1 |-> IF i = 0 THEN first ELSE WriteEntry(h[i-1], recs[i])]
    BY <2>3
  <2> QED BY <2>4, <2>5
<1>3. T = Nat
  <2>1. T \in SUBSET Nat
    OBVIOUS
  <2> HIDE DEF T
  <2> QED BY <2>1, <1>1, <1>2, NatSetInduction
<1> QED BY <1>3 DEF IsWritten, first

LEMMA WriteEntriesIs ==
    ASSUME NEW recs, Len(recs) \in Nat
    PROVE  \E f : IsWritten(f, recs, Len(recs)) /\ WriteEntries(recs) = f[Len(recs)]
<1> DEFINE g == CHOOSE f : f = [i \in 0 .. Len(recs) |->
                    IF i = 0 THEN [size |-> 2 * EntryHead, recs |-> <<>>] ELSE WriteEntry(f[i-1], recs[i])]
<1>1. WriteEntries(recs) = g[Len(recs)]
  BY DEF WriteEntries
<1>2. IsWritten(g, recs, Len(recs))
  <2>1. \E f : f = [i \in 0 .. Len(recs) |->
                    IF i = 0 THEN [size |-> 2 * EntryHead, recs |-> <<>>] ELSE WriteEntry(f[i-1], recs[i])]
    BY WrittenExists DEF IsWritten
  <2> QED BY <2>1 DEF IsWritten
<1> HIDE DEF g
<1> QED BY <1>1, <1>2

\* A directory is as large as "." and ".." at least.
LEMMA WrittenSize ==
    ASSUME NEW recs, Len(recs) \in Nat, blkSz \in Nat \ {0}, \A i \in 1 .. Len(recs) : recs[i].name \in Names
    PROVE  WriteEntries(recs).size \in Nat \ {0}
<1>1. PICK f : IsWritten(f, recs, Len(recs)) /\ WriteEntries(recs) = f[Len(recs)]
  BY WriteEntriesIs
<1> DEFINE T == {n \in Nat : n <= Len(recs) => f[n].size \in Nat \ {0}}
<1>2. 0 \in T
  <2>1. f[0] = [size |-> 2 * EntryHead, recs |-> <<>>]
    BY <1>1 DEF IsWritten
  <2>2. f[0].size = 2 * EntryHead /\ EntryHead \in Nat \ {0}
    BY <2>1, IsoAssumption
  <2> QED BY <2>2
<1>3. ASSUME NEW n \in T PROVE n + 1 \in T
  <2> SUFFICES ASSUME n + 1 <= Len(recs) PROVE f[n + 1].size \in Nat \ {0}
    OBVIOUS
  <2>1. f[n].size \in Nat \ {0} /\ n + 1 \in 1 .. Len(recs) /\ n + 1 # 0 /\ (n + 1) - 1 = n
    BY <1>3
  <2>2. f[n + 1] = WriteEntry(f[n], recs[n + 1])
    BY <1>1, <2>1 DEF IsWritten
  <2> DEFINE size == f[n].size
             pad == RoundedUp(size, blkSz) - size
             entry == EntrySize(recs[n + 1].name)
  <2>3. f[n + 1].size = (IF entry > pad THEN size + pad ELSE size) + entry
    BY <2>2 DEF WriteEntry
  <2>4. entry \in Nat \ {0}
    BY <2>1, EntrySizeIs
  <2>5. size \in Nat \ {0} /\ pad \in Nat
    <3>1. size \in Nat
      BY <2>1
    <3> HIDE DEF size
    <3>2. RoundedUp(size, blkSz) \in Nat /\ size <= RoundedUp(size, blkSz)
      BY <3>1, RoundedUpIs
    <3> QED BY <2>1, <3>1, <3>2 DEF size
  <2> HIDE DEF size, pad, entry
  <2> QED BY <2>3, <2>4, <2>5
<1>4. T = Nat
  <2>1. T \in SUBSET Nat
    OBVIOUS
  <2> HIDE DEF T
  <2> QED BY <2>1, <1>2, <1>3, NatSetInduction
<1> QED BY <1>1, <1>4

\* The entries of a file or directory have its name.
LEMMA RecordsAre ==
    ASSUME GeoInv, Laid, NEW e \in Files \cup Dirs, NEW name
    PROVE  LET recs == Records(e, name) IN
           /\ Len(recs) \in Nat /\ recs = [j \in 1 .. Len(recs) |-> recs[j]]
           /\ \A j \in 1 .. Len(recs) : recs[j].name = name
<1>1. CASE e \in Files
  <2>1. e \in DOMAIN layout /\ layout[e] \in Seq(Extents)
    BY <1>1, TreeTyped DEF GeoInv, Sized, GeoTyped
  <2>2. Len(layout[e]) \in Nat /\ DOMAIN layout[e] = 1 .. Len(layout[e])
    BY <2>1
  <2>3. Records(e, name) = FileRecords(e, name)
    BY <1>1 DEF Records
  <2> DEFINE recs == FileRecords(e, name)
  <2>4. /\ DOMAIN recs = DOMAIN layout[e] /\ recs = [j \in DOMAIN recs |-> recs[j]]
        /\ \A j \in DOMAIN recs : recs[j].name = name
    BY DEF FileRecords
  <2> HIDE DEF recs
  <2>5. recs = [j \in 1 .. Len(layout[e]) |-> recs[j]]
    BY <2>2, <2>4
  <2>6. Len(recs) = Len(layout[e])
    BY <2>2, <2>5
  <2>7. Records(e, name) = recs
    BY <2>3 DEF recs
  <2> QED BY <2>2, <2>4, <2>5, <2>6, <2>7
<1>2. CASE e \notin Files
  <2>1. Records(e, name) = <<[name |-> name, kind |-> "folder", lba |-> folders[e].off \div blkSz,
                             len |-> folders[e].len, more |-> FALSE]>>
    BY <1>2 DEF Records
  <2> QED BY <2>1
<1> QED BY <1>1, <1>2
-----------------------------------------------------------------------------
(***************************************************************************)
(* Where the metadata is placed: the files are laid out as Geometry lays   *)
(* them out, behind the descriptors and before the directories.            *)
(***************************************************************************)
LEMMA Exactly ==
    ASSUME NEW n \in Nat, NEW b \in Nat \ {0}, n % b = 0
    PROVE  n \div b \in Nat /\ (n \div b) * b = n
<1>1. n \div b \in Nat /\ n = b * (n \div b) + (n % b)
  BY NatDivision
<1> DEFINE q == n \div b
<1> HIDE DEF q
<1>2. q \in Nat /\ n = b * q + 0
  BY <1>1 DEF q
<1>3. q * b = b * q
  BY <1>2
<1> QED BY <1>1, <1>2, <1>3 DEF q

LEMMA PadToKeeps ==
    ASSUME NEW s, IsList(s), NEW b
    PROVE  Extends(PadTo(s, b), s)
BY AppendedKeeps DEF PadTo

LEMMA ExtendsTwice ==
    ASSUME NEW s, NEW t, NEW u, Extends(t, s), Extends(u, t)
    PROVE  Extends(u, s)
BY DEF Extends

\* The blocks of the temporary storage.
LEMMA TmpSizeIs == TmpSize \in Nat \ {0} /\ (mapped => TmpSize % Sector = 0)
BY IsoAssumption DEF TmpSize

LEMMA BlockIs ==
    ASSUME Sized, stage = "adjusted" \/ Laid
    PROVE  blkSz \in Nat \ {0} /\ blkSz % Sector = 0 /\ Cap % blkSz = 0
BY GeometryAssumption, IsoAssumption DEF Sized

\* What is listed once the descriptors are planned.
LEMMA HeadIs ==
    ASSUME GeoInv, NEW slave \in SlaveLens, PlanHead(slave)
    PROVE  \E head \in Seq(Extents) :
              /\ OptimizeBehind(head)
              /\ hdrOff' \in Nat /\ inner' \in Nat /\ tmpOff' = inner'
              /\ hdrOff' % TmpSize = 0 /\ inner' % TmpSize = 0
              /\ hdrOff' + (Len(Rules) + 1) * blkSz <= inner'
              /\ PlacedAt(head, Extent(Tmp, hdrOff', inner' - hdrOff'), Cap)
<1> DEFINE start == RoundedUp(slave, TmpSize)
           heads1 == (Len(Rules) + 1) * blkSz
           end == RoundedUp(start + heads1, TmpSize)
           x == Extent(Tmp, 0, slave)
           y == Extent(Zero, 0, Cap - slave)
           z == Extent(Tmp, start, end - start)
           one == Appended(<<>>, x)
           two == Appended(one, y)
           head == Appended(two, z)
<1>1. /\ slave <= Cap /\ OptimizeBehind(head) /\ hdrOff' = start /\ inner' = end /\ tmpOff' = end
      /\ stage = "adjusted"
  BY DEF PlanHead, OptimizeBehind
<1>2. slave \in Nat /\ Cap \in Nat /\ Len(Rules) \in Nat /\ Tmp \in Media /\ Zero \in Media
  BY IsoAssumption, VolumesAre, GeometryAssumption
<1>3. blkSz \in Nat \ {0}
  BY <1>1, BlockIs DEF GeoInv
<1>4. heads1 \in Nat \ {0}
  <2>1. Len(Rules) + 1 \in Nat \ {0}
    BY <1>2
  <2> QED BY <1>3, <2>1
<1>5. start \in Nat /\ start % TmpSize = 0
  BY <1>2, TmpSizeIs, RoundedUpIs
<1> HIDE DEF start, heads1
<1>6. end \in Nat /\ start + heads1 <= end /\ end % TmpSize = 0
  <2>1. start + heads1 \in Nat
    BY <1>4, <1>5
  <2> QED BY <2>1, TmpSizeIs, RoundedUpIs
<1> HIDE DEF end
<1>7. x \in Extents /\ y \in Extents /\ z \in Extents /\ x.len = slave /\ y.len = Cap - slave /\ z.len = end - start
  BY <1>1, <1>2, <1>4, <1>5, <1>6 DEF Extent, Extents
<1>8. end - start > 0
  BY <1>4, <1>5, <1>6
<1> HIDE DEF x, y, z
<1>9. one \in Seq(Extents) /\ Offset(one) = slave
  <2>1. <<>> \in Seq(Extents) /\ Offset(<<>>) = 0
    BY OffsetEmpty
  <2>2. one \in Seq(Extents) /\ Offset(one) = Offset(<<>>) + x.len
    BY <1>7, <2>1, AppendedIs
  <2> QED BY <1>2, <1>7, <2>1, <2>2
<1> HIDE DEF one
<1>10. two \in Seq(Extents) /\ Offset(two) = Cap
  <2>1. two \in Seq(Extents) /\ Offset(two) = Offset(one) + y.len
    BY <1>7, <1>9, AppendedIs
  <2> QED BY <1>2, <1>7, <1>9, <2>1
<1> HIDE DEF two
<1>11. head \in Seq(Extents) /\ PlacedAt(head, z, Cap)
  BY <1>7, <1>8, <1>10, AppendedIs
<1>12. OptimizeBehind(head)
  BY <1>1
<1>13. z = Extent(Tmp, hdrOff', inner' - hdrOff')
  BY <1>1 DEF z
<1> HIDE DEF head
<1> QED BY <1>1, <1>5, <1>6, <1>11, <1>12, <1>13 DEF heads1

LEMMA MetaIs ==
    ASSUME GeoInv, PlanMeta
    PROVE  /\ stage = "planned" /\ stage' = "planned" /\ Kept /\ Extends(out', out)
           /\ \E end : /\ end = RoundedUp(tmpOff, TmpSize) /\ tmpOff' = end
                       /\ out' = PadTo(Appended(out, Extent(Tmp, inner, end - inner)), blkSz)
<1> DEFINE end == RoundedUp(tmpOff, TmpSize)
           mid == Appended(out, Extent(Tmp, inner, end - inner))
<1>1. /\ stage = "planned" /\ stage' = "planned" /\ Kept /\ tmpOff' = end
      /\ out' = PadTo(mid, blkSz)
  BY DEF PlanMeta, laid, config, Kept
<1>2. IsList(out)
  BY <1>1 DEF GeoInv, Writing, Laid
<1>3. Extends(mid, out)
  BY <1>2, AppendedKeeps
<1>4. Extends(PadTo(mid, blkSz), mid)
  BY <1>3, PadToKeeps DEF Extends
<1> QED BY <1>1, <1>3, <1>4, ExtendsTwice

LEMMA BreachGeoInv ==
    ASSUME GeoInv, NEW slave, BreachOfTrust(slave) PROVE GeoInv'
<1>1. /\ stage = "adjusted" /\ stage' = "aborted"
      /\ layout' = layout /\ mask' = mask /\ mapped' = mapped /\ tree' = tree
  BY DEF BreachOfTrust, config
<1>2. GeoTyped
  BY DEF GeoInv
<1>3. GeoTyped'
  <2>1. \A f \in DOMAIN layout : MaskBits(layout[f])' = MaskBits(layout[f])
    BY <1>1 DEF MaskBits
  <2> QED BY <1>1, <1>2, <2>1 DEF GeoTyped
<1>4. ~Laid'
  BY <1>1 DEF Laid
<1> QED BY <1>1, <1>3, <1>4 DEF GeoInv, Sized, Charting, Writing, Cursor, Finished, Burnt

LEMMA IsoGeoInv == ASSUME GeoInv, [IsoNext]_allVars PROVE GeoInv'
<1>1. CASE Layout /\ UNCHANGED <<poolVars, isoVars>>
  <2>1. [Next]_vars
    BY <1>1 DEF Layout, Next
  <2> QED BY <2>1, LayoutGeoInv
<1>2. ASSUME NEW slave \in SlaveLens, PlanHead(slave) PROVE GeoInv'
  BY <1>2, HeadIs, OptimizeGeoInv
<1>3. ASSUME NEW slave \in SlaveLens, BreachOfTrust(slave) PROVE GeoInv'
  BY <1>3, BreachGeoInv
<1>4. CASE FitEntry \/ WriteDir \/ OpenTable \/ VisitDir \/ WriteTables \/ CommitTmp \/ ReadVolume
  <2>1. UNCHANGED vars
    BY <1>4 DEF FitEntry, WriteDir, OpenTable, VisitDir, WriteTables, CommitTmp, ReadVolume
  <2> QED BY <2>1, StutterGeoInv
<1>5. CASE PlanMeta
  BY <1>5, MetaIs, BehindGeoInv
<1>6. CASE UNCHANGED allVars
  BY <1>6, StutterGeoInv DEF allVars
<1> QED BY <1>1, <1>2, <1>3, <1>4, <1>5, <1>6 DEF IsoNext

(***************************************************************************)
(* Every extent of a file starts on a block and, unless it is the last,    *)
(* fills whole ones, behind what the volume has before the files.          *)
(***************************************************************************)
THEOREM IsoBlockAligned == IsoSpec => []BlockAligned
<1>1. IsoInit => GeoInv
  BY InitGeoInv DEF IsoInit
<1>2. GeoInv /\ [IsoNext]_allVars => GeoInv'
  BY IsoGeoInv
<1> QED BY <1>1, <1>2, GeoBlockAligned, PTL DEF IsoSpec

(***************************************************************************)
(* The volume reads the bytes of a file where withinDisk says they are.    *)
(***************************************************************************)
THEOREM IsoFilesReadBack == ASSUME NoneShared, WholeSectors PROVE IsoSpec => []FilesReadBack
<1>1. IsoInit => GeoInv
  BY InitGeoInv DEF IsoInit
<1>2. GeoInv /\ [IsoNext]_allVars => GeoInv'
  BY IsoGeoInv
<1>3. GeoInv => FilesReadBack
  BY GeoFilesReadBack
<1> QED BY <1>1, <1>2, <1>3, PTL DEF IsoSpec
-----------------------------------------------------------------------------
(***************************************************************************)
(* The size of a directory is that of whole blocks.                        *)
(***************************************************************************)
\* The entries of the directory at hand.
RecordList ==
    LET used == {fit[n] : n \in DOMAIN fit}
    IN  FlattenSeq([i \in DOMAIN InOrder(used, NameLess) |->
            LET name == InOrder(used, NameLess)[i] IN Records(EntryOf(name), name)])

LEMMA RecordListIs ==
    ASSUME GeoInv, Laid, IsoInv, WriteDir
    PROVE  Len(RecordList) \in Nat /\ \A i \in 1 .. Len(RecordList) : RecordList[i].name \in Names
<1> DEFINE used == {fit[n] : n \in DOMAIN fit}
           order == InOrder(used, NameLess)
           n == Cardinality(used)
           each(i) == Records(EntryOf(order[i]), order[i])
           lists == [i \in DOMAIN order |-> each(i)]
           S == {r \in UNION {ToSet(each(i)) : i \in 1 .. n} : r.name \in Names}
<1>1. vol \in Volumes /\ Current \in Dirs
  BY WriteDirIs, CurrentIs DEF IsoInv
<1>2. used \in SUBSET Names /\ IsFiniteSet(used)
  BY <1>1, FitNames
<1>3. n \in Nat /\ order \in [1 .. n -> used]
  <2> HIDE DEF used
  <2> QED BY <1>2, InOrderIs
<1>4. ASSUME NEW i \in 1 .. n PROVE order[i] \in Names /\ EntryOf(order[i]) \in Files \cup Dirs
  <2> HIDE DEF order, n
  <2>1. order[i] \in used
    BY <1>3
  <2>2. EntryOf(order[i]) \in ToSet(Entries[Current])
    BY <2>1, NamesBelow
  <2>3. ToSet(Entries[Current]) \subseteq Files \cup Dirs
    BY <1>1, EntriesAre
  <2> QED BY <1>2, <2>1, <2>2, <2>3
<1> HIDE DEF order, n, used
<1>5. ASSUME NEW i \in 1 .. n PROVE each(i) \in Seq(S)
  <2> DEFINE recs == each(i)
  <2>1. /\ Len(recs) \in Nat /\ recs = [j \in 1 .. Len(recs) |-> recs[j]]
        /\ \A j \in 1 .. Len(recs) : recs[j].name = order[i]
    <3>1. EntryOf(order[i]) \in Files \cup Dirs
      BY <1>4
    <3> QED BY <3>1, RecordsAre
  <2>2. \A j \in 1 .. Len(recs) : recs[j] \in ToSet(recs)
    <3> HIDE DEF recs
    <3>1. DOMAIN recs = 1 .. Len(recs)
      BY <2>1
    <3> QED BY <3>1 DEF ToSet
  <2>3. \A j \in 1 .. Len(recs) : recs[j] \in S
    BY <1>4, <2>1, <2>2
  <2> HIDE DEF recs, S
  <2>4. recs \in Seq(S)
    BY <2>1, <2>3
  <2> QED BY <2>4 DEF recs
<1>6. \A r \in S : r.name \in Names
  OBVIOUS
<1>7. RecordList = FlattenSeq(lists)
  BY DEF RecordList, order, used
<1> HIDE DEF S, each
<1>8. lists \in Seq(Seq(S))
  <2>1. DOMAIN order = 1 .. n
    BY <1>3
  <2> QED BY <1>3, <1>5, <2>1
<1> HIDE DEF lists
<1>9. FlattenSeq(lists) \in Seq(S)
  BY <1>8, FlattenIs DEF Flattened
<1> QED BY <1>6, <1>7, <1>9

LEMMA DirectoryIs ==
    ASSUME GeoInv, Laid, IsoInv, WriteDir
    PROVE  \E len \in Nat \ {0} : \E off, own :
              /\ len % blkSz = 0 /\ off = tmpOff + Offset(out) - inner /\ tmpOff' = tmpOff + len
              /\ own.tmp = tmpOff /\ own.dot = Place(off, len) /\ {"tmp", "dot", "up"} \subseteq DOMAIN own
              /\ burners' = Settle(Put(burners, <<vol, Current>>, own), vol, Current, Place(off, len))
              /\ folders' = [e \in DOMAIN folders \cup {Current} |->
                    IF e = Current THEN [off |-> off, len |-> len, name |-> <<>>]
                    ELSE IF e \in NamedBelow THEN [folders[e] EXCEPT !.name = fit[NameOf(e)]]
                    ELSE folders[e]]
              /\ own.recs = WriteEntries(RecordList).recs /\ "recs" \in DOMAIN own
              /\ WriteEntries(RecordList).size <= len
<1> DEFINE dir == WriteEntries(RecordList)
           len == RoundedUp(dir.size, blkSz)
           off == tmpOff + Offset(out) - inner
           own == [tmp |-> tmpOff, dot |-> Place(off, len), up |-> Place(off, 0), recs |-> dir.recs]
<1>1. /\ burners' = Settle(Put(burners, <<vol, Current>>, own), vol, Current, Place(off, len))
      /\ folders' = [e \in DOMAIN folders \cup {Current} |->
                    IF e = Current THEN [off |-> off, len |-> len, name |-> <<>>]
                    ELSE IF e \in NamedBelow THEN [folders[e] EXCEPT !.name = fit[NameOf(e)]]
                    ELSE folders[e]]
      /\ tmpOff' = tmpOff + len
  BY DEF WriteDir, NamedBelow, RecordList
<1>2. blkSz \in Nat \ {0}
  BY BlockIs DEF GeoInv
<1>3. dir.size \in Nat \ {0}
  BY <1>2, RecordListIs, WrittenSize
<1> DEFINE size == dir.size
<1>4. len \in Nat \ {0} /\ len % blkSz = 0 /\ dir.size <= len
  <2>1. size \in Nat \ {0} /\ len = RoundedUp(size, blkSz)
    BY <1>3
  <2> HIDE DEF size, len, dir
  <2>2. len \in Nat \ {0} /\ len % blkSz = 0 /\ size <= len
    BY <1>2, <2>1, RoundedUpIs
  <2> QED BY <2>2 DEF size
<1>5. /\ own.tmp = tmpOff /\ own.dot = Place(off, len) /\ {"tmp", "dot", "up"} \subseteq DOMAIN own
      /\ own.recs = dir.recs /\ "recs" \in DOMAIN own
  OBVIOUS
<1> HIDE DEF len, own, off
<1>6. off = tmpOff + Offset(out) - inner
  BY DEF off
<1>7. own.recs = WriteEntries(RecordList).recs /\ WriteEntries(RecordList).size <= len
  BY <1>4, <1>5
<1> QED BY <1>1, <1>4, <1>5, <1>6, <1>7
-----------------------------------------------------------------------------
(***************************************************************************)
(* The size of a path table.                                               *)
(***************************************************************************)
IsCounted(f, list, n) ==
    f = [i \in 0 .. n |->
            IF i = 0 THEN 0 ELSE f[i-1] + PathHead + (Len(Conv(list[i].name)) \div TextUnit)]

LEMMA CountedExists ==
    ASSUME NEW list, NEW n \in Nat
    PROVE  \E f : IsCounted(f, list, n)
<1> DEFINE add(i, x) == x + PathHead + (Len(Conv(list[i].name)) \div TextUnit)
           T == {m \in Nat : \E f : f = [i \in 0 .. m |-> IF i = 0 THEN 0 ELSE add(i, f[i-1])]}
<1> HIDE DEF add
<1>1. 0 \in T
  <2> DEFINE f == [i \in 0 .. 0 |-> 0]
  <2>1. f = [i \in 0 .. 0 |-> IF i = 0 THEN 0 ELSE add(i, f[i-1])]
    OBVIOUS
  <2> HIDE DEF f
  <2> QED BY <2>1
<1>2. ASSUME NEW m \in T PROVE m + 1 \in T
  <2>1. PICK f : f = [i \in 0 .. m |-> IF i = 0 THEN 0 ELSE add(i, f[i-1])]
    BY <1>2
  <2> DEFINE g == [i \in 0 .. m + 1 |-> IF i = m + 1 THEN add(i, f[m]) ELSE f[i]]
  <2>2. ASSUME NEW i \in 0 .. m + 1 PROVE g[i] = IF i = 0 THEN 0 ELSE add(i, g[i-1])
    <3>1. CASE i = m + 1
      <4>1. i # 0 /\ i - 1 = m /\ m \in 0 .. m + 1 /\ m # m + 1
        BY <3>1
      <4>2. g[m] = f[m] /\ g[i] = add(i, f[m])
        BY <3>1, <4>1
      <4> QED BY <4>1, <4>2
    <3>2. CASE i # m + 1
      <4>1. i \in 0 .. m /\ g[i] = f[i]
        BY <3>2
      <4>2. f[i] = IF i = 0 THEN 0 ELSE add(i, f[i-1])
        BY <2>1, <4>1
      <4>3. i # 0 => i - 1 \in 0 .. m + 1 /\ i - 1 # m + 1
        BY <4>1
      <4>4. i # 0 => g[i-1] = f[i-1]
        BY <4>3
      <4> QED BY <4>1, <4>2, <4>4
    <3> QED BY <3>1, <3>2
  <2>3. g = [i \in 0 .. m + 1 |-> IF i = 0 THEN 0 ELSE add(i, g[i-1])]
    BY <2>2
  <2>4. m + 1 \in Nat
    OBVIOUS
  <2> HIDE DEF g
  <2>5. \E h : h = [i \in 0 .. m + 1 |-> IF i = 0 THEN 0 ELSE add(i, h[i-1])]
    BY <2>3
  <2> QED BY <2>4, <2>5
<1>3. T = Nat
  <2>1. T \in SUBSET Nat
    OBVIOUS
  <2> HIDE DEF T
  <2> QED BY <2>1, <1>1, <1>2, NatSetInduction
<1> QED BY <1>3 DEF IsCounted, add

LEMMA TableSizeIs ==
    ASSUME NEW list, Len(list) \in Nat,
           \A i \in 1 .. Len(list) : list[i].name \in Seq(Seq(Nat))
    PROVE  TableSize(list) \in Nat
<1> DEFINE g == CHOOSE f : f = [i \in 0 .. Len(list) |->
                    IF i = 0 THEN 0 ELSE f[i-1] + PathHead + (Len(Conv(list[i].name)) \div TextUnit)]
<1>1. TableSize(list) = g[Len(list)]
  BY DEF TableSize
<1>2. IsCounted(g, list, Len(list))
  <2>1. \E f : f = [i \in 0 .. Len(list) |->
                    IF i = 0 THEN 0 ELSE f[i-1] + PathHead + (Len(Conv(list[i].name)) \div TextUnit)]
    BY CountedExists DEF IsCounted
  <2> QED BY <2>1 DEF IsCounted
<1> HIDE DEF g
<1> DEFINE T == {n \in Nat : n <= Len(list) => g[n] \in Nat}
<1>3. 0 \in T
  BY <1>2 DEF IsCounted
<1>4. ASSUME NEW n \in T PROVE n + 1 \in T
  <2> SUFFICES ASSUME n + 1 <= Len(list) PROVE g[n + 1] \in Nat
    OBVIOUS
  <2>1. g[n] \in Nat /\ n + 1 \in 1 .. Len(list) /\ n + 1 # 0 /\ (n + 1) - 1 = n
    BY <1>4
  <2>2. g[n + 1] = g[n] + PathHead + (Len(Conv(list[n + 1].name)) \div TextUnit)
    BY <1>2, <2>1 DEF IsCounted
  <2>3. Len(Conv(list[n + 1].name)) \in Nat
    BY <2>1, ConvSeq
  <2> DEFINE unit == Len(Conv(list[n + 1].name)) \div TextUnit
  <2>4. unit \in Nat /\ PathHead \in Nat
    BY <2>3, NatDivision, IsoAssumption
  <2> HIDE DEF unit
  <2>5. g[n + 1] = g[n] + PathHead + unit
    BY <2>2 DEF unit
  <2> QED BY <2>1, <2>4, <2>5
<1>5. T = Nat
  <2>1. T \in SUBSET Nat
    OBVIOUS
  <2> HIDE DEF T
  <2> QED BY <2>1, <1>3, <1>4, NatSetInduction
<1> QED BY <1>1, <1>5
-----------------------------------------------------------------------------
(***************************************************************************)
(* The invariant of what is placed.                                        *)
(***************************************************************************)
Heads == [root : Nat, rootLen : Nat, tabLen : Nat, lsb : Nat, msb : Nat, blocks : Nat]

\* The descriptors have their place in the temporary storage and the volume.
Heading ==
    Laid => /\ hdrOff \in Nat /\ inner \in Nat /\ tmpOff \in Nat /\ inner <= tmpOff
            /\ hdrOff % TmpSize = 0 /\ inner % TmpSize = 0
            /\ hdrOff + (Len(Rules) + 1) * blkSz <= inner
            /\ PlacedAt(out, Extent(Tmp, hdrOff, inner - hdrOff), Cap)

\* They have nothing in them before the files are written.
Blank ==
    stage \in {"crawl", "adjusted", "optimized"} =>
        heads = [v \in Volumes |-> NoHead] /\ burnt = <<>> /\ (stage = "optimized" => tmpOff = inner)

Headed ==
    /\ heads \in [Volumes -> Heads]
    /\ burnt # <<>> => burnt = heads /\ Complete
    /\ stage = "burnt" => burnt # <<>>

\* A range of the temporary storage is in what is appended to the volume at an
\* offset, and starts on a block there.
PutAt(at, lba, tmp, len) ==
    /\ lba \in Nat /\ tmp \in Nat /\ len \in Nat
    /\ inner <= tmp /\ tmp + len <= tmpOff /\ lba * blkSz + inner = at + tmp

\* What is planned behind the files, and where it comes to be.
Behind(at) ==
    /\ out \in Seq(Extents)
    /\ ~Complete => at = Offset(out) /\ (tmpOff - inner) % blkSz = 0
    /\ Complete => /\ vol \notin Volumes /\ tmpOff % TmpSize = 0
                   /\ PlacedAt(out, Extent(Tmp, inner, tmpOff - inner), at)
                   /\ \A v \in Volumes : at + (tmpOff - inner) <= heads[v].blocks * blkSz

DirsPut(at) ==
    \A k \in DOMAIN burners :
        PutAt(at, burners[k].dot.lba, burners[k].tmp, burners[k].dot.len) /\ burners[k].dot.len > 0

TablesPut(at) ==
    \A v \in 1 .. vol - 1 :
        /\ v \in DOMAIN tables
        /\ PutAt(at, heads[v].lsb, tables[v].lsb, heads[v].tabLen)
        /\ PutAt(at, heads[v].msb, tables[v].msb, heads[v].tabLen)
        /\ heads[v].root = burners[<<v, Root>>].dot.lba
        /\ heads[v].rootLen = burners[<<v, Root>>].dot.len

\* No two directories have a byte of the temporary storage in common.
DirectoriesApart ==
    \A k, l \in DOMAIN burners : k # l =>
        \/ burners[k].tmp + burners[k].dot.len <= burners[l].tmp
        \/ burners[l].tmp + burners[l].dot.len <= burners[k].tmp

FolderLens ==
    /\ \A d \in DOMAIN folders : folders[d].len = burners[<<vol, d>>].dot.len
    /\ pTab # <<>> => folders[Root].name = RootName

Placed ==
    stage \in {"planned", "burnt"} =>
        \E at \in Nat : at % blkSz = 0 /\ Behind(at) /\ DirsPut(at) /\ TablesPut(at)

MetaInv ==
    GeoInv /\ IsoInv /\ Heading /\ Blank /\ Headed /\ Placed /\ DirectoriesApart /\ FolderLens
-----------------------------------------------------------------------------
LEMMA OneVolume == 1 \in Volumes /\ Len(Rules) \in Nat \ {0} /\ Volumes = 1 .. Len(Rules)
<1>1. Rules \in Seq(ToSet(Rules)) /\ Rules # <<>>
  BY IsoAssumption
<1>2. Len(Rules) \in Nat \ {0}
  BY <1>1, EmptySeq
<1> QED BY <1>2, VolumesAre

\* Nothing is written before the files are.
LEMMA NothingYet ==
    ASSUME IsoInv, stage \notin {"planned", "burnt"}
    PROVE  vol = 1 /\ DOMAIN burners = {} /\ DOMAIN folders = {} /\ pTab = <<>>
<1>1. vol = 1 /\ dirNo = 0 /\ Placing
  BY DEF IsoInv, Early
<1>2. WrittenDirs(vol) = {}
  BY <1>1, WrittenAll
<1>3. \A v \in 1 .. vol : WrittenDirs(v) = {}
  BY <1>1, <1>2
<1>4. DOMAIN burners = {}
  <2>1. DOMAIN burners = {k \in (1 .. vol) \X Dirs : k[2] \in WrittenDirs(k[1])}
    BY DEF IsoInv, Dots
  <2> QED BY <1>3, <2>1
<1>5. DOMAIN folders = {}
  BY <1>2 DEF IsoInv, Filing
<1>6. pTab = <<>>
  BY <1>1, TableIs DEF IsoInv, Walking, N
<1> QED BY <1>1, <1>4, <1>5, <1>6

LEMMA InitMetaInv == IsoInit => MetaInv
<1> SUFFICES ASSUME IsoInit PROVE MetaInv
  OBVIOUS
<1>1. GeoInv /\ IsoInv
  BY InitGeoInv, InitIsoInv DEF IsoInit
<1>2. stage = "crawl" /\ burners = <<>> /\ folders = <<>> /\ pTab = <<>> /\ burnt = <<>>
      /\ heads = [v \in Volumes |-> NoHead]
  BY DEF IsoInit, Init
<1>3. Heading /\ Blank /\ Placed
  BY <1>2 DEF Heading, Blank, Placed, Laid
<1>4. Headed
  <2>1. NoHead \in Heads
    BY DEF NoHead, Heads
  <2> QED BY <1>2, <2>1 DEF Headed
<1>5. DirectoriesApart /\ FolderLens
  BY <1>2 DEF DirectoriesApart, FolderLens
<1> QED BY <1>1, <1>3, <1>4, <1>5 DEF MetaInv

\* Steps that leave the metadata alone.
metaVars == <<hdrOff, inner, tmpOff, vol, folders, burners, tables, pTab, heads, burnt>>

LEMMA PutAtKept ==
    ASSUME UNCHANGED <<inner, tmpOff, blkSz>>
    PROVE  \A at, lba, tmp, len : PutAt(at, lba, tmp, len)' <=> PutAt(at, lba, tmp, len)
BY DEF PutAt

LEMMA QuietMeta ==
    ASSUME MetaInv, (GeoInv /\ IsoInv)', UNCHANGED metaVars, UNCHANGED <<stage, blkSz, mapped, out>>
    PROVE  MetaInv'
<1>1. UNCHANGED <<hdrOff, inner, tmpOff, vol, folders, burners, tables, pTab, heads, burnt>>
  BY DEF metaVars
<1>2. TmpSize' = TmpSize /\ Laid' = Laid /\ Complete' = Complete
  BY <1>1 DEF TmpSize, Laid, Complete
<1>3. Heading'
  BY <1>1, <1>2 DEF MetaInv, Heading
<1>4. Blank' /\ Headed'
  BY <1>1, <1>2 DEF MetaInv, Blank, Headed
<1>5. Placed'
  <2>1. \A at : (Behind(at) => Behind(at)') /\ (DirsPut(at) => DirsPut(at)') /\ (TablesPut(at) => TablesPut(at)')
    BY <1>1, <1>2, PutAtKept DEF Behind, DirsPut, TablesPut
  <2> QED BY <2>1 DEF MetaInv, Placed
<1>6. DirectoriesApart' /\ FolderLens'
  BY <1>1 DEF MetaInv, DirectoriesApart, FolderLens
<1> QED BY <1>3, <1>4, <1>5, <1>6 DEF MetaInv

LEMMA EarlyMeta ==
    ASSUME MetaInv, (GeoInv /\ IsoInv)', UNCHANGED metaVars, stage = "crawl",
           stage' \in {"crawl", "adjusted", "aborted"}
    PROVE  MetaInv'
<1>1. UNCHANGED <<hdrOff, inner, tmpOff, vol, folders, burners, tables, pTab, heads, burnt>>
  BY DEF metaVars
<1>2. Heading' /\ Placed'
  BY DEF Heading, Placed, Laid
<1>3. Blank' /\ Headed'
  BY <1>1 DEF MetaInv, Blank, Headed, Complete
<1>4. DirectoriesApart' /\ FolderLens'
  BY <1>1 DEF MetaInv, DirectoriesApart, FolderLens
<1> QED BY <1>2, <1>3, <1>4 DEF MetaInv

LEMMA RangeMeta ==
    ASSUME MetaInv, (GeoInv /\ IsoInv)', UNCHANGED metaVars, WriteRange
    PROVE  MetaInv'
<1>1. UNCHANGED <<hdrOff, inner, tmpOff, vol, folders, burners, tables, pTab, heads, burnt>>
  BY DEF metaVars
<1>2. stage = "optimized" /\ stage' = "optimized" /\ blkSz' = blkSz /\ mapped' = mapped
      /\ \E x : out' = PadTo(Appended(out, x), blkSz)
  BY DEF WriteRange, config
<1>3. TmpSize' = TmpSize /\ Laid
  BY <1>2 DEF TmpSize, Laid
<1>4. Extends(out', out)
  <2>1. PICK x : out' = PadTo(Appended(out, x), blkSz)
    BY <1>2
  <2>2. IsList(out)
    BY <1>3 DEF MetaInv, GeoInv, Writing
  <2>3. Extends(Appended(out, x), out)
    BY <2>2, AppendedKeeps
  <2>4. Extends(out', Appended(out, x))
    BY <2>1, <2>3, PadToKeeps DEF Extends
  <2> QED BY <2>3, <2>4, ExtendsTwice
<1>5. Heading'
  BY <1>1, <1>2, <1>3, <1>4 DEF MetaInv, Heading, Extends
<1>6. Blank' /\ Headed' /\ Placed'
  BY <1>1, <1>2 DEF MetaInv, Blank, Headed, Complete, Placed
<1>7. DirectoriesApart' /\ FolderLens'
  BY <1>1 DEF MetaInv, DirectoriesApart, FolderLens
<1> QED BY <1>5, <1>6, <1>7 DEF MetaInv

\* The metadata is planned behind what is written by then.
LEMMA PlannedMeta ==
    ASSUME MetaInv, (GeoInv /\ IsoInv)', UNCHANGED metaVars, Planned
    PROVE  MetaInv'
<1>1. UNCHANGED <<hdrOff, inner, tmpOff, vol, folders, burners, tables, pTab, heads, burnt>>
  BY DEF metaVars
<1>2. stage = "optimized" /\ stage' = "planned" /\ blkSz' = blkSz /\ mapped' = mapped /\ out' = out
  BY DEF Planned, config
<1>3. TmpSize' = TmpSize /\ Laid
  BY <1>2 DEF TmpSize, Laid
<1>4. Heading' /\ Blank' /\ Headed'
  BY <1>1, <1>2, <1>3 DEF MetaInv, Heading, Blank, Headed, Complete
<1>5. DirectoriesApart' /\ FolderLens'
  BY <1>1 DEF MetaInv, DirectoriesApart, FolderLens
<1>6. vol = 1 /\ DOMAIN burners = {}
  BY <1>2, NothingYet DEF MetaInv
<1>7. ~Complete'
  BY <1>1, <1>2, OneVolume DEF MetaInv, Blank, Complete, NoHead
<1>8. out \in Seq(Extents) /\ Offset(out) \in Nat /\ Offset(out) % blkSz = 0
  BY <1>2 DEF MetaInv, GeoInv, Cursor
<1>9. (tmpOff - inner) % blkSz = 0
  <2>1. tmpOff - inner = 0 /\ blkSz \in Nat \ {0}
    BY <1>2, <1>3, BlockIs DEF MetaInv, Blank, Heading, GeoInv
  <2> QED BY <2>1
<1>10. Placed'
  <2> DEFINE at == Offset(out)
  <2>1. Behind(at)'
    <3>1. Offset(out)' = Offset(out)
      BY <1>2 DEF Offset
    <3> QED BY <1>1, <1>2, <1>7, <1>8, <1>9, <3>1 DEF Behind
  <2>2. DirsPut(at)' /\ TablesPut(at)'
    BY <1>1, <1>6 DEF DirsPut, TablesPut
  <2>3. at \in Nat /\ at % blkSz' = 0
    BY <1>2, <1>8
  <2>4. at' = at
    BY <1>2 DEF Offset
  <2> HIDE DEF at
  <2> QED BY <2>1, <2>2, <2>3, <2>4 DEF Placed
<1> QED BY <1>4, <1>5, <1>10 DEF MetaInv
-----------------------------------------------------------------------------
LEMMA HeadMeta ==
    ASSUME MetaInv, (GeoInv /\ IsoInv)', NEW slave \in SlaveLens, PlanHead(slave)
    PROVE  MetaInv'
<1>1. PICK head \in Seq(Extents) :
              /\ OptimizeBehind(head)
              /\ hdrOff' \in Nat /\ inner' \in Nat /\ tmpOff' = inner'
              /\ hdrOff' % TmpSize = 0 /\ inner' % TmpSize = 0
              /\ hdrOff' + (Len(Rules) + 1) * blkSz <= inner'
              /\ PlacedAt(head, Extent(Tmp, hdrOff', inner' - hdrOff'), Cap)
  BY HeadIs DEF MetaInv
<1>2. UNCHANGED <<vol, folders, burners, tables, pTab, heads, burnt>>
  BY DEF PlanHead, dirVars, tabVars
<1>3. stage = "adjusted" /\ stage' = "optimized" /\ blkSz' = blkSz /\ mapped' = mapped /\ out' = PadTo(head, blkSz)
  BY <1>1 DEF OptimizeBehind, config
<1>4. TmpSize' = TmpSize
  BY <1>3 DEF TmpSize
<1>5. PlacedAt(out', Extent(Tmp, hdrOff', inner' - hdrOff'), Cap)
  <2>1. blkSz \in Nat \ {0}
    BY <1>3, BlockIs DEF MetaInv, GeoInv
  <2> QED BY <1>1, <1>3, <2>1, PadToIs
<1>6. Heading'
  BY <1>1, <1>3, <1>4, <1>5 DEF Heading
<1>7. Blank' /\ Headed' /\ Placed'
  BY <1>1, <1>2, <1>3 DEF MetaInv, Blank, Headed, Complete, Placed
<1>8. DirectoriesApart' /\ FolderLens'
  BY <1>2 DEF MetaInv, DirectoriesApart, FolderLens
<1> QED BY <1>6, <1>7, <1>8 DEF MetaInv

LEMMA BreachMeta ==
    ASSUME MetaInv, (GeoInv /\ IsoInv)', NEW slave, BreachOfTrust(slave)
    PROVE  MetaInv'
<1>1. UNCHANGED <<hdrOff, inner, tmpOff, vol, folders, burners, tables, pTab, heads, burnt>>
      /\ stage' = "aborted"
  BY DEF BreachOfTrust, isoVars, tmpVars, dirVars, tabVars
<1>2. Heading' /\ Placed' /\ Blank' /\ Headed'
  BY <1>1 DEF MetaInv, Heading, Placed, Laid, Blank, Headed, Complete
<1>3. DirectoriesApart' /\ FolderLens'
  BY <1>1 DEF MetaInv, DirectoriesApart, FolderLens
<1> QED BY <1>2, <1>3 DEF MetaInv

\* The volume is burnt when all of it is planned.
LEMMA BurntMeta ==
    ASSUME MetaInv, (GeoInv /\ IsoInv)', UNCHANGED metaVars, burnt # <<>>, CommitMapped \/ CommitCopied
    PROVE  MetaInv'
<1>1. UNCHANGED <<hdrOff, inner, tmpOff, vol, folders, burners, tables, pTab, heads, burnt>>
  BY DEF metaVars
<1>2. stage = "planned" /\ stage' = "burnt" /\ UNCHANGED <<blkSz, mapped, out>>
  BY DEF CommitMapped, CommitCopied, config
<1>3. TmpSize' = TmpSize /\ Laid /\ Complete' = Complete
  BY <1>1, <1>2 DEF TmpSize, Laid, Complete
<1>4. Heading' /\ Blank' /\ Headed'
  BY <1>1, <1>2, <1>3 DEF MetaInv, Heading, Blank, Headed
<1>5. Placed'
  <2>1. \A at : (Behind(at) => Behind(at)') /\ (DirsPut(at) => DirsPut(at)') /\ (TablesPut(at) => TablesPut(at)')
    BY <1>1, <1>2, <1>3, PutAtKept DEF Behind, DirsPut, TablesPut
  <2> QED BY <1>2, <2>1 DEF MetaInv, Placed
<1>6. DirectoriesApart' /\ FolderLens'
  BY <1>1 DEF MetaInv, DirectoriesApart, FolderLens
<1> QED BY <1>4, <1>5, <1>6 DEF MetaInv

LEMMA LayoutMeta ==
    ASSUME MetaInv, (GeoInv /\ IsoInv)', Layout /\ UNCHANGED <<poolVars, isoVars>>
    PROVE  MetaInv'
<1>1. UNCHANGED metaVars
  BY DEF isoVars, metaVars, tmpVars, dirVars, tabVars
<1>2. CASE \E f \in Files : OnFileFd(f)
  BY <1>1, <1>2, EarlyMeta DEF OnFileFd
<1>3. CASE Adjust
  BY <1>1, <1>3, EarlyMeta DEF Adjust
<1>4. CASE WriteRange
  BY <1>1, <1>4, RangeMeta
<1>5. CASE Planned
  BY <1>1, <1>5, PlannedMeta
<1>6. CASE burnt # <<>> /\ (CommitMapped \/ CommitCopied)
  BY <1>1, <1>6, BurntMeta
<1> QED BY <1>2, <1>3, <1>4, <1>5, <1>6 DEF Layout

LEMMA CommitMeta ==
    ASSUME MetaInv, (GeoInv /\ IsoInv)', CommitTmp
    PROVE  MetaInv'
<1>1. /\ UNCHANGED <<hdrOff, inner, tmpOff, vol, folders, burners, tables, pTab, heads>>
      /\ stage = "planned" /\ stage' = "planned" /\ Complete /\ burnt' = heads
      /\ UNCHANGED <<blkSz, mapped, out>>
  BY DEF CommitTmp, tmpVars, dirVars, tabVars, vars, config
<1>2. TmpSize' = TmpSize /\ Laid /\ Complete' = Complete
  BY <1>1 DEF TmpSize, Laid, Complete
<1>3. Heading' /\ Blank' /\ Headed'
  BY <1>1, <1>2 DEF MetaInv, Heading, Blank, Headed
<1>4. Placed'
  <2>1. \A at : (Behind(at) => Behind(at)') /\ (DirsPut(at) => DirsPut(at)') /\ (TablesPut(at) => TablesPut(at)')
    BY <1>1, <1>2, PutAtKept DEF Behind, DirsPut, TablesPut
  <2> QED BY <1>1, <2>1 DEF MetaInv, Placed
<1>5. DirectoriesApart' /\ FolderLens'
  BY <1>1 DEF MetaInv, DirectoriesApart, FolderLens
<1> QED BY <1>3, <1>4, <1>5 DEF MetaInv

\* The metadata is appended; what is planned of it is in what is appended.
LEMMA MetaMeta ==
    ASSUME MetaInv, (GeoInv /\ IsoInv)', PlanMeta
    PROVE  MetaInv'
<1>1. /\ UNCHANGED <<hdrOff, inner, vol, folders, burners, tables, pTab, burnt, blkSz, mapped>>
      /\ stage = "planned" /\ stage' = "planned" /\ vol \notin Volumes /\ ~Complete
      /\ heads' = [v \in Volumes |-> [heads[v] EXCEPT !.blocks = Offset(out') \div blkSz]]
  BY DEF PlanMeta, dirVars, tabVars, laid, config
<1>2. PICK end : /\ end = RoundedUp(tmpOff, TmpSize) /\ tmpOff' = end
                 /\ out' = PadTo(Appended(out, Extent(Tmp, inner, end - inner)), blkSz)
  BY MetaIs DEF MetaInv
<1>3. Laid /\ TmpSize' = TmpSize /\ Laid'
  BY <1>1 DEF Laid, TmpSize
<1>4. blkSz \in Nat \ {0}
  BY <1>3, BlockIs DEF MetaInv, GeoInv
<1>5. inner \in Nat /\ tmpOff \in Nat /\ inner <= tmpOff
  BY <1>3 DEF MetaInv, Heading
<1>6. end \in Nat /\ tmpOff <= end /\ end % TmpSize = 0
  BY <1>2, <1>5, TmpSizeIs, RoundedUpIs
<1>7. PICK at \in Nat : at % blkSz = 0 /\ Behind(at) /\ DirsPut(at) /\ TablesPut(at)
  BY <1>1 DEF MetaInv, Placed
<1>8. out \in Seq(Extents) /\ at = Offset(out)
  BY <1>1, <1>7 DEF Behind
<1>9. inner < tmpOff
  <2>1. Placing /\ vol > 1 /\ vol \in Nat
    BY <1>1, OneVolume DEF MetaInv, IsoInv, Placing
  <2>2. WrittenDirs(1) = Dirs
    BY <2>1, WrittenAll
  <2>3. <<1, Root>> \in DOMAIN burners
    BY <2>1, <2>2, TableIs DEF MetaInv, IsoInv, Dots
  <2> DEFINE k == <<1, Root>>
  <2>4. PutAt(at, burners[k].dot.lba, burners[k].tmp, burners[k].dot.len) /\ burners[k].dot.len > 0
    BY <1>7, <2>3 DEF DirsPut
  <2> HIDE DEF k
  <2> QED BY <1>5, <2>4 DEF PutAt
<1> DEFINE x == Extent(Tmp, inner, end - inner)
           mid == Appended(out, x)
<1>10. x \in Extents /\ x.len = end - inner /\ x.len > 0
  <2>1. Tmp \in Media
    BY IsoAssumption, GeometryAssumption
  <2> QED BY <1>5, <1>6, <1>9, <2>1 DEF Extent, Extents
<1>11. mid \in Seq(Extents) /\ Offset(mid) = at + (end - inner) /\ PlacedAt(mid, x, at)
  <2> HIDE DEF x
  <2> QED BY <1>8, <1>10, AppendedIs
<1>12. /\ out' \in Seq(Extents) /\ PlacedAt(out', x, at)
       /\ Offset(out') \in Nat /\ Offset(out') % blkSz = 0
  <2>1. out' = PadTo(mid, blkSz)
    BY <1>2
  <2> HIDE DEF mid, x
  <2> QED BY <1>4, <1>11, <2>1, PadToIs
<1>13. at + (end - inner) <= Offset(out')
  <2> DEFINE rest == (blkSz - (Offset(mid) % blkSz)) % blkSz
             y == Extent(Zero, 0, rest)
  <2>1. out' = Appended(mid, y)
    BY <1>2 DEF PadTo
  <2>2. Offset(mid) \in Nat
    BY <1>5, <1>6, <1>11
  <2>3. rest \in Nat
    BY <1>4, <2>2, Padding
  <2> HIDE DEF rest
  <2>4. y \in Extents /\ y.len = rest
    BY <2>3, GeometryAssumption DEF Extent, Extents
  <2> HIDE DEF y, mid, x
  <2>5. Offset(out') = Offset(mid) + rest
    BY <1>11, <2>1, <2>4, AppendedIs
  <2> QED BY <1>11, <2>2, <2>3, <2>5
<1>14. Extends(out', out)
  BY MetaIs DEF MetaInv
<1> DEFINE blocks == Offset(out') \div blkSz
<1>15. blocks \in Nat /\ blocks * blkSz = Offset(out')
  BY <1>4, <1>12, Exactly
<1>16. blocks # 0
  <2>1. Offset(out') > 0
    BY <1>5, <1>6, <1>9, <1>12, <1>13
  <2> HIDE DEF blocks
  <2> QED BY <1>4, <1>15, <2>1
<1> HIDE DEF blocks
<1>17. /\ heads' \in [Volumes -> Heads]
       /\ \A v \in Volumes : heads'[v] = [heads[v] EXCEPT !.blocks = blocks]
       /\ \A v \in Volumes : /\ heads'[v].blocks = blocks /\ heads'[v].root = heads[v].root
                             /\ heads'[v].rootLen = heads[v].rootLen /\ heads'[v].tabLen = heads[v].tabLen
                             /\ heads'[v].lsb = heads[v].lsb /\ heads'[v].msb = heads[v].msb
  <2>1. heads \in [Volumes -> Heads]
    BY DEF MetaInv, Headed
  <2>2. heads' = [v \in Volumes |-> [heads[v] EXCEPT !.blocks = blocks]]
    BY <1>1 DEF blocks
  <2> QED BY <1>15, <2>1, <2>2 DEF Heads
<1>18. Complete'
  BY <1>16, <1>17, OneVolume DEF Complete
<1>19. Heading'
  BY <1>1, <1>2, <1>3, <1>5, <1>6, <1>14 DEF MetaInv, Heading, Extends
<1>20. Blank' /\ Headed'
  <2>1. burnt = <<>>
    BY <1>1 DEF MetaInv, Headed
  <2> QED BY <1>1, <1>17, <2>1 DEF Blank, Headed
<1>21. Placed'
  <2>1. Behind(at)'
    <3>1. \A v \in Volumes : at + (end - inner) <= heads'[v].blocks * blkSz
      BY <1>13, <1>15, <1>17
    <3> QED BY <1>1, <1>2, <1>3, <1>6, <1>12, <1>18, <3>1 DEF Behind
  <2>2. \A lba, tmp, len : PutAt(at, lba, tmp, len) => PutAt(at, lba, tmp, len)'
    BY <1>1, <1>2, <1>5, <1>6 DEF PutAt
  <2>3. DirsPut(at)'
    BY <1>1, <1>7, <2>2 DEF DirsPut
  <2>4. TablesPut(at)'
    <3>1. \A v \in 1 .. vol - 1 : v \in Volumes
      BY OneVolume DEF MetaInv, IsoInv, Placing
    <3> QED BY <1>1, <1>7, <1>17, <2>2, <3>1 DEF TablesPut
  <2> QED BY <1>1, <1>7, <2>1, <2>3, <2>4 DEF Placed
<1>22. DirectoriesApart' /\ FolderLens'
  BY <1>1 DEF MetaInv, DirectoriesApart, FolderLens
<1> QED BY <1>19, <1>20, <1>21, <1>22 DEF MetaInv
-----------------------------------------------------------------------------
\* While the directories are planned.
LEMMA WhilePlanning ==
    ASSUME MetaInv, stage = "planned", vol \in Volumes
    PROVE  /\ ~Complete /\ burnt = <<>> /\ Laid /\ blkSz \in Nat \ {0}
           /\ inner \in Nat /\ tmpOff \in Nat /\ inner <= tmpOff
           /\ \E at \in Nat : /\ at % blkSz = 0 /\ Behind(at) /\ DirsPut(at) /\ TablesPut(at)
                              /\ at = Offset(out) /\ (tmpOff - inner) % blkSz = 0
<1>1. Laid
  BY DEF Laid
<1>2. PICK at \in Nat : at % blkSz = 0 /\ Behind(at) /\ DirsPut(at) /\ TablesPut(at)
  BY DEF MetaInv, Placed
<1>3. ~Complete
  BY <1>2 DEF Behind
<1>4. at = Offset(out) /\ (tmpOff - inner) % blkSz = 0
  BY <1>2, <1>3 DEF Behind
<1>5. burnt = <<>>
  BY <1>3 DEF MetaInv, Headed
<1>6. inner \in Nat /\ tmpOff \in Nat /\ inner <= tmpOff
  BY <1>1 DEF MetaInv, Heading
<1> QED BY <1>1, <1>2, <1>3, <1>4, <1>5, <1>6, BlockIs DEF MetaInv, GeoInv

\* What is written next in the temporary storage has its place in the volume.
LEMMA NextPlace ==
    ASSUME NEW at \in Nat, NEW i \in Nat, NEW t \in Nat, NEW b \in Nat \ {0}, i <= t,
           at % b = 0, (t - i) % b = 0, NEW off, off = t + at - i
    PROVE  off \in Nat /\ off % b = 0 /\ off \div b \in Nat /\ (off \div b) * b + i = at + t
<1>1. off \in Nat /\ off = at + (t - i)
  OBVIOUS
<1>2. off % b = 0
  <2>1. t - i \in Int /\ at \in Int
    OBVIOUS
  <2> QED BY <1>1, <2>1, SumOfMultiples
<1>3. off \div b \in Nat /\ (off \div b) * b = off
  BY <1>1, <1>2, Exactly
<1>4. (off \div b) * b + i = at + t
  BY <1>1, <1>3
<1> QED BY <1>1, <1>2, <1>3, <1>4

LEMMA DirMeta ==
    ASSUME MetaInv, (GeoInv /\ IsoInv)', WriteDir
    PROVE  MetaInv'
<1>1. PICK d, k0 : d = Current /\ k0 = <<vol, d>>
  OBVIOUS
<1>2. /\ stage = "planned" /\ vol \in Volumes /\ dirNo < N
      /\ UNCHANGED <<stage, blkSz, mapped, out, hdrOff, inner, vol, tables, pTab, heads, burnt>>
  BY DEF WriteDir, Planning, N, vars, config, tabVars
<1>3. /\ ~Complete /\ burnt = <<>> /\ Laid /\ blkSz \in Nat \ {0}
      /\ inner \in Nat /\ tmpOff \in Nat /\ inner <= tmpOff
  BY <1>2, WhilePlanning
<1>4. PICK at \in Nat : /\ at % blkSz = 0 /\ Behind(at) /\ DirsPut(at) /\ TablesPut(at)
                        /\ at = Offset(out) /\ (tmpOff - inner) % blkSz = 0
  BY <1>2, WhilePlanning
<1>5. PICK len \in Nat \ {0} : \E off, own :
         /\ len % blkSz = 0 /\ off = tmpOff + Offset(out) - inner /\ tmpOff' = tmpOff + len
         /\ own.tmp = tmpOff /\ own.dot = Place(off, len) /\ {"tmp", "dot", "up"} \subseteq DOMAIN own
         /\ burners' = Settle(Put(burners, <<vol, Current>>, own), vol, Current, Place(off, len))
         /\ folders' = [e \in DOMAIN folders \cup {Current} |->
               IF e = Current THEN [off |-> off, len |-> len, name |-> <<>>]
               ELSE IF e \in NamedBelow THEN [folders[e] EXCEPT !.name = fit[NameOf(e)]]
               ELSE folders[e]]
  BY <1>3, DirectoryIs DEF MetaInv
<1>6. PICK off, own :
         /\ len % blkSz = 0 /\ off = tmpOff + Offset(out) - inner /\ tmpOff' = tmpOff + len
         /\ own.tmp = tmpOff /\ own.dot = Place(off, len) /\ {"tmp", "dot", "up"} \subseteq DOMAIN own
         /\ burners' = Settle(Put(burners, <<vol, Current>>, own), vol, Current, Place(off, len))
         /\ folders' = [e \in DOMAIN folders \cup {Current} |->
               IF e = Current THEN [off |-> off, len |-> len, name |-> <<>>]
               ELSE IF e \in NamedBelow THEN [folders[e] EXCEPT !.name = fit[NameOf(e)]]
               ELSE folders[e]]
  BY <1>5
<1>7. /\ len % blkSz = 0 /\ off = tmpOff + Offset(out) - inner /\ tmpOff' = tmpOff + len
      /\ own.tmp = tmpOff /\ own.dot = Place(off, len) /\ {"tmp", "dot", "up"} \subseteq DOMAIN own
      /\ burners' = Settle(Put(burners, k0, own), vol, d, Place(off, len))
      /\ folders' = [e \in DOMAIN folders \cup {d} |->
            IF e = d THEN [off |-> off, len |-> len, name |-> <<>>]
            ELSE IF e \in NamedBelow THEN [folders[e] EXCEPT !.name = fit[NameOf(e)]]
            ELSE folders[e]]
  BY <1>1, <1>6
<1>8. off \div blkSz \in Nat /\ (off \div blkSz) * blkSz + inner = at + tmpOff
  BY <1>3, <1>4, <1>7, NextPlace
<1>9. own.dot.lba = off \div blkSz /\ own.dot.len = len
  BY <1>7 DEF Place
<1>10. d \in Dirs /\ d \notin WrittenDirs(vol)
  BY <1>1, <1>2, CurrentIs DEF MetaInv, IsoInv
<1>11. k0 \notin DOMAIN burners
  BY <1>1, <1>10 DEF MetaInv, IsoInv, Dots
<1>12. d \notin DOMAIN folders
  BY <1>10 DEF MetaInv, IsoInv, Filing
<1>13. TmpSize' = TmpSize /\ Laid' /\ ~Complete'
  BY <1>2, <1>3 DEF TmpSize, Laid, Complete
<1> DEFINE list == Put(burners, k0, own)
<1>14. /\ DOMAIN list = DOMAIN burners \cup {k0} /\ list[k0] = own
       /\ \A k \in DOMAIN burners : list[k] = burners[k]
  BY <1>11 DEF Put
<1>15. \A k \in DOMAIN list : {"tmp", "dot", "up"} \subseteq DOMAIN list[k]
  BY <1>7, <1>14 DEF MetaInv, IsoInv, Dots
<1>16. /\ DOMAIN burners' = DOMAIN list
       /\ \A k \in DOMAIN list :
             burners'[k] = IF k[1] = vol /\ ParentOf(k[2]) = d
                           THEN [list[k] EXCEPT !.up = Place(off, len)] ELSE list[k]
  BY <1>7 DEF Settle
<1> HIDE DEF list
<1>17. \A k \in DOMAIN list : burners'[k].tmp = list[k].tmp /\ burners'[k].dot = list[k].dot
  BY <1>15, <1>16
<1>18. /\ DOMAIN burners' = DOMAIN burners \cup {k0}
       /\ burners'[k0].tmp = tmpOff /\ burners'[k0].dot.len = len /\ burners'[k0].dot.lba = off \div blkSz
       /\ \A k \in DOMAIN burners : burners'[k].tmp = burners[k].tmp /\ burners'[k].dot = burners[k].dot
  <2>1. DOMAIN burners' = DOMAIN burners \cup {k0}
    BY <1>14, <1>16
  <2>2. burners'[k0].tmp = tmpOff /\ burners'[k0].dot = own.dot
    BY <1>7, <1>14, <1>17
  <2> QED BY <1>9, <1>14, <1>17, <2>1, <2>2
<1>19. Heading'
  <2>1. hdrOff \in Nat /\ hdrOff % TmpSize = 0 /\ inner % TmpSize = 0
        /\ hdrOff + (Len(Rules) + 1) * blkSz <= inner
        /\ PlacedAt(out, Extent(Tmp, hdrOff, inner - hdrOff), Cap)
    BY <1>3 DEF MetaInv, Heading
  <2>2. tmpOff' \in Nat /\ inner <= tmpOff'
    BY <1>3, <1>7
  <2> QED BY <1>2, <1>3, <1>13, <2>1, <2>2 DEF Heading
<1>20. Blank' /\ Headed'
  BY <1>2, <1>3 DEF MetaInv, Blank, Headed, Complete
<1>21. \A lba, tmp, n : PutAt(at, lba, tmp, n) => PutAt(at, lba, tmp, n)'
  BY <1>2, <1>3, <1>7 DEF PutAt
<1>22. Placed'
  <2>1. Behind(at)'
    <3>1. (tmpOff' - inner) % blkSz = 0
      <4>1. tmpOff' - inner = (tmpOff - inner) + len
        BY <1>3, <1>7
      <4>2. tmpOff - inner \in Int /\ len \in Int
        BY <1>3
      <4>3. ((tmpOff - inner) + len) % blkSz = 0
        BY <1>3, <1>4, <1>7, <4>2, SumOfMultiples
      <4> QED BY <4>1, <4>3
    <3>2. out \in Seq(Extents)
      BY <1>3, <1>4 DEF Behind
    <3>3. Offset(out)' = Offset(out)
      BY <1>2 DEF Offset
    <3> QED BY <1>2, <1>4, <1>13, <3>1, <3>2, <3>3 DEF Behind
  <2>2. DirsPut(at)'
    <3>1. ASSUME NEW k \in DOMAIN burners
          PROVE  /\ PutAt(at, burners[k].dot.lba, burners[k].tmp, burners[k].dot.len)'
                 /\ burners'[k].dot.len > 0
      <4>1. PutAt(at, burners[k].dot.lba, burners[k].tmp, burners[k].dot.len) /\ burners[k].dot.len > 0
        BY <1>4 DEF DirsPut
      <4> DEFINE lba == burners[k].dot.lba
                 tmp == burners[k].tmp
                 n == burners[k].dot.len
      <4>2. burners'[k].tmp = tmp /\ burners'[k].dot.lba = lba /\ burners'[k].dot.len = n
        BY <1>18
      <4>3. /\ lba \in Nat /\ tmp \in Nat /\ n \in Nat
            /\ inner <= tmp /\ tmp + n <= tmpOff /\ lba * blkSz + inner = at + tmp
        BY <4>1 DEF PutAt
      <4>4. lba * blkSz' + inner' = at + tmp
        BY <1>2, <4>3
      <4> HIDE DEF lba, tmp, n
      <4>5. tmp + n <= tmpOff' /\ inner' <= tmp
        BY <1>2, <1>3, <1>7, <4>3
      <4>6. n > 0
        BY <4>1 DEF n
      <4> QED BY <4>2, <4>3, <4>4, <4>5, <4>6 DEF PutAt
    <3>2. /\ PutAt(at, burners[k0].dot.lba, burners[k0].tmp, burners[k0].dot.len)'
          /\ burners'[k0].dot.len > 0
      <4>1. (off \div blkSz) * blkSz' + inner' = at + tmpOff /\ tmpOff + len <= tmpOff' /\ inner' <= tmpOff
        BY <1>2, <1>3, <1>7, <1>8
      <4> QED BY <1>3, <1>8, <1>18, <4>1 DEF PutAt
    <3> QED BY <1>18, <3>1, <3>2 DEF DirsPut
  <2>3. TablesPut(at)'
    <3>1. ASSUME NEW v \in 1 .. vol - 1 PROVE <<v, Root>> \in DOMAIN burners
      <4>1. vol \in Nat /\ v \in Nat /\ v < vol /\ v \in 1 .. vol
        BY <1>2, OneVolume
      <4>2. WrittenDirs(v) = Dirs
        BY <4>1, WrittenAll DEF MetaInv, IsoInv
      <4> QED BY <4>1, <4>2, TableIs DEF MetaInv, IsoInv, Dots
    <3>2. ASSUME NEW v \in 1 .. vol - 1 PROVE burners'[<<v, Root>>].dot = burners[<<v, Root>>].dot
      BY <1>18, <3>1
    <3> QED BY <1>2, <1>4, <1>21, <3>2 DEF TablesPut
  <2> QED BY <1>2, <1>4, <2>1, <2>2, <2>3 DEF Placed
<1>23. DirectoriesApart'
  <2>1. ASSUME NEW k \in DOMAIN burners
        PROVE  burners[k].tmp + burners[k].dot.len <= tmpOff
    BY <1>4 DEF DirsPut, PutAt
  <2>2. ASSUME NEW k \in DOMAIN burners', NEW l \in DOMAIN burners', k # l
        PROVE  \/ burners'[k].tmp + burners'[k].dot.len <= burners'[l].tmp
               \/ burners'[l].tmp + burners'[l].dot.len <= burners'[k].tmp
    <3>1. CASE k \in DOMAIN burners /\ l \in DOMAIN burners
      BY <1>18, <2>2, <3>1 DEF MetaInv, DirectoriesApart
    <3>2. CASE k = k0 /\ l \in DOMAIN burners
      BY <1>18, <2>1, <3>2
    <3>3. CASE l = k0 /\ k \in DOMAIN burners
      BY <1>18, <2>1, <3>3
    <3> QED BY <1>18, <2>2, <3>1, <3>2, <3>3
  <2> QED BY <2>2 DEF DirectoriesApart
<1>24. FolderLens'
  <2>1. pTab = <<>>
    BY <1>2 DEF MetaInv, IsoInv, Walking, N
  <2>2. ASSUME NEW e \in DOMAIN folders' PROVE folders'[e].len = burners'[<<vol, e>>].dot.len
    <3>1. CASE e = d
      BY <1>1, <1>7, <1>18, <3>1
    <3>2. CASE e # d
      <4>1. e \in DOMAIN folders
        BY <1>7, <2>2, <3>2
      <4>2. {"off", "len", "name"} \subseteq DOMAIN folders[e]
        BY <4>1 DEF MetaInv, IsoInv, Filing
      <4>3. folders'[e] = IF e \in NamedBelow THEN [folders[e] EXCEPT !.name = fit[NameOf(e)]] ELSE folders[e]
        BY <1>7, <3>2, <4>1
      <4>4. folders'[e].len = folders[e].len
        BY <4>2, <4>3
      <4>5. folders[e].len = burners[<<vol, e>>].dot.len
        BY <4>1 DEF MetaInv, FolderLens
      <4>6. <<vol, e>> \in DOMAIN burners
        <5>1. e \in WrittenDirs(vol) /\ vol \in 1 .. vol
          BY <1>2, <4>1, OneVolume DEF MetaInv, IsoInv, Filing
        <5>2. e \in Dirs
          BY <5>1, WrittenAll DEF MetaInv, IsoInv
        <5> QED BY <5>1, <5>2 DEF MetaInv, IsoInv, Dots
      <4> QED BY <1>18, <4>4, <4>5, <4>6
    <3> QED BY <3>1, <3>2
  <2> QED BY <1>2, <2>1, <2>2 DEF FolderLens
<1> QED BY <1>19, <1>20, <1>22, <1>23, <1>24 DEF MetaInv
-----------------------------------------------------------------------------
LEMMA OpenMeta ==
    ASSUME MetaInv, (GeoInv /\ IsoInv)', OpenTable
    PROVE  MetaInv'
<1>1. /\ stage = "planned" /\ dirNo = N
      /\ folders' = [folders EXCEPT ![Root].name = RootName]
      /\ UNCHANGED <<stage, blkSz, mapped, out, hdrOff, inner, tmpOff, vol, burners, tables, heads, burnt>>
  BY DEF OpenTable, Planning, N, vars, config, tmpVars
<1>2. TmpSize' = TmpSize /\ Laid' = Laid /\ Complete' = Complete
  BY <1>1 DEF TmpSize, Laid, Complete
<1>3. Heading' /\ Blank' /\ Headed' /\ DirectoriesApart'
  BY <1>1, <1>2 DEF MetaInv, Heading, Blank, Headed, DirectoriesApart
<1>4. Placed'
  <2>1. \A at : (Behind(at) => Behind(at)') /\ (DirsPut(at) => DirsPut(at)') /\ (TablesPut(at) => TablesPut(at)')
    BY <1>1, <1>2, PutAtKept DEF Behind, DirsPut, TablesPut
  <2> QED BY <1>1, <2>1 DEF MetaInv, Placed
<1>5. FolderLens'
  <2>1. DOMAIN folders = Dirs /\ Root \in Dirs
    BY <1>1, WrittenAll, TableIs DEF MetaInv, IsoInv, Filing
  <2>2. \A e \in DOMAIN folders : {"off", "len", "name"} \subseteq DOMAIN folders[e]
    BY DEF MetaInv, IsoInv, Filing
  <2>3. DOMAIN folders' = DOMAIN folders /\ folders'[Root] = [folders[Root] EXCEPT !.name = RootName]
        /\ \A e \in DOMAIN folders : e # Root => folders'[e] = folders[e]
    BY <1>1, <2>1
  <2>4. folders'[Root].name = RootName /\ \A e \in DOMAIN folders : folders'[e].len = folders[e].len
    BY <2>1, <2>2, <2>3
  <2> QED BY <1>1, <2>3, <2>4 DEF MetaInv, FolderLens
<1> QED BY <1>3, <1>4, <1>5 DEF MetaInv

LEMMA VisitMeta ==
    ASSUME MetaInv, (GeoInv /\ IsoInv)', VisitDir
    PROVE  MetaInv'
<1>1. /\ stage = "planned" /\ Unvisited # {}
      /\ UNCHANGED <<stage, blkSz, mapped, out, hdrOff, inner, tmpOff, vol, folders, burners, tables, heads, burnt>>
  BY DEF VisitDir, Planning, vars, config, tmpVars, dirVars
<1>2. TmpSize' = TmpSize /\ Laid' = Laid /\ Complete' = Complete
  BY <1>1 DEF TmpSize, Laid, Complete
<1>3. Heading' /\ Blank' /\ Headed' /\ DirectoriesApart'
  BY <1>1, <1>2 DEF MetaInv, Heading, Blank, Headed, DirectoriesApart
<1>4. Placed'
  <2>1. \A at : (Behind(at) => Behind(at)') /\ (DirsPut(at) => DirsPut(at)') /\ (TablesPut(at) => TablesPut(at)')
    BY <1>1, <1>2, PutAtKept DEF Behind, DirsPut, TablesPut
  <2> QED BY <1>1, <2>1 DEF MetaInv, Placed
<1>5. pTab # <<>>
  BY <1>1 DEF Unvisited
<1>6. FolderLens'
  BY <1>1, <1>5 DEF MetaInv, FolderLens
<1> QED BY <1>3, <1>4, <1>6 DEF MetaInv

\* The rows have names, so their table has a size.
LEMMA RowsSize ==
    ASSUME MetaInv, pTab # <<>>
    PROVE  TableSize(rows) \in Nat
<1>1. dirNo = N /\ \E path : Walked(path)
  BY DEF MetaInv, IsoInv, Walking, N
<1>2. PICK path : Walked(path)
  BY <1>1
<1>3. /\ Len(path) \in Nat /\ Len(rows) = Len(path)
      /\ \A i \in 1 .. Len(path) : rows[i] = RowOf(path[i])
  BY <1>2, RowsAre DEF Walked
<1>4. \A i \in 1 .. Len(path) : path[i] \in DOMAIN pTab /\ pTab[path[i]] \in Dirs
  BY <1>2 DEF Walked
<1>5. WrittenDirs(vol) = Dirs
  BY <1>1, WrittenAll DEF MetaInv, IsoInv
<1>6. ASSUME NEW d \in Dirs PROVE folders[d].name \in Seq(Seq(Nat)) /\ folders[d].name # <<>>
  <2>1. CASE d = Root
    <3>1. folders[d].name = <<<<0>>>>
      BY <2>1 DEF MetaInv, FolderLens, RootName
    <3> QED BY <3>1
  <2>2. CASE d # Root
    <3>1. TextOf(d) \in Seq(Nat) /\ folders[d].name = <<TextOf(d)>>
      BY <1>5, <2>2, ParentIs DEF MetaInv, IsoInv, Naming
    <3> QED BY <3>1
  <2> QED BY <2>1, <2>2
<1>7. \A i \in 1 .. Len(path) : rows[i].name = folders[pTab[path[i]]].name
  <2>1. \A k : RowOf(k).name = folders[pTab[k]].name
    BY DEF RowOf
  <2> QED BY <1>3, <2>1
<1> QED BY <1>3, <1>4, <1>6, <1>7, TableSizeIs

LEMMA TablesMeta ==
    ASSUME MetaInv, (GeoInv /\ IsoInv)', WriteTables
    PROVE  MetaInv'
<1> DEFINE size == TableSize(rows)
           room == RoundedUp(size, blkSz)
           msb == tmpOff + room
           toOut == Offset(out) - inner
           head == [root |-> folders[Root].off \div blkSz, rootLen |-> folders[Root].len,
                    tabLen |-> size, lsb |-> (tmpOff + toOut) \div blkSz,
                    msb |-> (msb + toOut) \div blkSz, blocks |-> 0]
<1>1. /\ stage = "planned" /\ vol \in Volumes /\ pTab # <<>>
      /\ UNCHANGED <<stage, blkSz, mapped, out, hdrOff, inner, burners, burnt>>
      /\ vol' = vol + 1 /\ folders' = <<>> /\ pTab' = <<>>
  BY DEF WriteTables, Planning, vars, config
<1>2. /\ tables' = Put(tables, vol, [lsb |-> tmpOff, msb |-> msb, rows |-> rows])
      /\ heads' = [heads EXCEPT ![vol] = head] /\ tmpOff' = msb + room
  BY DEF WriteTables
<1>3. /\ ~Complete /\ burnt = <<>> /\ Laid /\ blkSz \in Nat \ {0}
      /\ inner \in Nat /\ tmpOff \in Nat /\ inner <= tmpOff
  BY <1>1, WhilePlanning
<1>4. PICK at \in Nat : /\ at % blkSz = 0 /\ Behind(at) /\ DirsPut(at) /\ TablesPut(at)
                        /\ at = Offset(out) /\ (tmpOff - inner) % blkSz = 0
  BY <1>1, WhilePlanning
<1>5. size \in Nat
  BY <1>1, RowsSize
<1> HIDE DEF size
<1>6. room \in Nat /\ size <= room /\ room % blkSz = 0
  BY <1>3, <1>5, RoundedUpIs
<1> HIDE DEF room
<1>7. /\ msb \in Nat /\ inner <= msb /\ (msb - inner) % blkSz = 0
      /\ tmpOff' \in Nat /\ inner <= tmpOff' /\ (tmpOff' - inner) % blkSz = 0
      /\ tmpOff + size <= tmpOff' /\ msb + size <= tmpOff' /\ tmpOff <= tmpOff'
  <2>1. tmpOff - inner \in Int /\ room \in Int
    BY <1>3, <1>6
  <2>2. ((tmpOff - inner) + room) % blkSz = 0
    BY <1>3, <1>4, <1>6, <2>1, SumOfMultiples
  <2>3. (tmpOff - inner) + room \in Int
    BY <2>1
  <2>4. (((tmpOff - inner) + room) + room) % blkSz = 0
    BY <1>3, <1>6, <2>1, <2>2, <2>3, SumOfMultiples
  <2>5. msb - inner = (tmpOff - inner) + room /\ tmpOff' - inner = ((tmpOff - inner) + room) + room
    BY <1>2, <1>3, <1>6
  <2> QED BY <1>2, <1>3, <1>5, <1>6, <2>2, <2>4, <2>5
<1> DEFINE lsbAt == (tmpOff + toOut) \div blkSz
           msbAt == (msb + toOut) \div blkSz
<1>8. lsbAt \in Nat /\ lsbAt * blkSz + inner = at + tmpOff
  <2>1. tmpOff + toOut = tmpOff + at - inner
    BY <1>3, <1>4
  <2> DEFINE off == tmpOff + toOut
  <2> HIDE DEF off
  <2>2. off = tmpOff + at - inner
    BY <2>1 DEF off
  <2>3. /\ at \in Nat /\ inner \in Nat /\ tmpOff \in Nat /\ blkSz \in Nat \ {0} /\ inner <= tmpOff
        /\ at % blkSz = 0 /\ (tmpOff - inner) % blkSz = 0
    BY <1>3, <1>4
  <2>4. /\ off \in Nat /\ off = at + (tmpOff - inner) /\ tmpOff - inner \in Int /\ at \in Int
        /\ blkSz \in Nat \ {0} /\ inner \in Nat /\ tmpOff \in Nat
    BY <2>2, <2>3
  <2>5. off % blkSz = 0
    BY <2>3, <2>4, SumOfMultiples
  <2>6. off \div blkSz \in Nat /\ (off \div blkSz) * blkSz = off
    BY <2>4, <2>5, Exactly
  <2>7. off + inner = at + tmpOff
    BY <2>4
  <2> QED BY <2>6, <2>7 DEF off
<1>9. msbAt \in Nat /\ msbAt * blkSz + inner = at + msb
  <2> HIDE DEF msb
  <2>1. msb + toOut = msb + at - inner
    BY <1>3, <1>4, <1>7
  <2> DEFINE off == msb + toOut
  <2> HIDE DEF off
  <2>2. off = msb + at - inner
    BY <2>1 DEF off
  <2>3. /\ at \in Nat /\ inner \in Nat /\ msb \in Nat /\ blkSz \in Nat \ {0} /\ inner <= msb
        /\ at % blkSz = 0 /\ (msb - inner) % blkSz = 0
    BY <1>3, <1>4, <1>7
  <2>4. /\ off \in Nat /\ off = at + (msb - inner) /\ msb - inner \in Int /\ at \in Int
        /\ blkSz \in Nat \ {0} /\ inner \in Nat /\ msb \in Nat
    BY <2>2, <2>3
  <2>5. off % blkSz = 0
    BY <2>3, <2>4, SumOfMultiples
  <2>6. off \div blkSz \in Nat /\ (off \div blkSz) * blkSz = off
    BY <2>4, <2>5, Exactly
  <2>7. off + inner = at + msb
    BY <2>4
  <2> QED BY <2>6, <2>7 DEF off
<1> HIDE DEF toOut
<1>10. dirNo = N /\ <<vol, Root>> \in DOMAIN burners /\ Root \in DOMAIN folders
  <2>1. dirNo = N
    BY <1>1 DEF MetaInv, IsoInv, Walking, N
  <2>2. WrittenDirs(vol) = Dirs
    BY <2>1, WrittenAll DEF MetaInv, IsoInv
  <2>3. vol \in 1 .. vol
    BY <1>1, OneVolume
  <2> QED BY <2>1, <2>2, <2>3, TableIs DEF MetaInv, IsoInv, Dots, Filing
<1>11. /\ burners[<<vol, Root>>].dot.lba = folders[Root].off \div blkSz
       /\ burners[<<vol, Root>>].dot.len = folders[Root].len
       /\ burners[<<vol, Root>>].dot.lba \in Nat /\ burners[<<vol, Root>>].dot.len \in Nat
  <2>1. PutAt(at, burners[<<vol, Root>>].dot.lba, burners[<<vol, Root>>].tmp, burners[<<vol, Root>>].dot.len)
    BY <1>4, <1>10 DEF DirsPut
  <2> QED BY <1>10, <2>1 DEF MetaInv, FolderLens, IsoInv, Filing, PutAt
<1>12. /\ head \in Heads /\ head.blocks = 0
       /\ head.root = burners[<<vol, Root>>].dot.lba /\ head.rootLen = burners[<<vol, Root>>].dot.len
       /\ head.tabLen = size /\ head.lsb = lsbAt /\ head.msb = msbAt
  <2> HIDE DEF msb
  <2>1. head = [root |-> burners[<<vol, Root>>].dot.lba, rootLen |-> burners[<<vol, Root>>].dot.len,
                tabLen |-> size, lsb |-> lsbAt, msb |-> msbAt, blocks |-> 0]
    <3>1. head = [root |-> folders[Root].off \div blkSz, rootLen |-> folders[Root].len,
                  tabLen |-> size, lsb |-> lsbAt, msb |-> msbAt, blocks |-> 0]
      OBVIOUS
    <3> HIDE DEF head, lsbAt, msbAt
    <3> QED BY <1>11, <3>1
  <2> HIDE DEF head, lsbAt, msbAt
  <2> QED BY <1>5, <1>8, <1>9, <1>11, <2>1 DEF Heads
<1> HIDE DEF head
<1>13. /\ heads' \in [Volumes -> Heads] /\ heads'[vol] = head
       /\ \A v \in Volumes : v # vol => heads'[v] = heads[v]
  BY <1>1, <1>2, <1>12 DEF MetaInv, Headed
<1>14. ~Complete'
  BY <1>3, <1>12, <1>13, OneVolume DEF Complete
<1>15. TmpSize' = TmpSize /\ Laid'
  BY <1>1, <1>3 DEF TmpSize, Laid
<1>16. Heading'
  <2>1. hdrOff \in Nat /\ hdrOff % TmpSize = 0 /\ inner % TmpSize = 0
        /\ hdrOff + (Len(Rules) + 1) * blkSz <= inner
        /\ PlacedAt(out, Extent(Tmp, hdrOff, inner - hdrOff), Cap)
    BY <1>3 DEF MetaInv, Heading
  <2> QED BY <1>1, <1>3, <1>7, <1>15, <2>1 DEF Heading
<1>17. Blank' /\ Headed'
  BY <1>1, <1>3, <1>13 DEF Blank, Headed
<1>18. DirectoriesApart' /\ FolderLens'
  BY <1>1 DEF MetaInv, DirectoriesApart, FolderLens
<1>19. Placed'
  <2> HIDE DEF msb, lsbAt, msbAt
  <2>1. Behind(at)'
    <3>1. out \in Seq(Extents)
      BY <1>3, <1>4 DEF Behind
    <3>2. Offset(out)' = Offset(out)
      BY <1>1 DEF Offset
    <3> QED BY <1>1, <1>4, <1>7, <1>14, <3>1, <3>2 DEF Behind
  <2>2. \A lba, tmp, n : PutAt(at, lba, tmp, n) => PutAt(at, lba, tmp, n)'
    BY <1>1, <1>3, <1>7 DEF PutAt
  <2>3. DirsPut(at)'
    BY <1>1, <1>4, <2>2 DEF DirsPut
  <2>4. ASSUME NEW v \in 1 .. vol
        PROVE  /\ v \in DOMAIN tables'
               /\ PutAt(at, heads[v].lsb, tables[v].lsb, heads[v].tabLen)'
               /\ PutAt(at, heads[v].msb, tables[v].msb, heads[v].tabLen)'
               /\ heads'[v].root = burners[<<v, Root>>].dot.lba
               /\ heads'[v].rootLen = burners[<<v, Root>>].dot.len
    <3>1. vol \in Nat /\ vol \in 1 .. Len(Rules) /\ Len(Rules) \in Nat /\ Volumes = 1 .. Len(Rules)
      BY <1>1, OneVolume
    <3>2. DOMAIN tables' = DOMAIN tables \cup {vol}
      BY <1>2 DEF Put
    <3>3. CASE v = vol
      <4>1. tables'[v].lsb = tmpOff /\ tables'[v].msb = msb
        BY <1>2, <3>3 DEF Put
      <4>2. heads'[v] = head
        BY <1>13, <3>3
      <4>3. PutAt(at, heads[v].lsb, tables[v].lsb, heads[v].tabLen)'
        BY <1>1, <1>3, <1>5, <1>7, <1>8, <1>12, <4>1, <4>2 DEF PutAt
      <4>4. PutAt(at, heads[v].msb, tables[v].msb, heads[v].tabLen)'
        BY <1>1, <1>3, <1>5, <1>7, <1>9, <1>12, <4>1, <4>2 DEF PutAt
      <4> QED BY <1>12, <3>2, <3>3, <4>2, <4>3, <4>4
    <3>4. CASE v # vol
      <4>1. v \in 1 .. vol - 1 /\ v \in Volumes
        BY <3>1, <3>4
      <4>2. /\ v \in DOMAIN tables
            /\ PutAt(at, heads[v].lsb, tables[v].lsb, heads[v].tabLen)
            /\ PutAt(at, heads[v].msb, tables[v].msb, heads[v].tabLen)
            /\ heads[v].root = burners[<<v, Root>>].dot.lba
            /\ heads[v].rootLen = burners[<<v, Root>>].dot.len
        BY <1>4, <4>1 DEF TablesPut
      <4>3. heads'[v] = heads[v]
        BY <1>13, <3>4, <4>1
      <4>4. tables'[v] = tables[v]
        BY <1>2, <3>4, <4>2 DEF Put
      <4> DEFINE lsb == heads[v].lsb
                 msbOf == heads[v].msb
                 lsbTmp == tables[v].lsb
                 msbTmp == tables[v].msb
                 n == heads[v].tabLen
      <4>5. /\ lsb \in Nat /\ lsbTmp \in Nat /\ n \in Nat /\ msbOf \in Nat /\ msbTmp \in Nat
            /\ inner <= lsbTmp /\ lsbTmp + n <= tmpOff /\ lsb * blkSz + inner = at + lsbTmp
            /\ inner <= msbTmp /\ msbTmp + n <= tmpOff /\ msbOf * blkSz + inner = at + msbTmp
        BY <4>2 DEF PutAt
      <4>6. lsb * blkSz' + inner' = at + lsbTmp /\ msbOf * blkSz' + inner' = at + msbTmp
        BY <1>1, <4>5
      <4>7. /\ heads'[v].lsb = lsb /\ heads'[v].msb = msbOf /\ heads'[v].tabLen = n
            /\ tables'[v].lsb = lsbTmp /\ tables'[v].msb = msbTmp
        BY <4>3, <4>4
      <4> HIDE DEF lsb, msbOf, lsbTmp, msbTmp, n
      <4>8. inner' <= lsbTmp /\ inner' <= msbTmp /\ lsbTmp + n <= tmpOff' /\ msbTmp + n <= tmpOff'
        BY <1>1, <1>3, <1>7, <4>5
      <4>9. /\ PutAt(at, heads[v].lsb, tables[v].lsb, heads[v].tabLen)'
            /\ PutAt(at, heads[v].msb, tables[v].msb, heads[v].tabLen)'
        BY <4>5, <4>6, <4>7, <4>8 DEF PutAt
      <4> QED BY <3>2, <4>2, <4>3, <4>9
    <3> QED BY <3>3, <3>4
  <2>5. TablesPut(at)'
    <3>1. vol' - 1 = vol
      BY <1>1, OneVolume
    <3> QED BY <1>1, <2>4, <3>1 DEF TablesPut
  <2> QED BY <1>1, <1>4, <2>1, <2>3, <2>5 DEF Placed
<1> QED BY <1>16, <1>17, <1>18, <1>19 DEF MetaInv

LEMMA NextMetaInv == MetaInv /\ [IsoNext]_allVars => MetaInv'
<1> SUFFICES ASSUME MetaInv, [IsoNext]_allVars PROVE MetaInv'
  OBVIOUS
<1>1. (GeoInv /\ IsoInv)'
  BY IsoGeoInv, NextIsoInv DEF MetaInv
<1>2. CASE Layout /\ UNCHANGED <<poolVars, isoVars>>
  BY <1>1, <1>2, LayoutMeta
<1>3. ASSUME NEW slave \in SlaveLens, PlanHead(slave) \/ BreachOfTrust(slave) PROVE MetaInv'
  BY <1>1, <1>3, HeadMeta, BreachMeta
<1>4. CASE FitEntry \/ ReadVolume \/ UNCHANGED allVars
  <2>1. UNCHANGED metaVars /\ UNCHANGED <<stage, blkSz, mapped, out>>
    BY <1>4 DEF FitEntry, ReadVolume, allVars, vars, config, isoVars, tmpVars, dirVars, tabVars, metaVars
  <2> QED BY <1>1, <2>1, QuietMeta
<1>5. CASE WriteDir
  BY <1>1, <1>5, DirMeta
<1>6. CASE OpenTable
  BY <1>1, <1>6, OpenMeta
<1>7. CASE VisitDir
  BY <1>1, <1>7, VisitMeta
<1>8. CASE WriteTables
  BY <1>1, <1>8, TablesMeta
<1>9. CASE PlanMeta
  BY <1>1, <1>9, MetaMeta
<1>10. CASE CommitTmp
  BY <1>1, <1>10, CommitMeta
<1> QED BY <1>2, <1>3, <1>4, <1>5, <1>6, <1>7, <1>8, <1>9, <1>10 DEF IsoNext
-----------------------------------------------------------------------------
(***************************************************************************)
(* What is listed of the temporary storage is read from the volume.        *)
(***************************************************************************)
LEMMA SpanOf ==
    ASSUME GeoInv, stage = "burnt", NEW off \in Nat, NEW len \in Nat, NEW at \in Nat,
           PlacedAt(out, Extent(Tmp, off, len), at),
           mapped => off % Sector = 0 /\ len % Sector = 0 /\ at % Sector = 0
    PROVE  Span(at, len, Tmp, off) \in Spans
<1>1. PICK i \in DOMAIN out : out[i] = Extent(Tmp, off, len) /\ Offset(SubSeq(out, 1, i - 1)) = at
  BY DEF PlacedAt
<1>2. Tmp \in Disks /\ Sector \in Nat \ {0}
  BY IsoAssumption, GeometryAssumption
<1>3. CASE mapped
  <2> DEFINE t == Target(at, Extent(Tmp, off, len))
  <2>1. table = [j \in DOMAIN out |-> Target(Offset(SubSeq(out, 1, j - 1)), out[j])]
    BY <1>3 DEF GeoInv, Burnt
  <2>2. table[i] = t /\ i \in DOMAIN table
    BY <1>1, <2>1
  <2>3. t \in ToSet(table)
    BY <2>2 DEF ToSet
  <2>4. t.start = at \div Sector /\ t.len = len \div Sector /\ t.med = Tmp /\ t.off = off \div Sector
    BY <1>2 DEF Target, Extent
  <2>5. (at \div Sector) * Sector = at /\ (len \div Sector) * Sector = len /\ (off \div Sector) * Sector = off
    BY <1>2, <1>3, Exactly
  <2>6. Span(t.start * Sector, t.len * Sector, t.med, t.off * Sector) \in Spans
    BY <1>3, <2>3 DEF Spans
  <2> QED BY <2>4, <2>5, <2>6
<1>4. CASE ~mapped
  <2>1. Span(Offset(SubSeq(out, 1, i - 1)), out[i].len, out[i].med, out[i].off) \in Spans
    BY <1>4 DEF Spans
  <2>2. out[i].len = len /\ out[i].med = Tmp /\ out[i].off = off
    BY <1>1 DEF Extent
  <2> QED BY <1>1, <2>1, <2>2
<1> QED BY <1>3, <1>4

LEMMA HoldsIn ==
    ASSUME NEW spans, NEW off \in Nat, NEW len \in Nat, NEW at \in Nat, Span(at, len, Tmp, off) \in spans,
           NEW x \in Nat, NEW tmp \in Nat, NEW n \in Nat,
           off <= tmp, tmp + n <= off + len, x + off = at + tmp
    PROVE  HoldsAt(spans, x, Tmp, tmp, n)
<1> DEFINE s == Span(at, len, Tmp, off)
<1>1. s.start = at /\ s.len = len /\ s.med = Tmp /\ s.off = off
  BY DEF Span
<1>2. at <= x /\ x + n <= at + len /\ off + x - at = tmp
  OBVIOUS
<1> HIDE DEF s
<1>3. s \in spans
  BY DEF s
<1> QED BY <1>1, <1>2, <1>3 DEF HoldsAt

(***************************************************************************)
(* Once the volume is burnt, the descriptors are where a reader looks for  *)
(* them, and the path tables and the root where these say; each directory  *)
(* lies at the place in its "." entry, and apart from all the others.      *)
(***************************************************************************)
MetadataPlaced ==
    stage = "burnt" =>
        /\ HeadsPlaced(Spans)
        /\ \A v \in Volumes : /\ burnt[v].root = burners[<<v, Root>>].dot.lba
                              /\ burnt[v].rootLen = burners[<<v, Root>>].dot.len
        /\ \A v \in Volumes : \A d \in Dirs :
              /\ <<v, d>> \in DOMAIN burners
              /\ Holds(Spans, v, burners[<<v, d>>].dot, burners[<<v, d>>].tmp)
        /\ DirectoriesApart

LEMMA MetaPlaced == MetaInv => MetadataPlaced
<1> SUFFICES ASSUME MetaInv, stage = "burnt"
             PROVE  /\ HeadsPlaced(Spans)
                    /\ \A v \in Volumes : /\ burnt[v].root = burners[<<v, Root>>].dot.lba
                                          /\ burnt[v].rootLen = burners[<<v, Root>>].dot.len
                    /\ \A v \in Volumes : \A d \in Dirs :
                          /\ <<v, d>> \in DOMAIN burners
                          /\ Holds(Spans, v, burners[<<v, d>>].dot, burners[<<v, d>>].tmp)
  BY DEF MetadataPlaced, MetaInv
<1>1. GeoInv /\ Complete /\ burnt = heads /\ Laid
  BY DEF MetaInv, Headed, Laid
<1>2. blkSz \in Nat \ {0} /\ blkSz % Sector = 0 /\ Cap % blkSz = 0 /\ Cap \in Nat /\ Sector \in Nat \ {0}
  BY <1>1, BlockIs, IsoAssumption, GeometryAssumption DEF GeoInv
<1>3. /\ hdrOff \in Nat /\ inner \in Nat /\ tmpOff \in Nat /\ inner <= tmpOff
      /\ hdrOff % TmpSize = 0 /\ inner % TmpSize = 0
      /\ hdrOff + (Len(Rules) + 1) * blkSz <= inner
      /\ PlacedAt(out, Extent(Tmp, hdrOff, inner - hdrOff), Cap)
  BY <1>1 DEF MetaInv, Heading
<1>4. PICK at \in Nat : at % blkSz = 0 /\ Behind(at) /\ DirsPut(at) /\ TablesPut(at)
  BY DEF MetaInv, Placed
<1>5. /\ vol \notin Volumes /\ tmpOff % TmpSize = 0
      /\ PlacedAt(out, Extent(Tmp, inner, tmpOff - inner), at)
      /\ \A v \in Volumes : at + (tmpOff - inner) <= heads[v].blocks * blkSz
  BY <1>1, <1>4 DEF Behind
<1>6. /\ \A v \in Volumes : v \in Nat /\ v < vol /\ v \in 1 .. vol - 1 /\ v \in 1 .. vol
      /\ Volumes = 1 .. Len(Rules) /\ Len(Rules) \in Nat
  <2>1. vol \in 1 .. Len(Rules) + 1 /\ Volumes = 1 .. Len(Rules) /\ Len(Rules) \in Nat
    BY OneVolume DEF MetaInv, IsoInv, Placing
  <2> QED BY <1>5, <2>1
<1>7. heads \in [Volumes -> Heads]
  BY DEF MetaInv, Headed
<1> DEFINE headsLen == (Len(Rules) + 1) * blkSz
<1>8. headsLen \in Nat
  <2>1. Len(Rules) + 1 \in Nat
    BY <1>6
  <2> QED BY <1>2, <2>1
<1>9. inner - hdrOff \in Nat /\ tmpOff - inner \in Nat
  <2>1. hdrOff + headsLen <= inner
    BY <1>3
  <2> HIDE DEF headsLen
  <2> QED BY <1>3, <1>8, <2>1
<1>10. mapped => /\ hdrOff % Sector = 0 /\ inner % Sector = 0 /\ tmpOff % Sector = 0
                 /\ (inner - hdrOff) % Sector = 0 /\ (tmpOff - inner) % Sector = 0
                 /\ Cap % Sector = 0 /\ at % Sector = 0
  <2> SUFFICES ASSUME mapped
               PROVE  /\ hdrOff % Sector = 0 /\ inner % Sector = 0 /\ tmpOff % Sector = 0
                      /\ (inner - hdrOff) % Sector = 0 /\ (tmpOff - inner) % Sector = 0
                      /\ Cap % Sector = 0 /\ at % Sector = 0
    OBVIOUS
  <2>1. TmpSize \in Nat \ {0} /\ TmpSize % Sector = 0
    BY TmpSizeIs
  <2>2. hdrOff \in Int /\ inner \in Int /\ tmpOff \in Int /\ Cap \in Int /\ at \in Int
    BY <1>2, <1>3
  <2>3. \A x \in Int : x % TmpSize = 0 => x % Sector = 0
    BY <1>2, <2>1, MultipleOfMultiple
  <2>4. \A x \in Int : x % blkSz = 0 => x % Sector = 0
    BY <1>2, MultipleOfMultiple
  <2>5. \A x, y \in Int : x % Sector = 0 /\ y % Sector = 0 => (x - y) % Sector = 0
    BY <1>2, SumOfMultiples
  <2> QED BY <1>2, <1>3, <1>4, <1>5, <2>2, <2>3, <2>4, <2>5
<1>11. /\ Span(Cap, inner - hdrOff, Tmp, hdrOff) \in Spans
       /\ Span(at, tmpOff - inner, Tmp, inner) \in Spans
  BY <1>1, <1>2, <1>3, <1>5, <1>9, <1>10, SpanOf
<1>12. HoldsAt(Spans, Cap, Tmp, hdrOff, headsLen)
  <2>1. hdrOff + headsLen <= inner
    BY <1>3
  <2> HIDE DEF headsLen
  <2>2. hdrOff + headsLen <= hdrOff + (inner - hdrOff) /\ Cap + hdrOff = Cap + hdrOff
    BY <1>3, <1>8, <2>1
  <2> QED BY <1>2, <1>3, <1>8, <1>9, <1>11, <2>2, HoldsIn
<1>13. ASSUME NEW v \in Volumes, NEW place, NEW tmp, PutAt(at, place.lba, tmp, place.len)
       PROVE  Holds(Spans, v, place, tmp)
  <2> DEFINE x == place.lba * blkSz
             n == place.len
             end == heads[v].blocks * blkSz
  <2>1. place.lba \in Nat /\ tmp \in Nat /\ n \in Nat /\ inner <= tmp /\ tmp + n <= tmpOff /\ x + inner = at + tmp
    BY <1>13 DEF PutAt
  <2>2. x \in Nat
    BY <1>2, <2>1
  <2>3. end \in Nat /\ at + (tmpOff - inner) <= end
    <3>1. heads[v].blocks \in Nat
      BY <1>7 DEF Heads
    <3> QED BY <1>2, <1>5, <3>1
  <2> HIDE DEF x, n, end
  <2>4. x + n <= end /\ tmp + n <= inner + (tmpOff - inner)
    BY <1>3, <2>1, <2>2, <2>3
  <2>5. HoldsAt(Spans, x, Tmp, tmp, n)
    BY <1>3, <1>9, <1>11, <2>1, <2>2, <2>4, HoldsIn
  <2>6. burnt[v].blocks * blkSz = end
    BY <1>1 DEF end
  <2> QED BY <2>4, <2>5, <2>6 DEF Holds, x, n
<1>14. ASSUME NEW v \in Volumes
       PROVE  /\ PutAt(at, burnt[v].lsb, tables[v].lsb, burnt[v].tabLen)
              /\ PutAt(at, burnt[v].msb, tables[v].msb, burnt[v].tabLen)
              /\ burnt[v].root = burners[<<v, Root>>].dot.lba
              /\ burnt[v].rootLen = burners[<<v, Root>>].dot.len
  BY <1>1, <1>4, <1>6 DEF TablesPut
<1>15. HeadsPlaced(Spans)
  <2>1. ASSUME NEW v \in Volumes
        PROVE  /\ Holds(Spans, v, [lba |-> burnt[v].lsb, len |-> burnt[v].tabLen], tables[v].lsb)
               /\ Holds(Spans, v, [lba |-> burnt[v].msb, len |-> burnt[v].tabLen], tables[v].msb)
    <3> DEFINE p == [lba |-> burnt[v].lsb, len |-> burnt[v].tabLen]
               q == [lba |-> burnt[v].msb, len |-> burnt[v].tabLen]
    <3>1. PutAt(at, p.lba, tables[v].lsb, p.len) /\ PutAt(at, q.lba, tables[v].msb, q.len)
      BY <1>14
    <3> HIDE DEF p, q
    <3>2. Holds(Spans, v, p, tables[v].lsb) /\ Holds(Spans, v, q, tables[v].msb)
      BY <1>13, <3>1
    <3> QED BY <3>2 DEF p, q
  <2> QED BY <1>12, <2>1 DEF HeadsPlaced
<1>16. ASSUME NEW v \in Volumes, NEW d \in Dirs
       PROVE  /\ <<v, d>> \in DOMAIN burners
              /\ Holds(Spans, v, burners[<<v, d>>].dot, burners[<<v, d>>].tmp)
  <2>1. WrittenDirs(v) = Dirs
    BY <1>6, WrittenAll DEF MetaInv, IsoInv
  <2>2. <<v, d>> \in DOMAIN burners
    BY <1>6, <2>1 DEF MetaInv, IsoInv, Dots
  <2>3. PutAt(at, burners[<<v, d>>].dot.lba, burners[<<v, d>>].tmp, burners[<<v, d>>].dot.len)
    BY <1>4, <2>2 DEF DirsPut
  <2> QED BY <1>13, <2>2, <2>3
<1> QED BY <1>14, <1>15, <1>16

(***************************************************************************)
(* The metadata of a burnt volume is where it is said to be.               *)
(***************************************************************************)
THEOREM MetadataAlwaysPlaced == IsoSpec => []MetadataPlaced
BY InitMetaInv, NextMetaInv, MetaPlaced, PTL DEF IsoSpec
-----------------------------------------------------------------------------
(***************************************************************************)
(* Where the extents of a list begin.                                      *)
(***************************************************************************)
Begin(list, i) == Offset(SubSeq(list, 1, i - 1))

LEMMA BeginsAre ==
    ASSUME NEW list \in Seq(Extents)
    PROVE  /\ Len(list) \in Nat /\ Begin(list, 1) = 0 /\ Begin(list, Len(list) + 1) = Offset(list)
           /\ \A i \in 1 .. Len(list) + 1 : Begin(list, i) \in Nat
           /\ \A i \in 1 .. Len(list) : list[i].len \in Nat /\ Begin(list, i + 1) = Begin(list, i) + list[i].len
<1>1. Len(list) \in Nat
  OBVIOUS
<1>2. Begin(list, 1) = 0
  <2>1. SubSeq(list, 1, 1 - 1) = <<>>
    OBVIOUS
  <2> QED BY <2>1, OffsetEmpty DEF Begin
<1>3. Begin(list, Len(list) + 1) = Offset(list)
  <2>1. (Len(list) + 1) - 1 = Len(list) /\ SubSeq(list, 1, Len(list)) = list
    BY SubSeqFull
  <2> QED BY <2>1 DEF Begin
<1>4. ASSUME NEW i \in 1 .. Len(list) + 1 PROVE Begin(list, i) \in Nat
  <2>1. SubSeq(list, 1, i - 1) \in Seq(Extents)
    OBVIOUS
  <2> QED BY <2>1, OffsetNat DEF Begin
<1>5. ASSUME NEW i \in 1 .. Len(list) PROVE list[i].len \in Nat /\ Begin(list, i + 1) = Begin(list, i) + list[i].len
  <2> DEFINE u == SubSeq(list, 1, i)
             v == SubSeq(list, 1, i - 1)
             t == Append(v, list[i])
  <2>1. list[i] \in Extents /\ i \in Nat /\ i - 1 \in 0 .. Len(list) /\ i \in 0 .. Len(list)
    OBVIOUS
  <2>2. u \in Seq(Extents) /\ Len(u) = i /\ \A j \in 1 .. i : u[j] = list[j]
    BY <2>1, SubSeqProperties
  <2>3. v \in Seq(Extents) /\ Len(v) = i - 1 /\ \A j \in 1 .. i - 1 : v[j] = list[j]
    BY <2>1, SubSeqProperties
  <2> HIDE DEF u, v
  <2>4. Len(t) = i /\ \A j \in 1 .. i : t[j] = u[j]
    BY <2>1, <2>2, <2>3
  <2>5. Offset(u) = Offset(t)
    <3> HIDE DEF t
    <3> QED BY <2>1, <2>2, <2>4, OffsetOf
  <2>6. Offset(t) = Offset(v) + list[i].len
    BY <2>1, <2>3, OffsetAppend
  <2>7. (i + 1) - 1 = i
    BY <2>1
  <2>8. Begin(list, i + 1) = Offset(u) /\ Begin(list, i) = Offset(v)
    BY <2>7 DEF u, v, Begin
  <2> QED BY <2>1, <2>5, <2>6, <2>8 DEF Extents
<1> QED BY <1>1, <1>2, <1>3, <1>4, <1>5

LEMMA BeginsGrow ==
    ASSUME NEW list \in Seq(Extents), NEW i \in 1 .. Len(list), NEW j \in i + 1 .. Len(list) + 1
    PROVE  Begin(list, i) + list[i].len <= Begin(list, j)
<1> DEFINE b(n) == Begin(list, n)
           T == {n \in Nat : i + 1 + n <= Len(list) + 1 => b(i) + list[i].len <= b(i + 1 + n)}
<1>1. /\ Len(list) \in Nat /\ i \in Nat /\ (\A n \in 1 .. Len(list) + 1 : b(n) \in Nat)
      /\ \A n \in 1 .. Len(list) : list[n].len \in Nat /\ b(n + 1) = b(n) + list[n].len
  BY BeginsAre
<1> HIDE DEF b
<1>2. 0 \in T
  <2>1. b(i + 1 + 0) = b(i) + list[i].len
    BY <1>1
  <2>2. b(i) + list[i].len \in Nat
    BY <1>1
  <2> QED BY <2>1, <2>2
<1>3. ASSUME NEW n \in T PROVE n + 1 \in T
  <2> DEFINE m == i + 1 + n
  <2> SUFFICES ASSUME m + 1 <= Len(list) + 1 PROVE b(i) + list[i].len <= b(m + 1)
    <3>1. i + 1 + (n + 1) = m + 1
      BY <1>1
    <3> QED BY <3>1
  <2>1. m \in 1 .. Len(list) /\ m <= Len(list) + 1
    BY <1>1
  <2>2. b(i) + list[i].len <= b(m)
    BY <2>1
  <2> HIDE DEF m
  <2>3. m \in 1 .. Len(list) + 1
    BY <1>1, <2>1
  <2>4. b(m + 1) = b(m) + list[m].len /\ list[m].len \in Nat /\ b(m) \in Nat /\ b(i) + list[i].len \in Nat
    BY <1>1, <2>1, <2>3
  <2> QED BY <2>2, <2>4
<1>4. T = Nat
  <2>1. T \in SUBSET Nat
    OBVIOUS
  <2> HIDE DEF T
  <2> QED BY <2>1, <1>2, <1>3, NatSetInduction
<1>5. j - (i + 1) \in T /\ i + 1 + (j - (i + 1)) = j /\ j <= Len(list) + 1
  BY <1>1, <1>4
<1>6. b(i) + list[i].len <= b(j)
  BY <1>5
<1> QED BY <1>6 DEF b

-----------------------------------------------------------------------------
(***************************************************************************)
(* A byte of the volume is in one span only.                               *)
(***************************************************************************)
LEMMA FloorIs ==
    ASSUME NEW b \in Nat \ {0}, NEW x \in Nat, NEW y \in Nat, NEW z \in Nat, x + y <= z
    PROVE  /\ x \div b \in Nat /\ y \div b \in Nat /\ z \div b \in Nat
           /\ (x \div b) * b + (y \div b) * b <= (z \div b) * b
<1> DEFINE p == x \div b
           q == y \div b
           r == z \div b
           m == z % b
<1>1. p \in Nat /\ q \in Nat /\ r \in Nat /\ x = b * p + (x % b) /\ y = b * q + (y % b) /\ z = b * r + m
      /\ x % b \in 0 .. b - 1 /\ y % b \in 0 .. b - 1 /\ m \in 0 .. b - 1
  BY NatDivision
<1> HIDE DEF p, q, r, m
<1>2. b * (p + q) <= b * r + m
  BY <1>1
<1>3. p + q <= r
  <2> SUFFICES ASSUME p + q >= r + 1 PROVE FALSE
    BY <1>1
  <2>1. b * (p + q) >= b * (r + 1)
    BY <1>1
  <2>2. b * (r + 1) = b * r + b
    BY <1>1
  <2> QED BY <1>1, <1>2, <2>1, <2>2
<1>4. p * b + q * b <= r * b
  <2>1. (p + q) * b <= r * b
    BY <1>1, <1>3
  <2> QED BY <1>1, <2>1
<1> QED BY <1>1, <1>4 DEF p, q, r

\* The span of an extent of the output.
Spanned(i) ==
    LET t == Target(Begin(out, i), out[i]) IN
    IF mapped THEN Span(t.start * Sector, t.len * Sector, t.med, t.off * Sector)
    ELSE Span(Begin(out, i), out[i].len, out[i].med, out[i].off)

LEMMA SpansAre ==
    ASSUME GeoInv, stage = "burnt", NEW s \in Spans
    PROVE  \E i \in DOMAIN out : s = Spanned(i)
<1>1. CASE mapped
  <2>1. table = [i \in DOMAIN out |-> Target(Offset(SubSeq(out, 1, i - 1)), out[i])]
    BY <1>1 DEF GeoInv, Burnt
  <2>2. PICK t \in ToSet(table) : s = Span(t.start * Sector, t.len * Sector, t.med, t.off * Sector)
    BY <1>1 DEF Spans
  <2>3. PICK i \in DOMAIN table : t = table[i]
    BY <2>2 DEF ToSet
  <2>4. i \in DOMAIN out /\ t = Target(Begin(out, i), out[i])
    BY <2>1, <2>3 DEF Begin
  <2> QED BY <1>1, <2>2, <2>4 DEF Spanned
<1>2. CASE ~mapped
  BY <1>2 DEF Spans, Spanned, Begin
<1> QED BY <1>1, <1>2

LEMMA SpannedIs ==
    ASSUME out \in Seq(Extents), NEW i \in 1 .. Len(out), NEW j \in i + 1 .. Len(out)
    PROVE  /\ Spanned(i).start \in Nat /\ Spanned(i).len \in Nat /\ Spanned(j).start \in Nat
           /\ Spanned(i).start + Spanned(i).len <= Spanned(j).start
<1>1. Sector \in Nat \ {0} /\ Len(out) \in Nat /\ j \in 1 .. Len(out) /\ j \in i + 1 .. Len(out) + 1
  BY GeometryAssumption
<1> DEFINE x == Begin(out, i)
           y == out[i].len
           z == Begin(out, j)
<1>2. x \in Nat /\ y \in Nat /\ z \in Nat /\ x + y <= z
  <2>1. i \in 1 .. Len(out) + 1 /\ j \in 1 .. Len(out) + 1
    BY <1>1
  <2> QED BY <1>1, <2>1, BeginsAre, BeginsGrow
<1>3. /\ Spanned(i).start = IF mapped THEN (x \div Sector) * Sector ELSE x
      /\ Spanned(i).len = IF mapped THEN (y \div Sector) * Sector ELSE y
      /\ Spanned(j).start = IF mapped THEN (z \div Sector) * Sector ELSE z
  BY DEF Spanned, Span, Target
<1> HIDE DEF x, y, z
<1>4. /\ x \div Sector \in Nat /\ y \div Sector \in Nat /\ z \div Sector \in Nat
      /\ (x \div Sector) * Sector + (y \div Sector) * Sector <= (z \div Sector) * Sector
  BY <1>1, <1>2, FloorIs
<1>5. (x \div Sector) * Sector \in Nat /\ (y \div Sector) * Sector \in Nat /\ (z \div Sector) * Sector \in Nat
  BY <1>1, <1>4
<1> QED BY <1>2, <1>3, <1>4, <1>5

LEMMA SpannedNat ==
    ASSUME out \in Seq(Extents), NEW i \in 1 .. Len(out)
    PROVE  Spanned(i).start \in Nat /\ Spanned(i).len \in Nat
<1>1. Sector \in Nat \ {0} /\ i \in 1 .. Len(out) + 1
  BY GeometryAssumption
<1> DEFINE x == Begin(out, i)
           y == out[i].len
<1>2. x \in Nat /\ y \in Nat
  BY <1>1, BeginsAre
<1>3. /\ Spanned(i).start = IF mapped THEN (x \div Sector) * Sector ELSE x
      /\ Spanned(i).len = IF mapped THEN (y \div Sector) * Sector ELSE y
  BY DEF Spanned, Span, Target
<1> HIDE DEF x, y
<1>4. x \div Sector \in Nat /\ y \div Sector \in Nat
  BY <1>1, <1>2, NatDivision
<1>5. (x \div Sector) * Sector \in Nat /\ (y \div Sector) * Sector \in Nat
  BY <1>1, <1>4
<1> QED BY <1>2, <1>3, <1>5

Covering(s, x) == s.start <= x /\ x < s.start + s.len

LEMMA SpanOnce ==
    ASSUME GeoInv, stage = "burnt", out \in Seq(Extents), NEW x \in Int,
           NEW s \in Spans, NEW t \in Spans, Covering(s, x), Covering(t, x)
    PROVE  s = t
<1>1. PICK i \in DOMAIN out : s = Spanned(i)
  BY SpansAre
<1>2. PICK j \in DOMAIN out : t = Spanned(j)
  BY SpansAre
<1>3. Len(out) \in Nat /\ i \in 1 .. Len(out) /\ j \in 1 .. Len(out)
  OBVIOUS
<1>4. CASE i < j
  <2>1. j \in i + 1 .. Len(out)
    BY <1>3, <1>4
  <2>2. s.start \in Nat /\ s.len \in Nat /\ t.start \in Nat /\ s.start + s.len <= t.start
    BY <1>1, <1>2, <1>3, <2>1, SpannedIs
  <2> QED BY <2>2 DEF Covering
<1>5. CASE j < i
  <2>1. i \in j + 1 .. Len(out)
    BY <1>3, <1>5
  <2>2. t.start \in Nat /\ t.len \in Nat /\ s.start \in Nat /\ t.start + t.len <= s.start
    BY <1>1, <1>2, <1>3, <2>1, SpannedIs
  <2> QED BY <2>2 DEF Covering
<1>6. i = j \/ i < j \/ j < i
  BY <1>3
<1> QED BY <1>1, <1>2, <1>4, <1>5, <1>6

LEMMA ByteRead ==
    ASSUME GeoInv, stage = "burnt", out \in Seq(Extents), NEW x \in Int, NEW byte, Reads(x, byte)
    PROVE  ByteAt(Spans, x) = byte
<1>1. \E s \in Spans : Covering(s, x) /\ byte = SourceByte(s.med, s.off + x - s.start)
  <2>1. CASE mapped
    <3>1. PICK t \in ToSet(table) : /\ t.start * Sector =< x /\ x < (t.start + t.len) * Sector
                                    /\ byte = SourceByte(t.med, t.off * Sector + x - t.start * Sector)
      BY <2>1 DEF Reads, MappedReads
    <3>2. PICK i \in DOMAIN table : t = table[i]
      BY DEF ToSet
    <3>3. i \in 1 .. Len(out) /\ t = Target(Begin(out, i), out[i])
      BY <2>1, <3>2 DEF GeoInv, Burnt, Begin
    <3>4. Len(out) \in Nat /\ Begin(out, i) \in Nat /\ out[i].len \in Nat /\ Sector \in Nat \ {0}
      <4>1. i \in 1 .. Len(out) + 1
        BY <3>3
      <4> QED BY <3>3, <4>1, BeginsAre, GeometryAssumption
    <3>5. t.start \in Nat /\ t.len \in Nat
      <4>1. t.start = Begin(out, i) \div Sector /\ t.len = out[i].len \div Sector
        BY <3>3 DEF Target
      <4> QED BY <3>4, <4>1, NatDivision
    <3>6. (t.start + t.len) * Sector = t.start * Sector + t.len * Sector
      BY <3>4, <3>5
    <3> DEFINE s == Span(t.start * Sector, t.len * Sector, t.med, t.off * Sector)
    <3>7. s.start = t.start * Sector /\ s.len = t.len * Sector /\ s.med = t.med /\ s.off = t.off * Sector
      BY DEF Span
    <3>8. s \in Spans
      BY <2>1 DEF Spans
    <3> HIDE DEF s
    <3>9. Covering(s, x) /\ byte = SourceByte(s.med, s.off + x - s.start)
      BY <3>1, <3>6, <3>7 DEF Covering
    <3> QED BY <3>8, <3>9
  <2>2. CASE ~mapped
    <3>1. PICK i \in DOMAIN out : LET start == Offset(SubSeq(out, 1, i - 1)) IN
              /\ start =< x /\ x < start + out[i].len
              /\ byte = SourceByte(out[i].med, out[i].off + x - start)
      BY <2>2 DEF Reads, CopiedReads
    <3> DEFINE s == Span(Offset(SubSeq(out, 1, i - 1)), out[i].len, out[i].med, out[i].off)
    <3>2. s \in Spans
      BY <2>2 DEF Spans
    <3>3. Covering(s, x) /\ byte = SourceByte(s.med, s.off + x - s.start)
      BY <3>1 DEF Covering, Span
    <3> HIDE DEF s
    <3> QED BY <3>2, <3>3
  <2> QED BY <2>1, <2>2
<1>2. PICK s \in Spans : Covering(s, x) /\ byte = SourceByte(s.med, s.off + x - s.start)
  BY <1>1
<1> DEFINE holding == {t \in Spans : t.start <= x /\ x < t.start + t.len}
<1>3. s \in holding /\ \A t \in holding : t = s
  <2>1. ASSUME NEW t \in holding PROVE t = s
    <3>1. t \in Spans /\ Covering(t, x)
      BY DEF Covering
    <3> QED BY <1>2, <3>1, SpanOnce
  <2> QED BY <1>2, <2>1 DEF Covering
<1>4. (CHOOSE t \in holding : TRUE) = s /\ holding # {}
  <2> HIDE DEF holding
  <2> QED BY <1>3
<1> QED BY <1>2, <1>4 DEF ByteAt
-----------------------------------------------------------------------------
(***************************************************************************)
(* The bytes of a file.                                                    *)
(***************************************************************************)
LEMMA ExtentPlace ==
    ASSUME GeoInv, stage \in {"planned", "burnt"}, NEW x \in FileExtents
    PROVE  WithinDisk(x) \in Nat /\ WithinDisk(x) % blkSz = 0
<1> DEFINE id == Id[x.med]
<1>1. PICK k : Bridged(x, k)
  BY IsBridged
<1> DEFINE c == cols[id][k]
<1>2. c \in Nat /\ c % blkSz = 0 /\ WithinDisk(x) = x.off - k + c /\ k \in Nat /\ k <= x.off
  BY <1>1 DEF Bridged, Column
<1> HIDE DEF c
<1>3. x.off \in Nat /\ x.off % blkSz = 0 /\ k % blkSz = 0 /\ blkSz \in Nat \ {0}
  <2>1. Laid
    BY DEF Laid
  <2>2. x.off \in Nat /\ x.off % blkSz = 0
    BY <2>1, OffsetsAreMultiples
  <2>3. PICK y \in FileExtents : k = y.off
    BY <1>1 DEF Bridged, IsRange
  <2>4. blkSz \in Nat \ {0}
    BY <2>1, GeometryAssumption DEF GeoInv, Sized
  <2> QED BY <2>1, <2>2, <2>3, <2>4, OffsetsAreMultiples
<1> DEFINE d == x.off - k
<1>4. d \in Nat /\ d % blkSz = 0
  BY <1>2, <1>3, SumOfMultiples
<1>5. WithinDisk(x) = d + c
  BY <1>2
<1> HIDE DEF d
<1>6. (d + c) % blkSz = 0 /\ d + c \in Nat
  <2>1. d \in Int /\ c \in Int
    BY <1>2, <1>4
  <2>2. (d + c) % blkSz = 0
    BY <1>2, <1>3, <1>4, <2>1, SumOfMultiples
  <2> QED BY <1>2, <1>4, <2>2
<1> QED BY <1>5, <1>6

LEMMA FileByte ==
    ASSUME NoneShared, WholeSectors, GeoInv, stage = "burnt", out \in Seq(Extents), NEW x \in FileExtents, NEW j \in 0 .. x.len - 1
    PROVE  ByteAt(Spans, WithinDisk(x) + j) = SourceByte(x.med, x.off + j)
<1>1. Reads(WithinDisk(x) + j, SourceByte(x.med, x.off + j))
  BY GeoFilesReadBack DEF FilesReadBack
<1>2. WithinDisk(x) + j \in Int
  BY ExtentPlace
<1> QED BY <1>1, <1>2, ByteRead

\* The sequences that make up the first n extents of a list start where they do.
LEMMA PartedIs ==
    ASSUME NEW list \in Seq(Extents), NEW n \in 0 .. Len(list), NEW seqs, Len(seqs) = n,
           \A i \in 1 .. n : Len(seqs[i]) = list[i].len, NEW start, Parted(start, seqs)
    PROVE  \A i \in 1 .. n + 1 : start[i] = Begin(list, i)
<1> DEFINE T == {m \in Nat : m <= n => start[m + 1] = Begin(list, m + 1)}
<1>1. 0 \in T
  BY BeginsAre DEF Parted
<1>2. ASSUME NEW m \in T PROVE m + 1 \in T
  <2> SUFFICES ASSUME m + 1 <= n PROVE start[(m + 1) + 1] = Begin(list, (m + 1) + 1)
    OBVIOUS
  <2>1. m + 1 \in 1 .. n /\ m + 1 \in 1 .. Len(list) /\ start[m + 1] = Begin(list, m + 1)
    BY <1>2
  <2>2. start[(m + 1) + 1] = start[m + 1] + Len(seqs[m + 1])
    BY <2>1 DEF Parted
  <2>3. Begin(list, (m + 1) + 1) = Begin(list, m + 1) + list[m + 1].len
    BY <2>1, BeginsAre
  <2> QED BY <2>1, <2>2, <2>3
<1>3. T = Nat
  <2>1. T \in SUBSET Nat
    OBVIOUS
  <2> HIDE DEF T
  <2> QED BY <2>1, <1>1, <1>2, NatSetInduction
<1>4. ASSUME NEW i \in 1 .. n + 1 PROVE start[i] = Begin(list, i)
  <2>0. n \in Nat /\ i - 1 \in Nat
    OBVIOUS
  <2>1. (i - 1) + 1 = i /\ i - 1 <= n
    BY <2>0
  <2>2. i - 1 \in T
    BY <1>3, <2>0
  <2>3. i - 1 <= n => start[(i - 1) + 1] = Begin(list, (i - 1) + 1)
    BY <2>2
  <2> HIDE DEF T
  <2> QED BY <2>1, <2>3
<1> QED BY <1>4

SourceBytes == {SourceByte(med, off) : med \in Media, off \in Nat}

Chunks == Seq(Seq(SourceBytes))

\* The chunks of the first n extents of a list, one behind the other.
Joined(all, list, n, chunks) ==
    /\ all \in Seq(SourceBytes) /\ Len(all) = Begin(list, n + 1)
    /\ \A p \in 1 .. Len(all) : \E i \in 1 .. n : \E j \in 1 .. list[i].len : p = Begin(list, i) + j
    /\ \A i \in 1 .. n : \A j \in 1 .. list[i].len : all[Begin(list, i) + j] = chunks[i][j]

\* The bytes of the extents, whatever they are.
LEMMA BytesAre ==
    ASSUME NEW list \in Seq(Extents), NEW n \in 0 .. Len(list),
           NEW bytes \in Chunks, Len(bytes) = n, \A i \in 1 .. n : Len(bytes[i]) = list[i].len
    PROVE  Joined(FlattenSeq(bytes), list, n, bytes)
<1> DEFINE all == FlattenSeq(bytes)
<1>1. PICK start : Parted(start, bytes) /\ Flattened(all, n, start, bytes, SourceBytes)
  BY FlattenIs DEF Chunks
<1> HIDE DEF all
<1>2. \A i \in 1 .. n + 1 : start[i] = Begin(list, i)
  BY <1>1, PartedIs
<1>3. n \in Nat /\ n + 1 \in 1 .. n + 1
  OBVIOUS
<1>4. all \in Seq(SourceBytes) /\ Len(all) = Begin(list, n + 1)
  BY <1>1, <1>2, <1>3 DEF Flattened
<1>5. ASSUME NEW i \in 1 .. n, NEW j \in 1 .. list[i].len PROVE all[Begin(list, i) + j] = bytes[i][j]
  <2>1. j \in 1 .. Len(bytes[i])
    OBVIOUS
  <2>2. all[start[i] + j] = bytes[i][j]
    BY <1>1, <2>1 DEF Flattened
  <2>3. start[i] = Begin(list, i)
    BY <1>2, <1>3
  <2> QED BY <2>2, <2>3
<1>6. ASSUME NEW p \in 1 .. Len(all)
      PROVE  \E i \in 1 .. n : \E j \in 1 .. list[i].len : p = Begin(list, i) + j
  <2>1. PICK i \in 1 .. n : \E j \in 1 .. Len(bytes[i]) : p = start[i] + j
    BY <1>1 DEF Flattened
  <2>2. PICK j \in 1 .. Len(bytes[i]) : p = start[i] + j
    BY <2>1
  <2>3. start[i] = Begin(list, i)
    BY <1>2, <1>3
  <2>4. j \in 1 .. list[i].len /\ p = Begin(list, i) + j
    BY <2>2, <2>3
  <2> QED BY <2>4
<1>7. Joined(all, list, n, bytes)
  BY <1>4, <1>5, <1>6 DEF Joined
<1> QED BY <1>7 DEF all

LEMMA ContentIs ==
    ASSUME GeoTyped, NEW f \in Files
    PROVE  LET list == tree[f] IN
           /\ list \in Seq(Extents) /\ Content(f) \in Seq(SourceBytes) /\ Len(Content(f)) = Offset(list)
           /\ \A i \in 1 .. Len(list) : \A j \in 1 .. list[i].len :
                 Content(f)[Begin(list, i) + j] = SourceByte(list[i].med, list[i].off + j - 1)
<1> DEFINE list == tree[f]
           n == Len(list)
           bytes == [i \in 1 .. n |-> [b \in 1 .. list[i].len |-> SourceByte(list[i].med, list[i].off + b - 1)]]
<1>1. list \in Seq(Extents) /\ n \in Nat /\ DOMAIN list = 1 .. n
  BY TreeTyped
<1> HIDE DEF list
<1>2. \A i \in 1 .. n : list[i].len \in Nat /\ list[i].off \in Nat /\ list[i].med \in Media
  <2>1. \A i \in 1 .. n : list[i] \in Extents
    BY <1>1
  <2> QED BY <2>1 DEF Extents
<1>3. ASSUME NEW i \in 1 .. n PROVE bytes[i] \in Seq(SourceBytes) /\ Len(bytes[i]) = list[i].len
  <2>1. \A b \in 1 .. list[i].len : SourceByte(list[i].med, list[i].off + b - 1) \in SourceBytes
    <3>1. ASSUME NEW b \in 1 .. list[i].len PROVE list[i].off + b - 1 \in Nat
      BY <1>2
    <3> QED BY <1>2, <3>1 DEF SourceBytes
  <2>2. bytes[i] = [b \in 1 .. list[i].len |-> SourceByte(list[i].med, list[i].off + b - 1)]
    OBVIOUS
  <2> QED BY <1>2, <2>1, <2>2
<1>4. \A i \in 1 .. n : \A j \in 1 .. list[i].len : bytes[i][j] = SourceByte(list[i].med, list[i].off + j - 1)
  OBVIOUS
<1>5. Content(f) = FlattenSeq(bytes) /\ bytes \in Seq(Seq(SourceBytes)) /\ Len(bytes) = n
  <2>1. bytes \in Seq(Seq(SourceBytes)) /\ Len(bytes) = n
    BY <1>1, <1>3
  <2>2. Content(f) = FlattenSeq(bytes)
    BY <1>1 DEF Content, list
  <2> QED BY <2>1, <2>2
<1> HIDE DEF bytes
<1>6. n \in 0 .. Len(list)
  BY <1>1
<1>7. /\ Content(f) \in Seq(SourceBytes) /\ Len(Content(f)) = Begin(list, n + 1)
      /\ \A i \in 1 .. n : \A j \in 1 .. list[i].len : Content(f)[Begin(list, i) + j] = bytes[i][j]
  <2>1. \A i \in 1 .. n : Len(bytes[i]) = list[i].len
    BY <1>3
  <2>2. list \in Seq(Extents) /\ bytes \in Chunks /\ Len(bytes) = n
    BY <1>1, <1>5 DEF Chunks
  <2> HIDE DEF n
  <2>3. Joined(FlattenSeq(bytes), list, n, bytes)
    BY <1>6, <2>1, <2>2, BytesAre
  <2>4. Joined(Content(f), list, n, bytes)
    BY <1>5, <2>3
  <2> QED BY <2>4 DEF Joined
<1>8. Len(Content(f)) = Offset(list)
  BY <1>1, <1>7, BeginsAre
<1>9. \A i \in 1 .. n : \A j \in 1 .. list[i].len :
          Content(f)[Begin(list, i) + j] = SourceByte(list[i].med, list[i].off + j - 1)
  BY <1>4, <1>7
<1> QED BY <1>1, <1>7, <1>8, <1>9 DEF list

LEMMA LeastIs == ASSUME NEW S \in SUBSET Nat, S # {} PROVE Min(S) \in S /\ \A x \in S : Min(S) <= x
<1>1. \E x \in S : \A y \in S : x <= y
  BY LeastOf
<1> QED BY <1>1 DEF Min

LEMMA MinPair == ASSUME NEW a \in Nat, NEW b \in Nat, b <= a PROVE Min({a, b}) = b
<1> DEFINE S == {a, b}
<1>1. S \in SUBSET Nat /\ S # {} /\ b \in S
  OBVIOUS
<1>2. Min(S) \in S /\ Min(S) <= b
  <2> HIDE DEF S
  <2> QED BY <1>1, LeastIs
<1>3. Min(S) = a \/ Min(S) = b
  BY <1>2
<1> QED BY <1>2, <1>3

LEMMA AsSeq ==
    ASSUME NEW S, NEW n \in Nat, NEW s \in [1 .. n -> S]
    PROVE  s \in Seq(S) /\ Len(s) = n
OBVIOUS

\* Every file has an extent, and the length of each is one that an entry can say.
Bodied ==
    \A t \in ExtentTrees \cup FileTrees : \A f \in Files :
        t[f] # <<>> /\ \A i \in 1 .. Len(t[f]) : t[f][i].len < LenMod

\* What an entry of a file says of an extent of it.
Points(rec, list, i, size) ==
    /\ rec.lba = WithinDisk(list[i]) \div blkSz
    /\ rec.len = list[i].len
    /\ rec.more <=> Begin(list, i + 1) < size

LEMMA FilePoints ==
    ASSUME GeoInv, Laid, Bodied, NEW f \in Files, NEW name
    PROVE  /\ DOMAIN FileRecords(f, name) = 1 .. Len(tree[f])
           /\ \A i \in 1 .. Len(tree[f]) : Points(FileRecords(f, name)[i], tree[f], i, Offset(tree[f]))
<1> DEFINE list == tree[f]
           L == Len(list)
<1>1. GeoTyped /\ layout[f] = list /\ tree \in ExtentTrees \cup FileTrees
  BY DEF GeoInv, Sized, GeoTyped
<1>2. /\ list \in Seq(Extents) /\ Len(Content(f)) = Offset(list)
      /\ \A i \in 1 .. L : list[i].len < LenMod
  BY <1>1, ContentIs DEF Bodied
<1> HIDE DEF list
<1>3. L \in Nat /\ DOMAIN list = 1 .. L
  BY <1>2
<1>4. ASSUME NEW i \in 1 .. L
      PROVE  Points(FileRecords(f, name)[i], list, i, Offset(list))
  <2> DEFINE left == Len(Content(f)) - Offset(SubSeq(list, 1, i - 1))
             rec == FileRecords(f, name)[i]
  <2>1. /\ rec.lba = WithinDisk(list[i]) \div blkSz /\ rec.len = Min({left, list[i].len}) % LenMod
        /\ rec.more <=> left > list[i].len
    BY <1>1, <1>3 DEF FileRecords
  <2>2. left = Offset(list) - Begin(list, i)
    BY <1>2 DEF Begin
  <2> HIDE DEF left, rec
  <2>3. /\ Begin(list, i) \in Nat /\ Begin(list, i + 1) \in Nat /\ list[i].len \in Nat
        /\ Begin(list, i + 1) = Begin(list, i) + list[i].len
    <3>1. i \in 1 .. Len(list) + 1 /\ i + 1 \in 1 .. Len(list) + 1
      BY <1>3
    <3> QED BY <1>2, <3>1, BeginsAre
  <2>4. Begin(list, i) + list[i].len <= Offset(list) /\ Offset(list) \in Nat
    <3>1. L + 1 \in i + 1 .. Len(list) + 1
      BY <1>3
    <3>2. Begin(list, i) + list[i].len <= Begin(list, L + 1)
      BY <1>2, <3>1, BeginsGrow
    <3> QED BY <1>2, <3>2, BeginsAre, OffsetNat
  <2>5. left \in Nat /\ list[i].len <= left
    BY <2>2, <2>3, <2>4
  <2>6. rec.len = list[i].len
    <3> DEFINE len == list[i].len
    <3>1. len \in Nat /\ len < LenMod /\ LenMod \in Nat \ {0} /\ len <= left
      BY <1>2, <2>3, <2>5, IsoAssumption
    <3> HIDE DEF len
    <3>2. Min({left, len}) = len
      BY <2>5, <3>1, MinPair
    <3>3. len % LenMod = len
      BY <3>1
    <3> QED BY <2>1, <3>2, <3>3 DEF len
  <2>7. rec.more <=> Begin(list, i + 1) < Offset(list)
    BY <2>1, <2>2, <2>3, <2>4
  <2> QED BY <2>1, <2>6, <2>7 DEF Points, rec
<1>5. DOMAIN FileRecords(f, name) = 1 .. L
  BY <1>1, <1>3 DEF FileRecords
<1> QED BY <1>4, <1>5 DEF list

\* A reader who follows the entries of a file has its bytes.
LEMMA ExtentsRead ==
    ASSUME NoneShared, WholeSectors, GeoInv, stage = "burnt", out \in Seq(Extents),
           NEW f \in Files, tree[f] # <<>>,
           NEW entries, Len(entries) \in Nat, NEW first \in 1 .. Len(entries),
           \A i \in 1 .. Len(tree[f]) : /\ first + i - 1 \in 1 .. Len(entries)
                                        /\ Points(entries[first + i - 1], tree[f], i, Offset(tree[f])),
           NEW ends, ends = {i \in first .. Len(entries) : ~entries[i].more},
           NEW bytes, bytes = [i \in 1 .. Min(ends) + 1 - first |->
                                  [b \in 1 .. entries[first + i - 1].len |->
                                      ByteAt(Spans, entries[first + i - 1].lba * blkSz + b - 1)]]
    PROVE  ends # {} /\ FlattenSeq(bytes) = Content(f)
<1> DEFINE list == tree[f]
           L == Len(list)
           rec(i) == entries[first + i - 1]
<1>1. /\ GeoTyped /\ Laid /\ layout[f] = list /\ f \in DOMAIN layout /\ list # <<>>
      /\ blkSz \in Nat \ {0} /\ first \in Nat
  <2>1. GeoTyped /\ Sized /\ Laid
    BY DEF GeoInv, Laid
  <2>2. DOMAIN layout = Files /\ blkSz \in Nat \ {0}
    BY <2>1, GeometryAssumption DEF Sized
  <2>3. f \in DOMAIN layout /\ layout[f] = tree[f]
    BY <2>1, <2>2 DEF GeoTyped
  <2> QED BY <2>1, <2>2, <2>3
<1>2. /\ list \in Seq(Extents) /\ Content(f) \in Seq(SourceBytes) /\ Len(Content(f)) = Offset(list)
      /\ \A i \in 1 .. Len(list) : \A j \in 1 .. list[i].len :
            Content(f)[Begin(list, i) + j] = SourceByte(list[i].med, list[i].off + j - 1)
  BY <1>1, ContentIs
<1>3. L \in Nat \ {0}
  BY <1>1, <1>2, EmptySeq
<1>4. \A i \in 1 .. L : first + i - 1 \in 1 .. Len(entries) /\ Points(rec(i), list, i, Offset(list))
  OBVIOUS
<1>5. \A i \in 1 .. L : list[i] \in FileExtents /\ list[i].len \in Nat /\ list[i].off \in Nat /\ list[i].med \in Media
  <2>1. \A i \in 1 .. L : list[i] \in FileExtents /\ list[i] \in Extents
    BY <1>1, <1>2, TreeTyped
  <2> QED BY <2>1 DEF Extents
<1> HIDE DEF list
<1>6. Offset(list) \in Nat /\ Begin(list, L + 1) = Offset(list) /\ \A i \in 1 .. L + 1 : Begin(list, i) \in Nat
  BY <1>2, BeginsAre, OffsetNat
<1>7. first + L - 1 \in ends
  <2>1. L \in 1 .. L
    BY <1>3
  <2>2. ~rec(L).more
    BY <1>4, <1>6, <2>1 DEF Points
  <2> QED BY <1>1, <1>3, <1>4, <2>1, <2>2
<1> DEFINE n == Min(ends) + 1 - first
<1>8. n \in 1 .. L /\ ~rec(n).more /\ first + n - 1 = Min(ends)
  <2>1. ends \in SUBSET Nat /\ ends # {}
    <3>1. \A i \in ends : i \in first .. Len(entries)
      OBVIOUS
    <3>2. first \in Nat /\ Len(entries) \in Nat
      OBVIOUS
    <3>3. \A i \in ends : i \in Nat
      BY <3>1, <3>2
    <3> QED BY <1>7, <3>3, Zenon
  <2>2. Min(ends) \in ends /\ Min(ends) <= first + L - 1
    BY <1>7, <2>1, LeastIs
  <2> DEFINE m == Min(ends)
  <2>3. m \in first .. Len(entries) /\ ~entries[m].more /\ m <= first + L - 1
    BY <2>2
  <2> HIDE DEF m
  <2>4. (m + 1 - first) \in 1 .. L /\ first + (m + 1 - first) - 1 = m
    BY <1>1, <1>3, <2>3
  <2> QED BY <2>3, <2>4 DEF m
<1>9. bytes = [i \in 1 .. n |-> [b \in 1 .. rec(i).len |-> ByteAt(Spans, rec(i).lba * blkSz + b - 1)]]
  OBVIOUS
<1> HIDE DEF n
<1>10. Begin(list, n + 1) = Offset(list)
  <2>1. ~(Begin(list, n + 1) < Offset(list))
    BY <1>4, <1>8 DEF Points
  <2>2. Begin(list, n + 1) <= Offset(list)
    <3>1. CASE n = L
      BY <1>6, <3>1
    <3>2. CASE n # L
      <4>1. n + 1 \in 1 .. Len(list) /\ L + 1 \in (n + 1) + 1 .. Len(list) + 1
        BY <1>3, <1>8, <3>2
      <4>2. Begin(list, n + 1) + list[n + 1].len <= Begin(list, L + 1)
        BY <1>2, <4>1, BeginsGrow
      <4>3. n + 1 \in 1 .. L /\ n + 1 \in 1 .. L + 1
        BY <1>3, <1>8, <4>1
      <4>4. Begin(list, n + 1) \in Nat /\ list[n + 1].len \in Nat
        BY <1>5, <1>6, <4>3
      <4> QED BY <1>6, <4>2, <4>4
    <3> QED BY <3>1, <3>2
  <2>3. Begin(list, n + 1) \in Nat
    <3>1. n + 1 \in 1 .. L + 1
      BY <1>3, <1>8
    <3> QED BY <1>6, <3>1
  <2> QED BY <1>6, <2>1, <2>2, <2>3
<1>11. ASSUME NEW i \in 1 .. n
       PROVE  /\ bytes[i] \in Seq(SourceBytes) /\ Len(bytes[i]) = list[i].len
              /\ \A j \in 1 .. list[i].len : bytes[i][j] = SourceByte(list[i].med, list[i].off + j - 1)
  <2>1. i \in 1 .. L
    BY <1>3, <1>8
  <2>2. rec(i).lba = WithinDisk(list[i]) \div blkSz /\ rec(i).len = list[i].len
    BY <1>4, <2>1 DEF Points
  <2>3. WithinDisk(list[i]) \in Nat /\ WithinDisk(list[i]) % blkSz = 0
    BY <1>5, <2>1, ExtentPlace
  <2>4. rec(i).lba * blkSz = WithinDisk(list[i])
    BY <1>1, <2>2, <2>3, Exactly
  <2>5. bytes[i] = [b \in 1 .. list[i].len |-> ByteAt(Spans, WithinDisk(list[i]) + b - 1)]
    BY <1>9, <2>2, <2>4
  <2>6. ASSUME NEW j \in 1 .. list[i].len
        PROVE  /\ bytes[i][j] = SourceByte(list[i].med, list[i].off + j - 1)
               /\ bytes[i][j] \in SourceBytes
    <3> DEFINE x == list[i]
    <3>1. x \in FileExtents /\ x.len \in Nat /\ x.off \in Nat /\ x.med \in Media /\ j \in 1 .. x.len
      BY <1>5, <2>1
    <3>2. WithinDisk(x) \in Nat /\ bytes[i][j] = ByteAt(Spans, WithinDisk(x) + j - 1)
      BY <2>3, <2>5
    <3> HIDE DEF x
    <3>3. j - 1 \in 0 .. x.len - 1
      BY <3>1
    <3>4. ByteAt(Spans, WithinDisk(x) + (j - 1)) = SourceByte(x.med, x.off + (j - 1))
      BY <3>1, <3>3, FileByte
    <3>5. WithinDisk(x) + (j - 1) = WithinDisk(x) + j - 1 /\ x.off + (j - 1) = x.off + j - 1 /\ x.off + j - 1 \in Nat
      BY <3>1, <3>2
    <3>6. bytes[i][j] = SourceByte(x.med, x.off + j - 1)
      BY <3>2, <3>4, <3>5
    <3>7. SourceByte(x.med, x.off + j - 1) \in SourceBytes
      BY <3>1, <3>5 DEF SourceBytes
    <3> QED BY <3>6, <3>7 DEF x
  <2>7. list[i].len \in Nat
    BY <1>5, <2>1
  <2>8. bytes[i] \in Seq(SourceBytes) /\ Len(bytes[i]) = list[i].len
    <3> DEFINE s == bytes[i]
               m == list[i].len
    <3>1. s = [b \in 1 .. m |-> s[b]] /\ m \in Nat /\ \A b \in 1 .. m : s[b] \in SourceBytes
      BY <2>5, <2>6, <2>7
    <3> HIDE DEF s, m
    <3>2. s \in Seq(SourceBytes) /\ Len(s) = m
      BY <3>1
    <3> QED BY <3>2 DEF s, m
  <2> QED BY <2>6, <2>8
<1>12. n \in 0 .. Len(list) /\ bytes \in Seq(Seq(SourceBytes)) /\ Len(bytes) = n
  <2>1. n \in Nat /\ n \in 0 .. Len(list)
    BY <1>3, <1>8
  <2>2. bytes = [i \in 1 .. n |-> bytes[i]]
    BY <1>9
  <2>3. \A i \in 1 .. n : bytes[i] \in Seq(SourceBytes)
    BY <1>11
  <2> DEFINE R == Seq(SourceBytes)
  <2>4. \A i \in 1 .. n : bytes[i] \in R
    BY <2>3
  <2> HIDE DEF R
  <2>5. bytes \in [1 .. n -> R]
    BY <2>2, <2>4
  <2>6. bytes \in Seq(R) /\ Len(bytes) = n
    BY <2>1, <2>5, AsSeq
  <2> QED BY <2>1, <2>6 DEF R
<1> DEFINE all == FlattenSeq(bytes)
<1>13. /\ all \in Seq(SourceBytes) /\ Len(all) = Begin(list, n + 1)
       /\ \A p \in 1 .. Len(all) : \E i \in 1 .. n : \E j \in 1 .. list[i].len : p = Begin(list, i) + j
       /\ \A i \in 1 .. n : \A j \in 1 .. list[i].len : all[Begin(list, i) + j] = bytes[i][j]
  <2>1. \A i \in 1 .. n : Len(bytes[i]) = list[i].len
    BY <1>11
  <2>2. list \in Seq(Extents) /\ bytes \in Chunks /\ Len(bytes) = n
    BY <1>2, <1>12 DEF Chunks
  <2> HIDE DEF list, n, all
  <2>3. Joined(FlattenSeq(bytes), list, n, bytes)
    BY <1>12, <2>1, <2>2, BytesAre
  <2>4. Joined(all, list, n, bytes)
    BY <2>3 DEF all
  <2> QED BY <2>4 DEF Joined
<1> HIDE DEF all
<1>14. Len(all) = Len(Content(f))
  BY <1>2, <1>10, <1>13
<1>15. ASSUME NEW p \in 1 .. Len(all) PROVE all[p] = Content(f)[p]
  <2>1. PICK i \in 1 .. n : \E j \in 1 .. list[i].len : p = Begin(list, i) + j
    BY <1>13
  <2>2. PICK j \in 1 .. list[i].len : p = Begin(list, i) + j
    BY <2>1
  <2>3. i \in 1 .. L
    BY <1>3, <1>8
  <2>4. all[p] = SourceByte(list[i].med, list[i].off + j - 1)
    BY <1>11, <1>13, <2>2
  <2>5. Content(f)[p] = SourceByte(list[i].med, list[i].off + j - 1)
    BY <1>2, <2>2, <2>3
  <2> QED BY <2>4, <2>5
<1>16. all = Content(f)
  <2> DEFINE c == Content(f)
  <2>1. c \in Seq(SourceBytes) /\ all \in Seq(SourceBytes) /\ Len(all) = Len(c) /\ \A p \in 1 .. Len(all) : all[p] = c[p]
    BY <1>2, <1>13, <1>14, <1>15
  <2> HIDE DEF c
  <2>2. all = c
    BY <2>1, SeqEqual
  <2> QED BY <2>2 DEF c
<1> QED BY <1>7, <1>16 DEF all
-----------------------------------------------------------------------------
(***************************************************************************)
(* The entries of a directory are whole.                                   *)
(***************************************************************************)
\* What is left of a block holds what fits there.
LEMMA PadIs ==
    ASSUME NEW n \in Nat, NEW b \in Nat \ {0}
    PROVE  n % b \in Nat /\ (n % b) + (RoundedUp(n, b) - n) <= b
<1> DEFINE q == n \div b
           r == n % b
           t == (n + b - 1) \div b
           s == (n + b - 1) % b
<1>1. q \in Nat /\ r \in 0 .. b - 1 /\ n = b * q + r
  BY NatDivision
<1>2. t \in Nat /\ s \in 0 .. b - 1 /\ n + b - 1 = b * t + s
  <2>1. n + b - 1 \in Nat
    OBVIOUS
  <2> QED BY <2>1, NatDivision
<1>3. RoundedUp(n, b) = t * b
  BY DEF RoundedUp
<1> HIDE DEF q, r, t, s
<1>4. t <= q + 1
  <2> SUFFICES ASSUME t >= q + 2 PROVE FALSE
    BY <1>1, <1>2
  <2>1. b * t >= b * (q + 2)
    BY <1>1, <1>2
  <2>2. b * (q + 2) = b * q + b + b
    BY <1>1
  <2> QED BY <1>1, <1>2, <2>1, <2>2
<1>5. t * b <= b * q + b
  <2>1. b * t <= b * (q + 1)
    BY <1>1, <1>2, <1>4
  <2> QED BY <1>1, <1>2, <2>1
<1>6. r + (t * b - n) <= b
  <2>1. t * b \in Nat /\ b * q \in Nat
    BY <1>1, <1>2
  <2> DEFINE x == t * b
             y == b * q
  <2> HIDE DEF x, y
  <2>2. x \in Nat /\ y \in Nat /\ x <= y + b /\ n = y + r
    BY <1>1, <1>5, <2>1 DEF x, y
  <2>3. r + (x - n) <= b
    BY <1>1, <2>2
  <2> QED BY <2>3 DEF x
<1> QED BY <1>1, <1>3, <1>6 DEF r

Fields == {"name", "kind", "lba", "len", "more"}

\* An entry that is written says what it is to say.
Says(rec, entry) ==
    /\ rec.name = entry.name /\ rec.kind = entry.kind
    /\ rec.lba = entry.lba /\ rec.len = entry.len /\ rec.more = entry.more

\* It is in a block, and in a directory of a size.
WholeIn(rec, size) ==
    /\ rec.at \in Nat /\ rec.name \in Names
    /\ (rec.at % blkSz) + EntrySize(rec.name) <= blkSz
    /\ rec.at + EntrySize(rec.name) <= size

LEMMA EntryIs ==
    ASSUME blkSz \in Nat \ {0}, NEW dir, dir.size \in Nat, NEW R, dir.recs \in Seq(R),
           NEW rec, Fields \subseteq DOMAIN rec, rec.name \in Names, EntrySize(rec.name) <= blkSz
    PROVE  LET next == WriteEntry(dir, rec) IN
           \E last : /\ next.recs = Append(dir.recs, last)
                     /\ Says(last, rec) /\ WholeIn(last, next.size)
                     /\ next.size \in Nat /\ dir.size <= next.size
<1> DEFINE size == dir.size
           b == blkSz
           up == RoundedUp(size, b)
           es == EntrySize(rec.name)
           at == IF es > up - size THEN size + (up - size) ELSE size
           last == Put(rec, "at", at)
           next == WriteEntry(dir, rec)
<1>1. next.recs = Append(dir.recs, last) /\ next.size = at + es
  BY DEF WriteEntry
<1>2. Says(last, rec) /\ last.at = at /\ last.name = rec.name
  BY DEF Says, Put, Fields
<1>3. es \in Nat \ {0} /\ es <= b /\ size \in Nat /\ b \in Nat \ {0}
  BY EntrySizeIs
<1> HIDE DEF es, size, b
<1>4. up \in Nat /\ size <= up /\ up % b = 0 /\ size % b \in Nat /\ (size % b) + (up - size) <= b
  BY <1>3, RoundedUpIs, PadIs
<1>5. at \in Nat /\ size <= at /\ (at % b) + es <= b
  <2> DEFINE m == size % b
  <2>1. CASE es > up - size
    <3>1. at = up
      BY <1>3, <1>4, <2>1
    <3> HIDE DEF at
    <3> QED BY <1>3, <1>4, <3>1
  <2>2. CASE ~(es > up - size)
    <3>1. at = size
      BY <2>2
    <3>2. m \in Nat /\ m + (up - size) <= b /\ es <= up - size
      BY <1>3, <1>4, <2>2
    <3> HIDE DEF at, m
    <3>3. m + es <= b
      BY <1>3, <1>4, <3>2
    <3> QED BY <1>3, <3>1, <3>3 DEF m
  <2> QED BY <2>1, <2>2
<1> HIDE DEF at, last
<1>6. WholeIn(last, at + es)
  BY <1>2, <1>3, <1>5 DEF WholeIn, es, b
<1>7. at + es \in Nat /\ size <= at + es
  BY <1>3, <1>5
<1> QED BY <1>1, <1>2, <1>6, <1>7 DEF size

\* What is written of a list of entries.
LEMMA WrittenAre ==
    ASSUME blkSz \in Nat \ {0}, NEW recs, Len(recs) \in Nat,
           \A i \in 1 .. Len(recs) : /\ Fields \subseteq DOMAIN recs[i] /\ recs[i].name \in Names
                                     /\ EntrySize(recs[i].name) <= blkSz
    PROVE  LET dir == WriteEntries(recs) IN
           /\ Len(dir.recs) = Len(recs)
           /\ \A i \in 1 .. Len(recs) : Says(dir.recs[i], recs[i]) /\ WholeIn(dir.recs[i], dir.size)
<1>1. PICK f : IsWritten(f, recs, Len(recs)) /\ WriteEntries(recs) = f[Len(recs)]
  BY WriteEntriesIs
<1> DEFINE Right(d, n) == /\ d.size \in Nat /\ (\E R : d.recs \in Seq(R)) /\ Len(d.recs) = n
                          /\ \A i \in 1 .. n : Says(d.recs[i], recs[i]) /\ WholeIn(d.recs[i], d.size)
           T == {n \in Nat : n <= Len(recs) => Right(f[n], n)}
<1>2. 0 \in T
  <2>1. f[0] = [size |-> 2 * EntryHead, recs |-> <<>>]
    BY <1>1 DEF IsWritten
  <2>2. f[0].size = 2 * EntryHead /\ f[0].recs = <<>> /\ EntryHead \in Nat
    BY <2>1, IsoAssumption
  <2>3. <<>> \in Seq({}) /\ Len(<<>>) = 0 /\ 2 * EntryHead \in Nat
    BY <2>2
  <2>4. (\E R : f[0].recs \in Seq(R)) /\ Len(f[0].recs) = 0 /\ f[0].size \in Nat
    BY <2>2, <2>3
  <2>5. Right(f[0], 0)
    BY <2>4
  <2> HIDE DEF Right
  <2> QED BY <2>5
<1>3. ASSUME NEW n \in T PROVE n + 1 \in T
  <2> SUFFICES ASSUME n + 1 <= Len(recs) PROVE Right(f[n + 1], n + 1)
    OBVIOUS
  <2>1. Right(f[n], n) /\ n + 1 \in 1 .. Len(recs) /\ n + 1 # 0 /\ (n + 1) - 1 = n /\ n \in Nat
    BY <1>3
  <2>2. f[n + 1] = WriteEntry(f[n], recs[n + 1])
    BY <1>1, <2>1 DEF IsWritten
  <2> DEFINE dir == f[n]
             next == f[n + 1]
  <2>3. PICK R : dir.recs \in Seq(R)
    BY <2>1
  <2>4. PICK last : /\ next.recs = Append(dir.recs, last)
                    /\ Says(last, recs[n + 1]) /\ WholeIn(last, next.size)
                    /\ next.size \in Nat /\ dir.size <= next.size
    <3>1. dir.size \in Nat
      BY <2>1
    <3> QED BY <2>1, <2>2, <2>3, <3>1, EntryIs
  <2> HIDE DEF dir, next
  <2>5. /\ dir.size \in Nat /\ dir.recs \in Seq(R) /\ Len(dir.recs) = n
        /\ \A i \in 1 .. n : Says(dir.recs[i], recs[i]) /\ WholeIn(dir.recs[i], dir.size)
    BY <2>1, <2>3 DEF dir
  <2> DEFINE Q == R \cup {last}
  <2>6. Append(dir.recs, last) \in Seq(Q)
    <3>1. dir.recs \in Seq(Q) /\ last \in Q
      BY <2>5
    <3> HIDE DEF Q
    <3> QED BY <3>1
  <2>7. Len(next.recs) = n + 1 /\ next.recs[n + 1] = last /\ \A i \in 1 .. n : next.recs[i] = dir.recs[i]
    BY <2>4, <2>5
  <2>8. ASSUME NEW i \in 1 .. n + 1 PROVE Says(next.recs[i], recs[i]) /\ WholeIn(next.recs[i], next.size)
    <3>1. CASE i = n + 1
      BY <2>4, <2>7, <3>1
    <3>2. CASE i # n + 1
      <4>1. i \in 1 .. n
        BY <2>1, <3>2
      <4>2. next.recs[i] = dir.recs[i] /\ Says(dir.recs[i], recs[i]) /\ WholeIn(dir.recs[i], dir.size)
        BY <2>5, <2>7, <4>1
      <4> DEFINE rec == dir.recs[i]
                 es == EntrySize(rec.name)
      <4>3. es \in Nat /\ rec.at \in Nat /\ (rec.at % blkSz) + es <= blkSz /\ rec.at + es <= dir.size
        <5>1. i \in 1 .. Len(recs) /\ rec.name = recs[i].name
          BY <2>1, <4>1, <4>2 DEF Says
        <5> QED BY <4>2, <5>1, EntrySizeIs DEF WholeIn
      <4> HIDE DEF rec, es
      <4>4. rec.at + es <= next.size
        BY <2>4, <2>5, <4>3
      <4> QED BY <4>2, <4>3, <4>4 DEF WholeIn, rec, es
    <3> QED BY <3>1, <3>2
  <2>9. Right(next, n + 1)
    BY <2>4, <2>6, <2>7, <2>8
  <2> HIDE DEF Right
  <2> QED BY <2>9 DEF next
<1>4. T = Nat
  <2>1. T \in SUBSET Nat
    OBVIOUS
  <2> HIDE DEF T
  <2> QED BY <2>1, <1>2, <1>3, NatSetInduction
<1>5. Right(f[Len(recs)], Len(recs))
  <2> HIDE DEF Right
  <2> QED BY <1>4
<1> QED BY <1>1, <1>5
-----------------------------------------------------------------------------
(***************************************************************************)
(* The entries of the directory at hand lead to what they name.            *)
(***************************************************************************)
\* The names that are fitted are short enough for a block.
NamesFit == \A n \in DOMAIN fit : EntrySize(fit[n]) <= blkSz

\* Nothing else at hand is written with that name.
Sole(e) ==
    \A g \in ToSet(Entries[Current]) \ {e} : Conv(fit[NameOf(g)]) # Conv(fit[NameOf(e)])

\* Every file is in one directory.
Housed ==
    /\ \A f \in Files : \E d \in Dirs : f \in ToSet(Entries[d])
    /\ \A d, e \in Dirs : d # e => ToSet(Entries[d]) \cap ToSet(Entries[e]) = {}

KindOf(e) == IF e \in Files THEN "file" ELSE "folder"

\* From an entry on there is what a reader looks for under a name: the first
\* with that name, and the place of the directory or those of the extents.
Leads(recs, first, e, name, place) ==
    /\ recs[first].name = name /\ recs[first].kind = KindOf(e)
    /\ \A i \in 1 .. first - 1 : Conv(recs[i].name) # Conv(name)
    /\ e \in Files => \A i \in 1 .. Len(tree[e]) :
          /\ first + i - 1 \in 1 .. Len(recs)
          /\ Points(recs[first + i - 1], tree[e], i, Offset(tree[e]))
    /\ e \notin Files => recs[first].lba = place.lba /\ recs[first].len = place.len

\* Everything at hand has been fitted a name.
LEMMA AllFitted ==
    ASSUME IsoInv, WriteDir
    PROVE  /\ DOMAIN fit = {NameOf(e) : e \in ToSet(Entries[Current])}
           /\ \A e, g \in ToSet(Entries[Current]) : NameOf(e) = NameOf(g) => e = g
<1> DEFINE list == Entries[Current]
           n == Len(list)
<1>1. Placing /\ Pooled /\ vol \in Volumes /\ dirNo < N /\ Cardinality(DOMAIN fit) = n
  BY WriteDirIs DEF IsoInv
<1>2. Current \in Dirs
  BY <1>1, CurrentIs
<1>3. n \in Nat /\ \A g : g \in ToSet(list) <=> \E j \in 1 .. n : list[j] = g
  BY <1>2, EntriesAre
<1>4. \A i, j \in 1 .. n : NameOf(list[i]) = NameOf(list[j]) => i = j
  BY <1>1, <1>2, <1>3, NamesDiffer
<1>5. DOMAIN fit = {NameOf(list[j]) : j \in 1 .. n}
  <2>1. CASE fit = <<>>
    <3>1. DOMAIN fit = {} /\ n = 0
      BY <1>1, <2>1, FS_EmptySet
    <3> QED BY <3>1
  <2>2. CASE fit # <<>>
    BY <1>1, <2>2 DEF Pooled
  <2> QED BY <2>1, <2>2
<1>6. ASSUME NEW e \in ToSet(list), NEW g \in ToSet(list), NameOf(e) = NameOf(g) PROVE e = g
  <2>1. PICK i \in 1 .. n : list[i] = e
    BY <1>3
  <2>2. PICK j \in 1 .. n : list[j] = g
    BY <1>3
  <2>3. i = j
    BY <1>4, <1>6, <2>1, <2>2
  <2> QED BY <2>1, <2>2, <2>3
<1>7. {NameOf(list[j]) : j \in 1 .. n} = {NameOf(e) : e \in ToSet(list)}
  BY <1>3
<1> QED BY <1>5, <1>6, <1>7

\* No directory is written with the name of something else.
LEMMA FoldersSole ==
    ASSUME IsoInv, WriteDir, NEW e \in ToSet(Entries[Current]), e \notin Files
    PROVE  Sole(e)
<1>1. vol \in Volumes /\ IsRule(Rules[vol]) /\ Rules[vol].version # <<>> /\ PoolInv(Rules[vol])
  BY WriteDirIs, RuleIs DEF IsoInv, Pooled
<1>2. ASSUME NEW g \in ToSet(Entries[Current]) \ {e}, Conv(fit[NameOf(g)]) = Conv(fit[NameOf(e)])
      PROVE  FALSE
  <2> DEFINE a == NameOf(g)
             b == NameOf(e)
  <2>1. a \in DOMAIN fit /\ b \in DOMAIN fit /\ a # b
    BY AllFitted
  <2>2. Conv(fit[a]) = Conv(fit[b]) /\ ~b.file
    BY <1>2 DEF NameOf
  <2> HIDE DEF a, b
  <2>3. b.file
    BY <1>1, <2>1, <2>2, ConvApart
  <2> QED BY <2>2, <2>3
<1> QED BY <1>2 DEF Sole

\* An entry with a name of its own is not lost.
LEMMA EntryOfIs ==
    ASSUME IsoInv, WriteDir, NEW e \in ToSet(Entries[Current]), Sole(e)
    PROVE  EntryOf(fit[NameOf(e)]) = e
<1> DEFINE list == Entries[Current]
           n == Len(list)
           alike == {i \in DOMAIN list : fit[NameOf(list[i])] = fit[NameOf(e)]}
<1>1. vol \in Volumes /\ Current \in Dirs
  BY WriteDirIs, CurrentIs DEF IsoInv
<1>2. n \in Nat /\ DOMAIN list = 1 .. n /\ \A g : g \in ToSet(list) <=> \E j \in 1 .. n : list[j] = g
  BY <1>1, EntriesAre
<1>3. \A i, j \in 1 .. n : list[i] = list[j] => i = j
  BY <1>1, EntriesAre, NamesDiffer DEF IsoInv
<1>4. PICK j \in 1 .. n : list[j] = e
  BY <1>2
<1>5. \A i \in 1 .. n : fit[NameOf(list[i])] = fit[NameOf(e)] => list[i] = e
  BY <1>2 DEF Sole
<1>6. alike = {j} /\ j \in Nat
  BY <1>2, <1>3, <1>4, <1>5
<1>7. EntryOf(fit[NameOf(e)]) = list[Max(alike)]
  BY DEF EntryOf
<1> HIDE DEF alike
<1> QED BY <1>4, <1>6, <1>7, MaxOne

\* The entries of one file or directory.
LEMMA RecordsSay ==
    ASSUME GeoInv, Laid, Bodied, NEW e \in Files \cup Dirs, NEW name
    PROVE  LET recs == Records(e, name) IN
           /\ Len(recs) \in Nat \ {0} /\ recs = [j \in 1 .. Len(recs) |-> recs[j]]
           /\ \A j \in 1 .. Len(recs) :
                 Fields \subseteq DOMAIN recs[j] /\ recs[j].name = name /\ recs[j].kind = KindOf(e)
           /\ e \in Files => /\ Len(recs) = Len(tree[e])
                             /\ \A j \in 1 .. Len(recs) : Points(recs[j], tree[e], j, Offset(tree[e]))
           /\ e \notin Files => /\ recs[1].lba = folders[e].off \div blkSz
                                /\ recs[1].len = folders[e].len
<1>1. CASE e \in Files
  <2> DEFINE recs == FileRecords(e, name)
             L == Len(tree[e])
  <2>1. Records(e, name) = recs
    BY <1>1 DEF Records
  <2>2. DOMAIN recs = 1 .. L /\ \A i \in 1 .. L : Points(recs[i], tree[e], i, Offset(tree[e]))
    BY <1>1, FilePoints
  <2>3. /\ recs = [j \in DOMAIN recs |-> recs[j]]
        /\ \A j \in DOMAIN recs : Fields \subseteq DOMAIN recs[j] /\ recs[j].name = name /\ recs[j].kind = "file"
    BY DEF FileRecords, Fields
  <2> HIDE DEF recs
  <2>4. L \in Nat \ {0}
    <3>1. tree[e] \in Seq(Extents) /\ tree \in ExtentTrees \cup FileTrees
      BY <1>1, TreeTyped DEF GeoInv, GeoTyped
    <3>2. tree[e] # <<>>
      BY <1>1, <3>1 DEF Bodied
    <3> QED BY <3>1, <3>2, EmptySeq
  <2> HIDE DEF L
  <2>5. recs = [j \in 1 .. L |-> recs[j]] /\ Len(recs) = L
    BY <2>2, <2>3, <2>4
  <2>6. KindOf(e) = "file" /\ L = Len(tree[e])
    BY <1>1 DEF KindOf, L
  <2> QED BY <1>1, <2>1, <2>2, <2>3, <2>4, <2>5, <2>6
<1>2. CASE e \notin Files
  <2> DEFINE rec == [name |-> name, kind |-> "folder", lba |-> folders[e].off \div blkSz,
                     len |-> folders[e].len, more |-> FALSE]
  <2>1. Records(e, name) = <<rec>>
    BY <1>2 DEF Records
  <2>2. /\ Fields \subseteq DOMAIN rec /\ rec.name = name /\ rec.kind = KindOf(e)
        /\ rec.lba = folders[e].off \div blkSz /\ rec.len = folders[e].len
    BY <1>2 DEF Fields, KindOf
  <2> HIDE DEF rec
  <2>3. Len(<<rec>>) = 1 /\ <<rec>>[1] = rec /\ <<rec>> = [j \in 1 .. 1 |-> <<rec>>[j]] /\ \A j \in 1 .. 1 : <<rec>>[j] = rec
    OBVIOUS
  <2> QED BY <1>2, <2>1, <2>2, <2>3
<1> QED BY <1>1, <1>2

\* The entries of all of them.
LEMMA ListedIs ==
    ASSUME GeoInv, Laid, IsoInv, WriteDir, NamesFit, Bodied
    PROVE  /\ Len(RecordList) \in Nat
           /\ \A i \in 1 .. Len(RecordList) :
                 /\ Fields \subseteq DOMAIN RecordList[i] /\ RecordList[i].name \in Names
                 /\ EntrySize(RecordList[i].name) <= blkSz
           /\ \A e \in ToSet(Entries[Current]) : Sole(e) =>
                 \E first \in 1 .. Len(RecordList) :
                    Leads(RecordList, first, e, fit[NameOf(e)],
                          [lba |-> folders[e].off \div blkSz, len |-> folders[e].len])
<1> DEFINE used == {fit[n] : n \in DOMAIN fit}
           order == InOrder(used, NameLess)
           n == Cardinality(used)
           each(i) == Records(EntryOf(order[i]), order[i])
           lists == [i \in DOMAIN order |-> each(i)]
           S == UNION {ToSet(each(i)) : i \in 1 .. n}
<1>1. vol \in Volumes /\ Current \in Dirs
  BY WriteDirIs, CurrentIs DEF IsoInv
<1>2. used \in SUBSET Names /\ IsFiniteSet(used)
  BY <1>1, FitNames
<1>3. /\ n \in Nat /\ order \in [1 .. n -> used]
      /\ \A x \in used : \E i \in 1 .. n : order[i] = x
      /\ \A i, j \in 1 .. n : order[i] = order[j] => i = j
  <2> HIDE DEF used
  <2> QED BY <1>2, InOrderIs
<1>4. ASSUME NEW i \in 1 .. n
      PROVE  /\ order[i] \in Names /\ EntryOf(order[i]) \in Files \cup Dirs
             /\ EntrySize(order[i]) <= blkSz
  <2>a. ToSet(Entries[Current]) \subseteq Files \cup Dirs
    BY <1>1, EntriesAre
  <2>b. \A x \in used : EntryOf(x) \in ToSet(Entries[Current])
    BY NamesBelow
  <2>c. \A x \in used : EntrySize(x) <= blkSz
    BY DEF NamesFit
  <2> HIDE DEF order, n, used
  <2>1. order[i] \in used
    BY <1>3
  <2> QED BY <1>2, <2>1, <2>a, <2>b, <2>c
<1>5. RecordList = FlattenSeq(lists)
  BY DEF RecordList
<1>6. ASSUME NEW e \in ToSet(Entries[Current]), Sole(e)
      PROVE  /\ fit[NameOf(e)] \in used /\ EntryOf(fit[NameOf(e)]) = e
             /\ \A x \in used : x # fit[NameOf(e)] => Conv(x) # Conv(fit[NameOf(e)])
  <2>1. NameOf(e) \in DOMAIN fit
    BY AllFitted
  <2>2. ASSUME NEW x \in used, x # fit[NameOf(e)] PROVE Conv(x) # Conv(fit[NameOf(e)])
    <3>1. PICK m \in DOMAIN fit : x = fit[m]
      OBVIOUS
    <3>2. PICK g \in ToSet(Entries[Current]) : m = NameOf(g)
      BY AllFitted
    <3>3. g # e
      BY <2>2, <3>1, <3>2
    <3> QED BY <1>6, <3>1, <3>2, <3>3 DEF Sole
  <2>3. EntryOf(fit[NameOf(e)]) = e
    BY <1>6, EntryOfIs
  <2> QED BY <2>1, <2>2, <2>3
<1> HIDE DEF order, n, used
<1>7. ASSUME NEW i \in 1 .. n
      PROVE  LET e == EntryOf(order[i])
                 recs == each(i) IN
             /\ Len(recs) \in Nat \ {0} /\ recs = [j \in 1 .. Len(recs) |-> recs[j]]
             /\ \A j \in 1 .. Len(recs) :
                 Fields \subseteq DOMAIN recs[j] /\ recs[j].name = order[i] /\ recs[j].kind = KindOf(e)
             /\ e \in Files => /\ Len(recs) = Len(tree[e])
                               /\ \A j \in 1 .. Len(recs) : Points(recs[j], tree[e], j, Offset(tree[e]))
             /\ e \notin Files => /\ recs[1].lba = folders[e].off \div blkSz
                                  /\ recs[1].len = folders[e].len
  <2>1. EntryOf(order[i]) \in Files \cup Dirs
    BY <1>4
  <2> QED BY <2>1, RecordsSay
<1>8. \A i \in 1 .. n : each(i) \in Seq(S)
  <2> SUFFICES ASSUME NEW i \in 1 .. n PROVE each(i) \in Seq(S)
    OBVIOUS
  <2> DEFINE recs == each(i)
  <2>1. Len(recs) \in Nat /\ recs = [j \in 1 .. Len(recs) |-> recs[j]]
    BY <1>7
  <2>2. \A j \in 1 .. Len(recs) : recs[j] \in ToSet(recs)
    <3> HIDE DEF recs
    <3>1. DOMAIN recs = 1 .. Len(recs)
      BY <2>1
    <3> QED BY <3>1 DEF ToSet
  <2>3. \A j \in 1 .. Len(recs) : recs[j] \in S
    BY <2>2
  <2> HIDE DEF recs, S
  <2>4. recs \in Seq(S)
    BY <2>1, <2>3
  <2> QED BY <2>4 DEF recs
<1> HIDE DEF S, each
<1>9. DOMAIN order = 1 .. n /\ lists \in Seq(Seq(S)) /\ Len(lists) = n /\ \A i \in 1 .. n : lists[i] = each(i)
  <2>1. DOMAIN order = 1 .. n
    BY <1>3
  <2> QED BY <1>3, <1>8, <2>1
<1> DEFINE all == RecordList
<1>10. PICK start : Parted(start, lists) /\ Flattened(all, n, start, lists, S)
  BY <1>5, <1>9, FlattenIs
<1> HIDE DEF lists
<1> HIDE DEF all
<1>11. /\ all \in Seq(S) /\ Len(all) \in Nat /\ start \in [1 .. n + 1 -> Nat]
       /\ \A i \in 1 .. n : \A j \in 1 .. Len(each(i)) :
             start[i] + j \in 1 .. Len(all) /\ all[start[i] + j] = each(i)[j]
       /\ \A p \in 1 .. Len(all) : \E i \in 1 .. n : \E j \in 1 .. Len(each(i)) : p = start[i] + j
  BY <1>9, <1>10 DEF Flattened, Parted
<1>12. ASSUME NEW p \in 1 .. Len(all)
       PROVE  /\ Fields \subseteq DOMAIN all[p] /\ all[p].name \in Names
              /\ EntrySize(all[p].name) <= blkSz
  <2>1. PICK i \in 1 .. n : \E j \in 1 .. Len(each(i)) : p = start[i] + j
    BY <1>11
  <2>2. PICK j \in 1 .. Len(each(i)) : p = start[i] + j
    BY <2>1
  <2>3. all[p] = each(i)[j] /\ Fields \subseteq DOMAIN each(i)[j] /\ each(i)[j].name = order[i]
    BY <1>7, <1>11, <2>2
  <2> QED BY <1>4, <2>3
<1>13. ASSUME NEW e \in ToSet(Entries[Current]), Sole(e)
       PROVE  \E first \in 1 .. Len(all) :
                 Leads(all, first, e, fit[NameOf(e)],
                       [lba |-> folders[e].off \div blkSz, len |-> folders[e].len])
  <2> DEFINE name == fit[NameOf(e)]
             place == [lba |-> folders[e].off \div blkSz, len |-> folders[e].len]
  <2>1. PICK i \in 1 .. n : order[i] = name
    BY <1>3, <1>6, <1>13
  <2>2. EntryOf(order[i]) = e
    BY <1>6, <1>13, <2>1
  <2> DEFINE recs == each(i)
             first == start[i] + 1
  <2>3. /\ Len(recs) \in Nat \ {0}
        /\ \A j \in 1 .. Len(recs) : recs[j].name = name /\ recs[j].kind = KindOf(e)
        /\ e \in Files => /\ Len(recs) = Len(tree[e])
                          /\ \A j \in 1 .. Len(recs) : Points(recs[j], tree[e], j, Offset(tree[e]))
        /\ e \notin Files => recs[1].lba = place.lba /\ recs[1].len = place.len
    BY <1>7, <2>1, <2>2
  <2>4. /\ start[i] \in Nat
        /\ \A j \in 1 .. Len(recs) : start[i] + j \in 1 .. Len(all) /\ all[start[i] + j] = recs[j]
    <3>1. i \in 1 .. n + 1
      BY <1>3
    <3> QED BY <1>11, <3>1
  <2>5. ASSUME NEW p \in 1 .. first - 1 PROVE Conv(all[p].name) # Conv(name)
    <3>1. 1 \in 1 .. Len(recs)
      BY <2>3
    <3>2. first \in 1 .. Len(all)
      BY <2>4, <3>1
    <3>3. p \in 1 .. Len(all) /\ p <= start[i]
      BY <2>4, <3>2
    <3>4. PICK k \in 1 .. n : \E j \in 1 .. Len(each(k)) : p = start[k] + j
      BY <1>11, <3>3
    <3>5. PICK j \in 1 .. Len(each(k)) : p = start[k] + j
      BY <3>4
    <3>6. all[p].name = order[k]
      BY <1>7, <1>11, <3>5
    <3>7. k # i
      BY <2>3, <2>4, <3>3, <3>5
    <3>8. order[k] \in used /\ order[k] # name
      BY <1>3, <2>1, <3>7
    <3> QED BY <1>6, <1>13, <3>6, <3>8
  <2>6. first \in 1 .. Len(all) /\ all[first] = recs[1]
    <3>1. 1 \in 1 .. Len(recs)
      BY <2>3
    <3> QED BY <2>4, <3>1
  <2>7. \A j \in 1 .. Len(recs) : first + j - 1 = start[i] + j
    BY <2>4
  <2> HIDE DEF place, name, recs, first
  <2>8. 1 \in 1 .. Len(recs)
    BY <2>3
  <2>9. Leads(all, first, e, name, place)
    <3>1. all[first].name = name /\ all[first].kind = KindOf(e)
      BY <2>3, <2>6, <2>8
    <3>2. \A q \in 1 .. first - 1 : Conv(all[q].name) # Conv(name)
      BY <2>5
    <3>3. e \in Files => \A j \in 1 .. Len(tree[e]) :
                /\ first + j - 1 \in 1 .. Len(all)
                /\ Points(all[first + j - 1], tree[e], j, Offset(tree[e]))
      BY <2>3, <2>4, <2>7
    <3>4. e \notin Files => all[first].lba = place.lba /\ all[first].len = place.len
      BY <2>3, <2>6
    <3> HIDE DEF all
    <3> QED BY <3>1, <3>2, <3>3, <3>4, Zenon DEF Leads
  <2>10. \E p \in 1 .. Len(all) : Leads(all, p, e, name, place)
    BY <2>6, <2>9
  <2> QED BY <2>10 DEF place, name
<1> QED BY <1>11, <1>12, <1>13 DEF all
-----------------------------------------------------------------------------
(***************************************************************************)
(* The directories written lead a reader to what is in them.               *)
(***************************************************************************)
\* Nothing else in a directory is written with that name.
ToldIn(v, d, f) == \A e \in ToSet(Entries[d]) \ {f} : Conv(names[<<v, e>>]) # Conv(names[<<v, f>>])

Ready(k) ==
    LET recs == burners[k].recs IN
    /\ "recs" \in DOMAIN burners[k] /\ Len(recs) \in Nat
    /\ \A i \in 1 .. Len(recs) : WholeIn(recs[i], burners[k].dot.len)
    /\ \A e \in ToSet(Entries[k[2]]) :
          /\ <<k[1], e>> \in DOMAIN names
          /\ e \notin Files => <<k[1], e>> \in DOMAIN burners
          /\ e \notin Files \/ ToldIn(k[1], k[2], e) => \E first \in 1 .. Len(recs) :
                Leads(recs, first, e, names[<<k[1], e>>], burners[<<k[1], e>>].dot)

AllReady == \A k \in DOMAIN burners : Ready(k)

\* Only what is in a directory that is written has a name.
FilesNamed ==
    \A v : \A f \in Files : <<v, f>> \in DOMAIN names =>
        \E d \in Dirs : <<v, d>> \in DOMAIN burners /\ f \in ToSet(Entries[d])

\* What was read is of a volume that was finished.
ReadLast == image # <<>> => stage = "burnt"

ReadInv == MetaInv /\ AllReady /\ FilesNamed /\ ReadLast

LEMMA LeadsKept ==
    ASSUME UNCHANGED <<tree, blkSz, cols>>
    PROVE  \A recs, first, e, name, place :
              Leads(recs, first, e, name, place) => Leads(recs, first, e, name, place)'
<1>1. \A list : Offset(list)' = Offset(list)
  BY DEF Offset
<1>2. \A x : WithinDisk(x)' = WithinDisk(x)
  BY DEF WithinDisk
<1>3. \A rec, list, i, size : Points(rec, list, i, size) => Points(rec, list, i, size)'
  BY <1>1, <1>2 DEF Points, Begin
<1> SUFFICES ASSUME NEW recs, NEW first, NEW e, NEW name, NEW place, Leads(recs, first, e, name, place)
             PROVE  Leads(recs, first, e, name, place)'
  OBVIOUS
<1>4. tree'[e] = tree[e] /\ Offset(tree[e])' = Offset(tree[e])
  BY <1>1
<1> QED BY <1>3, <1>4 DEF Leads, KindOf

\* A step that leaves the directories alone.
LEMMA QuietRead ==
    ASSUME ReadInv, MetaInv', ReadLast', UNCHANGED <<burners, names>>,
           DOMAIN burners = {} \/ UNCHANGED <<tree, blkSz, cols>>
    PROVE  ReadInv'
<1>1. FilesNamed'
  BY DEF ReadInv, FilesNamed
<1>2. AllReady'
  <2>1. CASE DOMAIN burners = {}
    BY <2>1 DEF AllReady
  <2>2. CASE UNCHANGED <<tree, blkSz, cols>>
    <3> SUFFICES ASSUME NEW k \in DOMAIN burners PROVE Ready(k)'
      BY DEF AllReady
    <3>1. Ready(k)
      BY DEF ReadInv, AllReady
    <3> DEFINE recs == burners[k].recs
               L == burners[k].dot.len
    <3>2. /\ "recs" \in DOMAIN burners[k] /\ Len(recs) \in Nat
          /\ \A i \in 1 .. Len(recs) : WholeIn(recs[i], L)
      BY <3>1 DEF Ready
    <3>3. recs' = recs /\ L' = L
      OBVIOUS
    <3>4. ASSUME NEW e \in ToSet(Entries[k[2]])
          PROVE  /\ <<k[1], e>> \in DOMAIN names
                 /\ e \notin Files => <<k[1], e>> \in DOMAIN burners
                 /\ e \notin Files \/ ToldIn(k[1], k[2], e) => \E first \in 1 .. Len(recs) :
                       Leads(recs, first, e, names[<<k[1], e>>], burners[<<k[1], e>>].dot)
      BY <3>1 DEF Ready
    <3>a. \A e : ToldIn(k[1], k[2], e)' <=> ToldIn(k[1], k[2], e)
      BY DEF ToldIn
    <3>5. ASSUME NEW e \in ToSet(Entries[k[2]]), e \notin Files \/ ToldIn(k[1], k[2], e)
          PROVE  \E first \in 1 .. Len(recs) :
                       Leads(recs, first, e, names[<<k[1], e>>], burners[<<k[1], e>>].dot)'
      <4> DEFINE name == names[<<k[1], e>>]
                 place == burners[<<k[1], e>>].dot
      <4>1. PICK first \in 1 .. Len(recs) : Leads(recs, first, e, name, place)
        BY <3>4, <3>5
      <4>2. PICK r, n, p : r = recs /\ n = name /\ p = place
        OBVIOUS
      <4>3. r = recs' /\ n = name' /\ p = place'
        BY <4>2
      <4> HIDE DEF name, place, recs
      <4>4. Leads(r, first, e, n, p)'
        BY <2>2, <4>1, <4>2, LeadsKept
      <4>5. Leads(recs, first, e, name, place)'
        BY <4>3, <4>4 DEF Leads
      <4>6. \E q \in 1 .. Len(recs') : Leads(recs, q, e, name, place)'
        BY <4>1, <4>2, <4>3, <4>5
      <4> QED BY <4>6 DEF name, place, recs
    <3>6. \A i \in 1 .. Len(recs) : WholeIn(recs[i], L)'
      BY <2>2, <3>2, <3>3 DEF WholeIn, EntrySize
    <3> QED BY <3>2, <3>3, <3>4, <3>5, <3>6, <3>a DEF Ready
  <2> QED BY <2>1, <2>2
<1> QED BY <1>1, <1>2 DEF ReadInv

\* The directory that is written leads to what is in it, all the others still do.
LEMMA DirRead ==
    ASSUME ReadInv, MetaInv', WriteDir, NamesFit, Bodied, Housed
    PROVE  ReadInv'
<1>1. PICK d, k0 : d = Current /\ k0 = <<vol, d>>
  OBVIOUS
<1> DEFINE below == ToSet(Entries[d])
<1>2. /\ stage = "planned" /\ vol \in Volumes /\ dirNo < N
      /\ UNCHANGED <<blkSz, vol, tree, cols>>
      /\ names' = [k \in DOMAIN names \cup ({vol} \X below) |->
                      IF k \in DOMAIN names THEN names[k] ELSE fit[NameOf(k[2])]]
  BY <1>1 DEF WriteDir, Planning, N, vars, config
<1>3. Laid /\ GeoInv /\ IsoInv /\ blkSz \in Nat \ {0}
  BY <1>2, BlockIs DEF ReadInv, MetaInv, Laid, GeoInv
<1>4. PICK len \in Nat \ {0} : \E off, own :
         /\ own.tmp = tmpOff /\ own.dot = Place(off, len) /\ {"tmp", "dot", "up"} \subseteq DOMAIN own
         /\ burners' = Settle(Put(burners, <<vol, Current>>, own), vol, Current, Place(off, len))
         /\ own.recs = WriteEntries(RecordList).recs /\ "recs" \in DOMAIN own
         /\ WriteEntries(RecordList).size <= len
  BY <1>3, DirectoryIs
<1>5. PICK off, own :
         /\ own.tmp = tmpOff /\ own.dot = Place(off, len) /\ {"tmp", "dot", "up"} \subseteq DOMAIN own
         /\ burners' = Settle(Put(burners, <<vol, Current>>, own), vol, Current, Place(off, len))
         /\ own.recs = WriteEntries(RecordList).recs /\ "recs" \in DOMAIN own
         /\ WriteEntries(RecordList).size <= len
  BY <1>4
<1>6. own.dot.len = len
  BY <1>5 DEF Place
<1>7. /\ d \in Dirs /\ d \notin WrittenDirs(vol)
      /\ \A e \in Dirs \ {Root} : ParentOf(e) = d => e \in WrittenDirs(vol)
  BY <1>1, <1>2, <1>3, CurrentIs DEF IsoInv
<1>8. k0 \notin DOMAIN burners
  BY <1>1, <1>3, <1>7 DEF IsoInv, Dots
<1> DEFINE list == Put(burners, k0, own)
<1>9. /\ DOMAIN list = DOMAIN burners \cup {k0} /\ list[k0] = own
      /\ \A k \in DOMAIN burners : list[k] = burners[k]
  BY <1>8 DEF Put
<1>10. \A k \in DOMAIN list : {"dot", "recs"} \subseteq DOMAIN list[k]
  BY <1>3, <1>5, <1>9 DEF IsoInv, Dots, ReadInv, AllReady, Ready
<1>11. /\ DOMAIN burners' = DOMAIN list
       /\ \A k \in DOMAIN list :
             burners'[k] = IF k[1] = vol /\ ParentOf(k[2]) = d
                           THEN [list[k] EXCEPT !.up = Place(off, len)] ELSE list[k]
  BY <1>1, <1>5 DEF Settle
<1> HIDE DEF list
<1>12. \A k \in DOMAIN list : /\ burners'[k].recs = list[k].recs /\ burners'[k].dot = list[k].dot
                              /\ "recs" \in DOMAIN burners'[k]
  BY <1>10, <1>11
<1>13. /\ DOMAIN burners' = DOMAIN burners \cup {k0}
       /\ burners'[k0].recs = own.recs /\ burners'[k0].dot.len = len
       /\ \A k \in DOMAIN burners : burners'[k].recs = burners[k].recs /\ burners'[k].dot = burners[k].dot
       /\ \A k \in DOMAIN burners' : "recs" \in DOMAIN burners'[k]
  BY <1>6, <1>9, <1>11, <1>12
<1>14. \A k \in DOMAIN names : k \in DOMAIN names' /\ names'[k] = names[k]
  BY <1>2
<1>15. ASSUME NEW e \in below
       PROVE  /\ <<vol, e>> \in DOMAIN names' /\ names'[<<vol, e>>] = fit[NameOf(e)]
              /\ e \notin Files => /\ <<vol, e>> \in DOMAIN burners
                                   /\ burners[<<vol, e>>].dot.lba = folders[e].off \div blkSz
                                   /\ burners[<<vol, e>>].dot.len = folders[e].len
  <2>1. below \subseteq Files \cup Dirs
    BY <1>7, EntriesAre
  <2>2. CASE e \in Files
    <3>1. <<vol, e>> \notin DOMAIN names
      <4> SUFFICES ASSUME <<vol, e>> \in DOMAIN names PROVE FALSE
        OBVIOUS
      <4>1. PICK g \in Dirs : <<vol, g>> \in DOMAIN burners /\ e \in ToSet(Entries[g])
        BY <2>2 DEF ReadInv, FilesNamed
      <4>2. g = d
        BY <1>7, <4>1 DEF Housed
      <4> QED BY <1>1, <1>8, <4>1, <4>2
    <3> QED BY <1>2, <2>2, <3>1
  <2>3. CASE e \notin Files
    <3>1. e \in Dirs /\ e # Root /\ ParentOf(e) = d
      BY <1>7, <2>1, <2>3, ParentIs
    <3>2. e \in WrittenDirs(vol) /\ vol \in 1 .. Len(Rules) + 1 /\ vol \in 1 .. vol
      BY <1>2, <1>3, <1>7, <3>1, VolumesAre DEF IsoInv, Placing
    <3>3. <<vol, e>> \notin DOMAIN names
      BY <1>3, <1>7, <3>1, <3>2 DEF IsoInv, Naming
    <3>4. <<vol, e>> \in DOMAIN burners
      BY <1>3, <3>1, <3>2 DEF IsoInv, Dots
    <3>5. burners[<<vol, e>>].dot.lba = folders[e].off \div blkSz /\ burners[<<vol, e>>].dot.len = folders[e].len
      BY <1>3, <3>2 DEF IsoInv, Filing, ReadInv, MetaInv, FolderLens
    <3> QED BY <1>2, <2>3, <3>3, <3>4, <3>5
  <2> QED BY <2>2, <2>3
<1>16. /\ Len(RecordList) \in Nat
       /\ \A i \in 1 .. Len(RecordList) :
             /\ Fields \subseteq DOMAIN RecordList[i] /\ RecordList[i].name \in Names
             /\ EntrySize(RecordList[i].name) <= blkSz
       /\ \A e \in below : Sole(e) => \E first \in 1 .. Len(RecordList) :
             Leads(RecordList, first, e, fit[NameOf(e)],
                   [lba |-> folders[e].off \div blkSz, len |-> folders[e].len])
  BY <1>1, <1>3, ListedIs
<1> DEFINE dir == WriteEntries(RecordList)
<1>17. /\ Len(dir.recs) = Len(RecordList)
       /\ \A i \in 1 .. Len(RecordList) : Says(dir.recs[i], RecordList[i]) /\ WholeIn(dir.recs[i], dir.size)
  BY <1>3, <1>16, WrittenAre
<1>18. own.recs = dir.recs /\ dir.size <= len
  BY <1>5
<1> HIDE DEF dir
<1> DEFINE L == Len(RecordList)
<1> HIDE DEF L
<1>19. L \in Nat /\ Len(own.recs) = L
  BY <1>16, <1>17, <1>18 DEF L
<1>20. ASSUME NEW i \in 1 .. L PROVE WholeIn(own.recs[i], len)
  <2> DEFINE rec == own.recs[i]
             es == EntrySize(rec.name)
  <2>1. WholeIn(rec, dir.size) /\ Says(rec, RecordList[i]) /\ RecordList[i].name \in Names
    BY <1>16, <1>17, <1>18 DEF L
  <2>2. rec.at \in Nat /\ rec.name \in Names /\ es \in Nat /\ rec.at + es <= dir.size /\ (rec.at % blkSz) + es <= blkSz
    BY <2>1, EntrySizeIs DEF WholeIn, Says
  <2>3. dir.size \in Nat
    <3>1. \A j \in 1 .. Len(RecordList) : RecordList[j].name \in Names
      BY <1>16
    <3> QED BY <1>3, <1>16, <3>1, WrittenSize DEF dir
  <2> HIDE DEF rec, es
  <2>4. rec.at + es <= len
    BY <1>18, <2>2, <2>3
  <2> QED BY <2>2, <2>4 DEF WholeIn, rec, es
<1>21. ASSUME NEW e \in below, Sole(e)
       PROVE  \E first \in 1 .. L : Leads(own.recs, first, e, names'[<<vol, e>>], burners[<<vol, e>>].dot)
  <2> DEFINE place == [lba |-> folders[e].off \div blkSz, len |-> folders[e].len]
             name == fit[NameOf(e)]
             recs == own.recs
             all == RecordList
  <2>1. PICK first \in 1 .. L : Leads(all, first, e, name, place)
    BY <1>16, <1>21 DEF L
  <2>2. \A i \in 1 .. L : Says(recs[i], all[i])
    BY <1>17, <1>18 DEF L
  <2>3. Len(recs) = L /\ Len(all) = L
    BY <1>19 DEF L
  <2>4. e \notin Files => /\ burners[<<vol, e>>].dot.lba = place.lba
                          /\ burners[<<vol, e>>].dot.len = place.len
    BY <1>15
  <2>5. names'[<<vol, e>>] = name
    BY <1>15
  <2>6. \A i \in 1 .. first - 1 : i \in 1 .. L
    BY <1>19
  <2> HIDE DEF place, name, recs, all
  <2>7. \A i \in 1 .. L : /\ recs[i].name = all[i].name /\ recs[i].kind = all[i].kind /\ recs[i].lba = all[i].lba
                          /\ recs[i].len = all[i].len /\ recs[i].more = all[i].more
    BY <2>2 DEF Says
  <2>8. \A i \in 1 .. L : \A file, n, size : Points(all[i], file, n, size) => Points(recs[i], file, n, size)
    BY <2>7 DEF Points
  <2>9. recs[first].name = name /\ recs[first].kind = KindOf(e) /\ \A i \in 1 .. first - 1 : Conv(recs[i].name) # Conv(name)
    BY <2>1, <2>6, <2>7 DEF Leads
  <2>10. e \in Files => \A i \in 1 .. Len(tree[e]) :
            /\ first + i - 1 \in 1 .. Len(recs)
            /\ Points(recs[first + i - 1], tree[e], i, Offset(tree[e]))
    BY <2>1, <2>3, <2>8 DEF Leads
  <2>11. e \notin Files => recs[first].lba = burners[<<vol, e>>].dot.lba /\ recs[first].len = burners[<<vol, e>>].dot.len
    BY <2>1, <2>4, <2>7 DEF Leads
  <2>12. Leads(recs, first, e, name, burners[<<vol, e>>].dot)
    BY <2>9, <2>10, <2>11 DEF Leads
  <2> QED BY <2>5, <2>12 DEF recs
<1>22. Ready(k0)'
  <2> DEFINE recs == burners[k0].recs
  <2>1. k0[1] = vol /\ k0[2] = d /\ recs' = own.recs /\ Len(recs') = L /\ k0 \in DOMAIN burners'
    BY <1>1, <1>13, <1>19
  <2>2. \A i \in 1 .. L : WholeIn(recs[i], burners[k0].dot.len)'
    <3> SUFFICES ASSUME NEW i \in 1 .. L PROVE WholeIn(recs[i], burners[k0].dot.len)'
      OBVIOUS
    <3>1. WholeIn(own.recs[i], len)
      BY <1>20
    <3>2. recs'[i] = own.recs[i] /\ burners'[k0].dot.len = len /\ blkSz' = blkSz
      BY <1>2, <1>13
    <3> QED BY <3>1, <3>2 DEF WholeIn, EntrySize
  <2>3. ASSUME NEW e \in below
        PROVE  /\ <<vol, e>> \in DOMAIN names'
               /\ e \notin Files => <<vol, e>> \in DOMAIN burners'
    BY <1>13, <1>15
  <2>a. ASSUME NEW e \in below, e \notin Files \/ ToldIn(vol, d, e)'
        PROVE  \E first \in 1 .. L : Leads(recs, first, e, names[<<vol, e>>], burners[<<vol, e>>].dot)'
    <3>1. Sole(e)
      <4>1. CASE e \notin Files
        BY <1>1, <1>3, <4>1, FoldersSole
      <4>2. CASE ToldIn(vol, d, e)'
        <5>1. \A g \in below : names'[<<vol, g>>] = fit[NameOf(g)]
          BY <1>15
        <5>2. \A g \in below \ {e} : Conv(names'[<<vol, g>>]) # Conv(names'[<<vol, e>>])
          BY <1>2, <4>2 DEF ToldIn
        <5> QED BY <1>1, <5>1, <5>2 DEF Sole
      <4> QED BY <2>a, <4>1, <4>2
    <3>2. PICK first \in 1 .. L : Leads(own.recs, first, e, names'[<<vol, e>>], burners[<<vol, e>>].dot)
      BY <1>21, <3>1
    <3>3. PICK r, n, p, q : r = own.recs /\ n = names'[<<vol, e>>] /\ p = burners[<<vol, e>>].dot
                            /\ q = burners'[<<vol, e>>].dot
      OBVIOUS
    <3>4. Leads(r, first, e, n, p)
      BY <3>2, <3>3
    <3>5. Leads(r, first, e, n, p)'
      BY <1>2, <3>4, LeadsKept
    <3>6. e \notin Files => p = q
      BY <1>13, <1>15, <3>3
    <3>7. r = recs' /\ n = names'[<<vol', e>>] /\ q = burners'[<<vol', e>>].dot
      BY <1>2, <2>1, <3>3
    <3> HIDE DEF recs
    <3>8. Leads(recs, first, e, names[<<vol, e>>], burners[<<vol, e>>].dot)'
      BY <3>5, <3>6, <3>7 DEF Leads
    <3> QED BY <3>8
  <2>4. vol' = vol /\ "recs" \in DOMAIN burners'[k0] /\ Len(burners'[k0].recs) \in Nat
    BY <1>2, <1>13, <1>19, <2>1
  <2> QED BY <2>1, <2>2, <2>3, <2>4, <2>a DEF Ready
<1>23. ASSUME NEW k \in DOMAIN burners PROVE Ready(k)'
  <2> DEFINE recs == burners[k].recs
             size == burners[k].dot.len
  <2>1. Ready(k)
    BY DEF ReadInv, AllReady
  <2>2. recs' = recs /\ size' = size /\ "recs" \in DOMAIN burners'[k]
    BY <1>13
  <2>3. /\ Len(recs) \in Nat /\ \A i \in 1 .. Len(recs) : WholeIn(recs[i], size)
    BY <2>1 DEF Ready
  <2>4. ASSUME NEW e \in ToSet(Entries[k[2]])
        PROVE  /\ <<k[1], e>> \in DOMAIN names'
               /\ e \notin Files => <<k[1], e>> \in DOMAIN burners'
    BY <1>13, <1>14, <2>1 DEF Ready
  <2>a. ASSUME NEW e \in ToSet(Entries[k[2]]), e \notin Files \/ ToldIn(k[1], k[2], e)'
        PROVE  \E first \in 1 .. Len(recs) : Leads(recs, first, e, names[<<k[1], e>>], burners[<<k[1], e>>].dot)'
    <3>1. /\ <<k[1], e>> \in DOMAIN names
          /\ e \notin Files => <<k[1], e>> \in DOMAIN burners
          /\ e \notin Files \/ ToldIn(k[1], k[2], e) => \E first \in 1 .. Len(recs) :
                Leads(recs, first, e, names[<<k[1], e>>], burners[<<k[1], e>>].dot)
      BY <2>1 DEF Ready
    <3>a. e \notin Files \/ ToldIn(k[1], k[2], e)
      <4>1. \A g \in ToSet(Entries[k[2]]) : names'[<<k[1], g>>] = names[<<k[1], g>>]
        BY <1>14, <2>1 DEF Ready
      <4> QED BY <2>a, <4>1 DEF ToldIn
    <3>2. PICK first \in 1 .. Len(recs) : Leads(recs, first, e, names[<<k[1], e>>], burners[<<k[1], e>>].dot)
      BY <3>1, <3>a
    <3>3. PICK r, n, p, q : r = recs /\ n = names[<<k[1], e>>] /\ p = burners[<<k[1], e>>].dot
                            /\ q = burners'[<<k[1], e>>].dot
      OBVIOUS
    <3>4. Leads(r, first, e, n, p)
      BY <3>2, <3>3
    <3>5. Leads(r, first, e, n, p)'
      BY <1>2, <3>4, LeadsKept
    <3>6. e \notin Files => p = q
      BY <1>13, <3>1, <3>3
    <3>7. r = recs' /\ n = names'[<<k[1], e>>] /\ q = burners'[<<k[1], e>>].dot
      BY <1>14, <2>2, <3>1, <3>3
    <3> HIDE DEF recs
    <3>8. Leads(recs, first, e, names[<<k[1], e>>], burners[<<k[1], e>>].dot)'
      BY <3>5, <3>6, <3>7 DEF Leads
    <3> QED BY <3>8
  <2>5. \A i \in 1 .. Len(recs') : WholeIn(recs[i], size)'
    BY <1>2, <2>2, <2>3 DEF WholeIn, EntrySize
  <2> QED BY <2>2, <2>3, <2>4, <2>5, <2>a DEF Ready
<1>24. AllReady'
  BY <1>13, <1>22, <1>23 DEF AllReady
<1>25. FilesNamed'
  <2> SUFFICES ASSUME NEW v, NEW f \in Files, <<v, f>> \in DOMAIN names'
               PROVE  \E g \in Dirs : <<v, g>> \in DOMAIN burners' /\ f \in ToSet(Entries[g])
    BY DEF FilesNamed
  <2>1. CASE <<v, f>> \in DOMAIN names
    BY <1>13, <2>1 DEF ReadInv, FilesNamed
  <2>2. CASE <<v, f>> \notin DOMAIN names
    <3>1. v = vol /\ f \in below
      BY <1>2, <2>2
    <3> QED BY <1>1, <1>7, <1>13, <3>1
  <2> QED BY <2>1, <2>2
<1>26. ReadLast'
  BY <1>2 DEF WriteDir, vars, ReadInv, ReadLast
<1> QED BY <1>24, <1>25, <1>26 DEF ReadInv

\* Nothing follows the reading, and nothing else changes the image.
LEMMA NextReadLast == ReadLast /\ [IsoNext]_allVars => ReadLast'
<1> SUFFICES ASSUME ReadLast, [IsoNext]_allVars PROVE ReadLast'
  OBVIOUS
<1>1. CASE Layout /\ UNCHANGED <<poolVars, isoVars>>
  <2>1. image' = image
    BY <1>1 DEF isoVars
  <2>2. stage # "burnt"
    BY <1>1 DEF Layout, OnFileFd, Adjust, WriteRange, Planned, CommitMapped, CommitCopied
  <2> QED BY <2>1, <2>2 DEF ReadLast
<1>2. CASE \E slave \in SlaveLens : PlanHead(slave) \/ BreachOfTrust(slave)
  BY <1>2 DEF PlanHead, BreachOfTrust, OptimizeBehind, isoVars, ReadLast
<1>3. CASE FitEntry \/ WriteDir \/ OpenTable \/ VisitDir \/ WriteTables \/ PlanMeta \/ CommitTmp
  BY <1>3 DEF FitEntry, WriteDir, OpenTable, VisitDir, WriteTables, PlanMeta, CommitTmp, Planning, isoVars, ReadLast
<1>4. CASE ReadVolume
  BY <1>4 DEF ReadVolume, vars, ReadLast
<1>5. CASE UNCHANGED allVars
  BY <1>5 DEF allVars, vars, isoVars, ReadLast
<1> QED BY <1>1, <1>2, <1>3, <1>4, <1>5 DEF IsoNext

LEMMA NextReadInv ==
    ASSUME ReadInv, [IsoNext]_allVars, NamesFit, Bodied, Housed
    PROVE  ReadInv'
<1>1. MetaInv /\ MetaInv' /\ ReadLast'
  BY NextMetaInv, NextReadLast DEF ReadInv
<1>2. CASE WriteDir
  BY <1>1, <1>2, DirRead
<1>3. CASE \/ Layout /\ UNCHANGED <<poolVars, isoVars>>
           \/ \E slave \in SlaveLens : PlanHead(slave) \/ BreachOfTrust(slave)
  <2>1. UNCHANGED <<burners, names>>
    BY <1>3 DEF PlanHead, BreachOfTrust, isoVars, dirVars
  <2>2. CASE stage \notin {"planned", "burnt"}
    <3>1. DOMAIN burners = {}
      BY <1>1, <2>2, NothingYet DEF MetaInv
    <3> QED BY <1>1, <2>1, <3>1, QuietRead
  <2>3. CASE stage \in {"planned", "burnt"}
    <3>1. ~(\E f \in Files : OnFileFd(f)) /\ ~Adjust /\ ~WriteRange /\ ~Planned
      BY <2>3 DEF OnFileFd, Adjust, WriteRange, Planned
    <3>2. \A slave \in SlaveLens : ~PlanHead(slave) /\ ~BreachOfTrust(slave)
      BY <2>3 DEF PlanHead, BreachOfTrust, OptimizeBehind
    <3>3. CommitMapped \/ CommitCopied
      BY <1>3, <3>1, <3>2 DEF Layout
    <3>4. UNCHANGED <<tree, blkSz, cols>>
      BY <3>3 DEF CommitMapped, CommitCopied, config
    <3> QED BY <1>1, <2>1, <3>4, QuietRead
  <2> QED BY <2>2, <2>3
<1>4. CASE FitEntry \/ OpenTable \/ VisitDir \/ WriteTables \/ CommitTmp \/ ReadVolume \/ UNCHANGED allVars
  <2>1. UNCHANGED <<burners, names, tree, blkSz, cols>>
    BY <1>4 DEF FitEntry, OpenTable, VisitDir, WriteTables, CommitTmp, ReadVolume, allVars, vars, config,
                isoVars, dirVars
  <2> QED BY <1>1, <2>1, QuietRead
<1>5. CASE PlanMeta
  <2>1. UNCHANGED <<burners, names, tree, blkSz, cols>>
    BY <1>5 DEF PlanMeta, laid, config, dirVars
  <2> QED BY <1>1, <2>1, QuietRead
<1> QED BY <1>2, <1>3, <1>4, <1>5 DEF IsoNext

LEMMA InitReadInv == IsoInit => ReadInv
<1> SUFFICES ASSUME IsoInit PROVE ReadInv
  OBVIOUS
<1>1. MetaInv /\ burners = <<>> /\ names = <<>> /\ image = <<>>
  BY InitMetaInv DEF IsoInit
<1> QED BY <1>1 DEF ReadInv, AllReady, FilesNamed, ReadLast
-----------------------------------------------------------------------------
(***************************************************************************)
(* What a reader finds.                                                    *)
(***************************************************************************)
\* No other directory is at the place of one.
LEMMA OneThere ==
    ASSUME MetaInv, stage = "burnt", NEW v \in Volumes, NEW k \in DOMAIN burners, NEW l \in DOMAIN burners,
           NEW place, place.len = burners[l].dot.len,
           Holds(Spans, v, place, burners[k].tmp), Holds(Spans, v, place, burners[l].tmp),
           NEW x \in Int, x = place.lba * blkSz
    PROVE  k = l
<1>1. GeoInv /\ Laid /\ DirectoriesApart
  BY DEF MetaInv, Laid
<1>2. PICK at \in Nat : Behind(at) /\ DirsPut(at)
  BY DEF MetaInv, Placed
<1>3. out \in Seq(Extents)
  BY <1>2 DEF Behind
<1>4. /\ burners[k].tmp \in Nat /\ burners[k].dot.len \in Nat /\ burners[k].dot.len > 0
      /\ burners[l].tmp \in Nat /\ burners[l].dot.len \in Nat /\ burners[l].dot.len > 0
  BY <1>2 DEF DirsPut, PutAt
<1> DEFINE n == place.len
<1>5. n \in Nat /\ n > 0
  BY <1>4
<1>6. PICK s \in Spans : s.start <= x /\ x + n <= s.start + s.len /\ s.off + x - s.start = burners[k].tmp
  BY DEF Holds, HoldsAt
<1>7. PICK t \in Spans : t.start <= x /\ x + n <= t.start + t.len /\ t.off + x - t.start = burners[l].tmp
  BY DEF Holds, HoldsAt
<1>8. ASSUME NEW u \in Spans, u.start <= x, x + n <= u.start + u.len PROVE Covering(u, x)
  <2>1. PICK i \in DOMAIN out : u = Spanned(i)
    BY <1>1, SpansAre
  <2>2. u.start \in Nat /\ u.len \in Nat
    <3>1. i \in 1 .. Len(out)
      BY <1>3, <2>1
    <3> QED BY <1>3, <2>1, <3>1, SpannedNat
  <2> HIDE DEF n
  <2>3. x < u.start + u.len
    BY <1>5, <1>8, <2>2
  <2> QED BY <1>8, <2>3 DEF Covering
<1>9. s = t
  BY <1>1, <1>3, <1>6, <1>7, <1>8, SpanOnce
<1>10. burners[k].tmp = burners[l].tmp
  BY <1>6, <1>7, <1>9
<1>11. ~(burners[k].tmp + burners[k].dot.len <= burners[l].tmp)
       /\ ~(burners[l].tmp + burners[l].dot.len <= burners[k].tmp)
  <2> DEFINE a == burners[k].tmp
             b == burners[k].dot.len
             c == burners[l].dot.len
  <2>1. a \in Nat /\ b \in Nat /\ c \in Nat /\ b > 0 /\ c > 0 /\ burners[l].tmp = a
    BY <1>4, <1>10
  <2> HIDE DEF a, b, c
  <2>2. ~(a + b <= a) /\ ~(a + c <= a)
    BY <2>1
  <2> QED BY <2>1, <2>2 DEF a, b, c
<1> QED BY <1>1, <1>11 DEF DirectoriesApart

\* The entries found at the place of a directory are those that were written.
LEMMA EntriesFound ==
    ASSUME ReadInv, stage = "burnt", NEW v \in Volumes, NEW d \in Dirs, NEW place,
           place.lba = burners[<<v, d>>].dot.lba, place.len = burners[<<v, d>>].dot.len
    PROVE  EntriesAt(Spans, v, place) = burners[<<v, d>>].recs
<1> DEFINE l == <<v, d>>
           recs == burners[l].recs
           there == {k \in DOMAIN burners : k[1] = v /\ Holds(Spans, v, place, burners[k].tmp)}
<1>1. MetaInv /\ l \in DOMAIN burners /\ Holds(Spans, v, burners[l].dot, burners[l].tmp)
  BY MetaPlaced DEF ReadInv, MetadataPlaced
<1>2. Holds(Spans, v, place, burners[l].tmp)
  BY <1>1 DEF Holds
<1>3. /\ place.len \in Nat /\ place.len > 0 /\ place.lba * blkSz \in Int
  <2>1. PICK at \in Nat : DirsPut(at)
    BY <1>1 DEF MetaInv, Placed
  <2>2. blkSz \in Nat \ {0}
    BY <1>1, BlockIs DEF MetaInv, GeoInv, Laid
  <2>3. place.lba \in Nat /\ place.len \in Nat /\ place.len > 0
    BY <1>1, <2>1 DEF DirsPut, PutAt
  <2> QED BY <2>2, <2>3
<1>4. there = {l}
  <2>1. ASSUME NEW k \in there PROVE k = l
    <3>1. k \in DOMAIN burners /\ Holds(Spans, v, place, burners[k].tmp)
      OBVIOUS
    <3> QED BY <1>1, <1>2, <1>3, <3>1, OneThere
  <2>2. l \in there
    BY <1>1, <1>2
  <2> HIDE DEF there
  <2> QED BY <2>1, <2>2
<1>5. Ready(l)
  BY <1>1 DEF ReadInv, AllReady
<1>6. Len(recs) \in Nat /\ \A i \in 1 .. Len(recs) : WholeIn(recs[i], place.len)
  BY <1>5 DEF Ready
<1> DEFINE cut == {i \in 1 .. Len(recs) : \/ (recs[i].at % blkSz) + EntrySize(recs[i].name) > blkSz
                                          \/ recs[i].at + EntrySize(recs[i].name) > place.len}
<1>7. cut = {}
  <2> SUFFICES ASSUME NEW i \in 1 .. Len(recs)
               PROVE  /\ ~((recs[i].at % blkSz) + EntrySize(recs[i].name) > blkSz)
                      /\ ~(recs[i].at + EntrySize(recs[i].name) > place.len)
    OBVIOUS
  <2> DEFINE rec == recs[i]
             es == EntrySize(rec.name)
  <2>1. rec.at \in Nat /\ (rec.at % blkSz) + es <= blkSz /\ rec.at + es <= place.len
    BY <1>6 DEF WholeIn
  <2> DEFINE m == rec.at % blkSz
  <2>2. blkSz \in Nat \ {0}
    BY <1>1, BlockIs DEF MetaInv, GeoInv, Laid
  <2>3. es \in Nat
    <3>1. rec.name \in Names
      BY <1>6 DEF WholeIn
    <3> QED BY <3>1, EntrySizeIs
  <2> HIDE DEF rec, es
  <2>4. m \in Int
    BY <2>1, <2>2
  <2>5. m + es <= blkSz
    BY <2>1
  <2> HIDE DEF m
  <2>6. ~(m + es > blkSz)
    BY <2>2, <2>3, <2>4, <2>5
  <2>7. ~(rec.at + es > place.len)
    BY <1>3, <2>1, <2>3
  <2> QED BY <2>6, <2>7 DEF rec, es, m
<1>8. there # {} /\ place.len # 0 /\ (CHOOSE k \in there : TRUE) = l
  BY <1>3, <1>4
<1> HIDE DEF there
<1>9. SelectInSeq(recs, LAMBDA rec : \/ (rec.at % blkSz) + EntrySize(rec.name) > blkSz
                                     \/ rec.at + EntrySize(rec.name) > place.len) = 0
  BY <1>7 DEF SelectInSeq
<1> QED BY <1>8, <1>9 DEF EntriesAt, there

\* The first entry with a name is the one a reader takes.
FirstNamed(entries, first, name, kind) ==
    /\ first \in 1 .. Len(entries) /\ entries[first].name = name /\ entries[first].kind = kind
    /\ \A i \in 1 .. first - 1 : Conv(entries[i].name) # Conv(name)

LEMMA NamedIs ==
    ASSUME NEW entries, Len(entries) \in Nat, NEW first, NEW name, NEW kind,
           FirstNamed(entries, first, name, kind)
    PROVE  Named(entries, name, kind) = first
<1> DEFINE I == {i \in 1 .. Len(entries) : Conv(entries[i].name) = Conv(name) /\ entries[i].kind = kind}
<1>0. /\ first \in 1 .. Len(entries) /\ entries[first].name = name /\ entries[first].kind = kind
      /\ \A i \in 1 .. first - 1 : Conv(entries[i].name) # Conv(name)
  BY DEF FirstNamed
<1>1. first \in I /\ I \in SUBSET Nat /\ \A i \in I : first <= i
  <2>1. ASSUME NEW i \in I PROVE first <= i
    <3> SUFFICES ASSUME i < first PROVE FALSE
      BY <1>0
    <3>1. i \in 1 .. first - 1
      BY <1>0
    <3> QED BY <1>0, <3>1
  <2> QED BY <1>0, <2>1
<1>2. Named(entries, name, kind) = IF I # {} THEN Min(I) ELSE 0
  BY DEF Named, SelectInSeq
<1> HIDE DEF I
<1>3. Min(I) \in I /\ Min(I) <= first
  BY <1>1, LeastIs
<1>4. Min(I) = first
  <2> DEFINE m == Min(I)
  <2>1. m \in Nat /\ m <= first /\ first <= m /\ first \in Nat
    BY <1>1, <1>3
  <2> HIDE DEF m
  <2>2. m = first
    BY <2>1
  <2> QED BY <2>2 DEF m
<1> QED BY <1>1, <1>2, <1>4

\* The number of a directory in the path table.
NumberOf(d) == CHOOSE i \in DOMAIN PathTable : PathTable[i] = d

LEMMA NumberIs ==
    /\ \A d \in Dirs : NumberOf(d) \in 1 .. N /\ PathTable[NumberOf(d)] = d
    /\ \A i \in 1 .. N : NumberOf(PathTable[i]) = i
<1>1. ASSUME NEW d \in Dirs PROVE NumberOf(d) \in 1 .. N /\ PathTable[NumberOf(d)] = d
  BY TableIs DEF NumberOf
<1>2. ASSUME NEW i \in 1 .. N PROVE NumberOf(PathTable[i]) = i
  BY <1>1, TableIs
<1> QED BY <1>1, <1>2

\* What an entry in the directory above says of the place of a directory.
Above(place, v, e) ==
    LET entries == EntriesAt(Spans, v, place[NumberOf(ParentOf(e))])
        found == Named(entries, names[<<v, e>>], "folder")
    IN  IF found = 0 THEN [lba |-> 0, len |-> 0]
        ELSE [lba |-> entries[found].lba, len |-> entries[found].len]

\* A directory has the place that the one above says it has.
LEMMA AboveIs ==
    ASSUME ReadInv, stage = "burnt", NEW v \in Volumes, NEW e \in Dirs \ {Root}, NEW place,
           place[NumberOf(ParentOf(e))].lba = burners[<<v, ParentOf(e)>>].dot.lba,
           place[NumberOf(ParentOf(e))].len = burners[<<v, ParentOf(e)>>].dot.len
    PROVE  Above(place, v, e) = [lba |-> burners[<<v, e>>].dot.lba, len |-> burners[<<v, e>>].dot.len]
<1> DEFINE d == ParentOf(e)
           entries == EntriesAt(Spans, v, place[NumberOf(d)])
           recs == burners[<<v, d>>].recs
           name == names[<<v, e>>]
<1>1. d \in Dirs /\ e \in ToSet(Entries[d]) /\ e \notin Files
  BY ParentIs, IsoAssumption
<1>2. entries = recs
  BY <1>1, EntriesFound
<1>3. Ready(<<v, d>>)
  <2>1. <<v, d>> \in DOMAIN burners
    BY <1>1, MetaPlaced DEF ReadInv, MetadataPlaced
  <2> QED BY <2>1 DEF ReadInv, AllReady
<1>4. Len(recs) \in Nat
  BY <1>3 DEF Ready
<1>5. PICK first \in 1 .. Len(recs) : Leads(recs, first, e, name, burners[<<v, e>>].dot)
  BY <1>1, <1>3 DEF Ready
<1>6. /\ recs[first].name = name /\ recs[first].kind = "folder"
      /\ \A i \in 1 .. first - 1 : Conv(recs[i].name) # Conv(name)
      /\ recs[first].lba = burners[<<v, e>>].dot.lba /\ recs[first].len = burners[<<v, e>>].dot.len
  BY <1>1, <1>5 DEF Leads, KindOf
<1> HIDE DEF recs, entries, name
<1>7. Named(recs, name, "folder") = first
  <2>1. FirstNamed(recs, first, name, "folder")
    BY <1>6 DEF FirstNamed
  <2> QED BY <1>4, <2>1, NamedIs
<1>8. first # 0
  OBVIOUS
<1> QED BY <1>2, <1>6, <1>7, <1>8 DEF Above, entries, name

\* From the root down a reader comes to where a directory is.
LEMMA PlaceFound ==
    ASSUME ReadInv, stage = "burnt", NEW v \in Volumes, NEW d \in Dirs
    PROVE  LET place == PlaceOf(Spans, v, d) IN
           place.lba = burners[<<v, d>>].dot.lba /\ place.len = burners[<<v, d>>].dot.len
<1> DEFINE top == [lba |-> burnt[v].root, len |-> burnt[v].rootLen]
           Dot0(e) == [lba |-> burners[<<v, e>>].dot.lba, len |-> burners[<<v, e>>].dot.len]
           w == [i \in 1 .. N |-> Dot0(PathTable[i])]
           g == CHOOSE f : f = [i \in DOMAIN PathTable |-> IF i = 1 THEN top ELSE Above(f, v, PathTable[i])]
<1>1. PlaceOf(Spans, v, d) = g[NumberOf(d)]
  BY DEF PlaceOf, Above, NumberOf
<1>2. /\ DOMAIN PathTable = 1 .. N /\ N \in Nat \ {0} /\ Root = PathTable[1] /\ Root \in Dirs
      /\ \A i \in 1 .. N : PathTable[i] \in Dirs /\ (PathTable[i] = Root => i = 1)
  BY TableIs
<1>3. top = Dot0(Root)
  BY MetaPlaced DEF ReadInv, MetadataPlaced
<1> HIDE DEF top
<1>4. ASSUME NEW i \in 2 .. N
      PROVE  /\ PathTable[i] \in Dirs \ {Root} /\ NumberOf(ParentOf(PathTable[i])) \in 1 .. i - 1
             /\ ParentOf(PathTable[i]) \in Dirs
             /\ \A place : place[NumberOf(ParentOf(PathTable[i]))] = Dot0(ParentOf(PathTable[i]))
                   => Above(place, v, PathTable[i]) = Dot0(PathTable[i])
  <2>1. i \in 1 .. N /\ i # 1
    BY <1>2
  <2>2. PathTable[i] \in Dirs \ {Root}
    BY <1>2, <2>1
  <2>3. PICK j \in 1 .. i - 1 : ParentOf(PathTable[i]) = PathTable[j]
    BY ParentIs
  <2>4. j \in 1 .. N
    BY <1>2
  <2>5. NumberOf(ParentOf(PathTable[i])) = j /\ PathTable[j] \in Dirs
    BY <1>2, <2>3, <2>4, NumberIs
  <2>6. ASSUME NEW place, place[NumberOf(ParentOf(PathTable[i]))] = Dot0(ParentOf(PathTable[i]))
        PROVE  Above(place, v, PathTable[i]) = Dot0(PathTable[i])
    <3> DEFINE e == PathTable[i]
    <3>1. e \in Dirs \ {Root}
      BY <2>2
    <3>2. /\ place[NumberOf(ParentOf(e))].lba = burners[<<v, ParentOf(e)>>].dot.lba
          /\ place[NumberOf(ParentOf(e))].len = burners[<<v, ParentOf(e)>>].dot.len
      BY <2>6
    <3> HIDE DEF e
    <3>3. Above(place, v, e) = [lba |-> burners[<<v, e>>].dot.lba, len |-> burners[<<v, e>>].dot.len]
      BY <3>1, <3>2, AboveIs
    <3> QED BY <3>3 DEF e
  <2> QED BY <2>2, <2>3, <2>5, <2>6
<1> HIDE DEF Dot0
<1>5. w = [i \in DOMAIN PathTable |-> IF i = 1 THEN top ELSE Above(w, v, PathTable[i])]
  <2>1. ASSUME NEW i \in 1 .. N PROVE w[i] = IF i = 1 THEN top ELSE Above(w, v, PathTable[i])
    <3>1. CASE i = 1
      BY <1>2, <1>3, <3>1
    <3>2. CASE i # 1
      <4>1. i \in 2 .. N
        BY <1>2, <3>2
      <4> DEFINE j == NumberOf(ParentOf(PathTable[i]))
      <4>2. j \in 1 .. N /\ PathTable[j] = ParentOf(PathTable[i])
        <5>1. ParentOf(PathTable[i]) \in Dirs
          BY <1>4, <4>1
        <5> QED BY <5>1, NumberIs
      <4>3. w[j] = Dot0(ParentOf(PathTable[i]))
        BY <4>2
      <4> HIDE DEF w
      <4>4. Above(w, v, PathTable[i]) = Dot0(PathTable[i])
        BY <1>4, <4>1, <4>3
      <4> QED BY <3>2, <4>4 DEF w
    <3> QED BY <3>1, <3>2
  <2>2. w = [i \in DOMAIN PathTable |-> w[i]]
    BY <1>2
  <2> HIDE DEF w
  <2> QED BY <1>2, <2>1, <2>2
<1> HIDE DEF w
<1>6. g = [i \in DOMAIN PathTable |-> IF i = 1 THEN top ELSE Above(g, v, PathTable[i])]
  <2>1. \E f : f = [i \in DOMAIN PathTable |-> IF i = 1 THEN top ELSE Above(f, v, PathTable[i])]
    BY <1>5
  <2> QED BY <2>1
<1> HIDE DEF g
<1> DEFINE T == {n \in Nat : \A i \in 1 .. N : i <= n => g[i] = Dot0(PathTable[i])}
<1>7. 0 \in T
  OBVIOUS
<1>8. ASSUME NEW n \in T PROVE n + 1 \in T
  <2>1. ASSUME NEW i \in 1 .. N, i <= n + 1 PROVE g[i] = Dot0(PathTable[i])
    <3>1. g[i] = IF i = 1 THEN top ELSE Above(g, v, PathTable[i])
      <4>1. i \in DOMAIN PathTable
        BY <1>2
      <4> QED BY <1>6, <4>1
    <3>2. CASE i = 1
      BY <1>2, <1>3, <3>1, <3>2
    <3>3. CASE i # 1
      <4>1. i \in 2 .. N
        BY <1>2, <3>3
      <4> DEFINE j == NumberOf(ParentOf(PathTable[i]))
      <4>2. j \in 1 .. i - 1 /\ ParentOf(PathTable[i]) \in Dirs
        BY <1>4, <4>1
      <4>3. PathTable[j] = ParentOf(PathTable[i])
        BY <4>2, NumberIs
      <4> HIDE DEF j
      <4>4. j \in 1 .. N /\ j <= n
        BY <1>2, <1>8, <2>1, <4>2
      <4>5. g[j] = Dot0(ParentOf(PathTable[i]))
        BY <1>8, <4>3, <4>4
      <4>6. Above(g, v, PathTable[i]) = Dot0(PathTable[i])
        BY <1>4, <4>1, <4>5 DEF j
      <4> QED BY <3>1, <3>3, <4>6
    <3> QED BY <3>2, <3>3
  <2>2. n + 1 \in Nat
    BY <1>8
  <2> QED BY <2>1, <2>2
<1>9. T = Nat
  <2>1. T \in SUBSET Nat
    OBVIOUS
  <2> HIDE DEF T
  <2> QED BY <2>1, <1>7, <1>8, NatSetInduction
<1>10. g[NumberOf(d)] = Dot0(d)
  <2>1. NumberOf(d) \in 1 .. N /\ PathTable[NumberOf(d)] = d
    BY NumberIs
  <2>2. NumberOf(d) \in T /\ NumberOf(d) <= NumberOf(d)
    BY <1>2, <1>9, <2>1
  <2> QED BY <2>1, <2>2
<1> QED BY <1>1, <1>10 DEF Dot0

\* A reader of the finished volume has the bytes of a file that can be told.
LEMMA FileFound ==
    ASSUME NoneShared, WholeSectors, Bodied, Housed, ReadInv, stage = "burnt",
           NEW v \in Volumes, NEW f \in Files, Told(v, f)
    PROVE  ReadFile(Spans, v, f) = Content(f)
<1> DEFINE d == CHOOSE e \in Dirs : f \in ToSet(Entries[e])
           entries == EntriesAt(Spans, v, PlaceOf(Spans, v, d))
           name == names[<<v, f>>]
           first == Named(entries, name, "file")
           ends == {i \in first .. Len(entries) : ~entries[i].more}
           bytes == [i \in 1 .. Min(ends) + 1 - first |->
                        [b \in 1 .. entries[first + i - 1].len |->
                            ByteAt(Spans, entries[first + i - 1].lba * blkSz + b - 1)]]
<1>1. d \in Dirs /\ f \in ToSet(Entries[d])
  BY DEF Housed
<1>2. GeoInv /\ tree[f] # <<>> /\ out \in Seq(Extents)
  <2>1. GeoInv /\ \E at \in Nat : Behind(at)
    BY DEF ReadInv, MetaInv, Placed
  <2>2. tree \in ExtentTrees \cup FileTrees
    BY <2>1 DEF GeoInv, GeoTyped
  <2> QED BY <2>1, <2>2 DEF Bodied, Behind
<1>3. entries = burners[<<v, d>>].recs
  <2> DEFINE place == PlaceOf(Spans, v, d)
  <2>1. place.lba = burners[<<v, d>>].dot.lba /\ place.len = burners[<<v, d>>].dot.len
    BY <1>1, PlaceFound
  <2> HIDE DEF place, d
  <2>2. EntriesAt(Spans, v, place) = burners[<<v, d>>].recs
    BY <1>1, <2>1, EntriesFound
  <2> QED BY <2>2 DEF place
<1>4. Ready(<<v, d>>)
  <2>1. <<v, d>> \in DOMAIN burners
    BY <1>1, MetaPlaced DEF ReadInv, MetadataPlaced
  <2> QED BY <2>1 DEF ReadInv, AllReady
<1> HIDE DEF entries
<1>5. Len(entries) \in Nat
  BY <1>3, <1>4 DEF Ready
<1>6. PICK q \in 1 .. Len(entries) : Leads(entries, q, f, name, burners[<<v, f>>].dot)
  <2>1. ToldIn(v, d, f)
    BY <1>1 DEF Told, ToldIn
  <2> QED BY <1>1, <1>3, <1>4, <2>1 DEF Ready
<1> HIDE DEF d, name
<1>7. first = q
  <2>1. FirstNamed(entries, q, name, "file")
    BY <1>6 DEF Leads, KindOf, FirstNamed
  <2> HIDE DEF first
  <2>2. Named(entries, name, "file") = q
    BY <1>5, <2>1, NamedIs
  <2> QED BY <2>2 DEF first
<1> HIDE DEF first
<1>8. first \in 1 .. Len(entries) /\ first # 0
  BY <1>5, <1>6, <1>7
<1>9. \A i \in 1 .. Len(tree[f]) : /\ first + i - 1 \in 1 .. Len(entries)
                                   /\ Points(entries[first + i - 1], tree[f], i, Offset(tree[f]))
  BY <1>6, <1>7 DEF Leads
<1> HIDE DEF ends, bytes
<1>10. ends = {i \in first .. Len(entries) : ~entries[i].more}
  BY DEF ends
<1>11. bytes = [i \in 1 .. Min(ends) + 1 - first |->
                   [b \in 1 .. entries[first + i - 1].len |->
                       ByteAt(Spans, entries[first + i - 1].lba * blkSz + b - 1)]]
  BY DEF bytes
<1>12. ends # {} /\ FlattenSeq(bytes) = Content(f)
  BY <1>2, <1>5, <1>8, <1>9, <1>10, <1>11, ExtentsRead
<1>13. ReadFile(Spans, v, f) = IF first = 0 \/ ends = {} THEN Nothing ELSE FlattenSeq(bytes)
  BY DEF ReadFile, d, entries, name, first, ends, bytes
<1> QED BY <1>8, <1>12, <1>13

\* The step in which the volume is read finds what the source tree has.
LEMMA VolumeFound ==
    ASSUME NoneShared, WholeSectors, Bodied, Housed, ReadInv, ReadVolume
    PROVE  Seen = <<>> /\ Seen' = [v \in Volumes |-> Source]
<1>1. stage = "burnt" /\ image = <<>> /\ names' = names /\ tree' = tree
  BY DEF ReadVolume, vars, config, dirVars
<1>2. HeadsPlaced(Spans)
  BY <1>1, MetaPlaced DEF ReadInv, MetadataPlaced
<1>3. image' = [v \in Volumes |-> [f \in Files |-> ReadFile(Spans, v, f)]]
  BY <1>2 DEF ReadVolume
<1>4. \A v \in Volumes : \A f \in Files : Told(v, f) => ReadFile(Spans, v, f) = Content(f)
  BY <1>1, FileFound
<1> HIDE DEF ReadVolume
<1>5. image' # <<>>
  BY <1>3, OneVolume
<1>6. \A v, f : (Told(v, f)' <=> Told(v, f)) /\ Content(f)' = Content(f)
  BY <1>1 DEF Told, Content
<1>7. Seen' = [v \in Volumes |-> [f \in Files |-> Content(f)]]
  BY <1>3, <1>4, <1>5, <1>6 DEF Seen
<1> QED BY <1>1, <1>7 DEF Source, Seen

\* No other step reads the volume, and none changes the source, or a name once it
\* is read.
LEMMA SourceKept ==
    ASSUME [IsoNext]_allVars
    PROVE  tree' = tree /\ (ReadVolume \/ (image' = image /\ (stage = "burnt" => names' = names)))
<1>1. CASE Layout /\ UNCHANGED <<poolVars, isoVars>>
  <2>1. image' = image /\ names' = names
    BY <1>1 DEF isoVars, dirVars
  <2>2. tree' = tree
    BY <1>1 DEF Layout, OnFileFd, Adjust, WriteRange, Planned, CommitMapped, CommitCopied, config
  <2> QED BY <2>1, <2>2
<1>2. CASE \E slave \in SlaveLens : PlanHead(slave) \/ BreachOfTrust(slave)
  BY <1>2 DEF PlanHead, BreachOfTrust, OptimizeBehind, isoVars, dirVars, config
<1>3. CASE FitEntry \/ OpenTable \/ VisitDir \/ WriteTables \/ PlanMeta \/ CommitTmp
           \/ ReadVolume \/ UNCHANGED allVars
  BY <1>3 DEF FitEntry, OpenTable, VisitDir, WriteTables, PlanMeta, CommitTmp, ReadVolume,
              allVars, vars, laid, config, isoVars, dirVars
<1>4. CASE WriteDir
  BY <1>4 DEF WriteDir, Planning, vars, config
<1> QED BY <1>1, <1>2, <1>3, <1>4 DEF IsoNext

\* A step represents the source, or leaves it and what is seen of it alone.
LEMMA RepresentStep ==
    ASSUME NoneShared, WholeSectors, Bodied, Housed, ReadInv, [IsoNext]_allVars
    PROVE  [Promise!Represent]_<<[v \in Volumes |-> Source], Seen>>
<1>1. tree' = tree /\ (ReadVolume \/ (image' = image /\ (stage = "burnt" => names' = names)))
  BY SourceKept
<1> DEFINE src == [v \in Volumes |-> Source]
<1>2. src' = src /\ \A f : Content(f)' = Content(f)
  <2>1. Source' = Source /\ \A f : Content(f)' = Content(f)
    BY <1>1 DEF Source, Content
  <2> QED BY <2>1
<1>3. CASE ReadVolume
  <2>1. Seen = <<>> /\ Seen' = src
    BY <1>3, VolumeFound
  <2> QED BY <1>2, <2>1 DEF Promise!Represent
<1>4. CASE image' = image /\ (stage = "burnt" => names' = names)
  <2>1. CASE image = <<>>
    <3>1. Seen' = Seen
      BY <1>4, <2>1 DEF Seen
    <3> QED BY <1>2, <3>1
  <2>2. CASE image # <<>>
    <3>1. names' = names
      BY <1>4, <2>2 DEF ReadInv, ReadLast
    <3>2. \A v, f : Told(v, f)' <=> Told(v, f)
      BY <3>1 DEF Told
    <3>3. Seen' = Seen
      BY <1>2, <1>4, <3>2 DEF Seen
    <3> QED BY <1>2, <3>3
  <2> QED BY <2>1, <2>2
<1> QED BY <1>1, <1>3, <1>4

(***************************************************************************)
(* A burnt volume, once it is read, has in each of its trees the bytes of  *)
(* every file whose name is not that of another one, and what is seen of   *)
(* it changes no more: where every file has an extent and is in one        *)
(* directory, no extent is longer than an entry can say, no two overlap in *)
(* part, and as long as the names fitted are short enough for a block.     *)
(***************************************************************************)
THEOREM IsoRepresents ==
    ASSUME NoneShared, WholeSectors, Bodied, Housed
    PROVE  IsoSpec /\ []NamesFit => Represents
<1>1. IsoInit => ReadInv /\ Promise!Init
  BY InitReadInv DEF IsoInit, Promise!Init, Seen
<1>2. ReadInv /\ NamesFit /\ [IsoNext]_allVars => ReadInv'
  BY NextReadInv
<1>3. ReadInv /\ [IsoNext]_allVars => [Promise!Represent]_<<[v \in Volumes |-> Source], Seen>>
  BY RepresentStep
<1> QED BY <1>1, <1>2, <1>3, PTL DEF IsoSpec, Represents, Promise!Spec
=============================================================================
