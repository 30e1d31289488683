--------------------------- MODULE Geometry_proof ----------------------------
(***************************************************************************)
(* What the layout of the files promises, for every source tree, whatever  *)
(* a volume puts before and behind the files.                              *)
(***************************************************************************)
EXTENDS Geometry, SequenceTheorems, FiniteSetTheorems, WellFoundedInduction, TLAPS

-----------------------------------------------------------------------------
(***************************************************************************)
(* Multiples and remainders.                                               *)
(***************************************************************************)
LEMMA Division ==
    ASSUME NEW a \in Int, NEW b \in Nat \ {0}
    PROVE  a \div b \in Int /\ a % b \in 0 .. b - 1 /\ a = b * (a \div b) + (a % b)
OBVIOUS

LEMMA MultipleIs ==
    ASSUME NEW b \in Nat \ {0}, NEW q \in Int
    PROVE  (b * q) % b = 0
<1>1. b * q \in Int
  OBVIOUS
<1> DEFINE a == b * q
           p == a \div b
           r == a % b
<1>2. p \in Int /\ r \in 0 .. b - 1 /\ a = b * p + r /\ a \in Int
  BY <1>1, Division
<1>3. a = b * q
  OBVIOUS
<1> HIDE DEF a, p, r
<1>4. b * (q - p) = r
  BY <1>2, <1>3
<1>5. q - p <= 0
  <2> SUFFICES ASSUME q - p >= 1 PROVE FALSE
    BY <1>2
  <2>1. b * (q - p) >= b
    BY <1>2
  <2> QED BY <2>1, <1>4, <1>2
<1>6. q - p >= 0
  <2> SUFFICES ASSUME p - q >= 1 PROVE FALSE
    BY <1>2
  <2>1. b * (p - q) >= b
    BY <1>2
  <2>2. b * (q - p) = - (b * (p - q))
    BY <1>2
  <2> QED BY <2>1, <2>2, <1>4, <1>2
<1>7. q - p = 0
  BY <1>2, <1>5, <1>6
<1>8. r = 0
  BY <1>4, <1>7
<1> QED BY <1>8 DEF r, a

LEMMA SumOfMultiples ==
    ASSUME NEW b \in Nat \ {0}, NEW x \in Int, NEW y \in Int, x % b = 0, y % b = 0
    PROVE  (x + y) % b = 0 /\ (x - y) % b = 0
<1> DEFINE p == x \div b
           q == y \div b
<1>1. p \in Int /\ q \in Int /\ x = b * p /\ y = b * q
  BY Division
<1> HIDE DEF p, q
<1>2. x + y = b * (p + q) /\ x - y = b * (p - q)
  BY <1>1
<1>3. p + q \in Int /\ p - q \in Int
  BY <1>1
<1> QED BY <1>2, <1>3, MultipleIs

LEMMA MultipleOfMultiple ==
    ASSUME NEW s \in Nat \ {0}, NEW b \in Nat \ {0}, NEW x \in Int, b % s = 0, x % b = 0
    PROVE  x % s = 0
<1> DEFINE p == x \div b
           q == b \div s
<1>1. p \in Int /\ q \in Int /\ x = b * p /\ b = s * q
  BY Division
<1> HIDE DEF p, q
<1>2. x = s * (q * p) /\ q * p \in Int
  BY <1>1
<1> QED BY <1>2, MultipleIs

\* What PadTo appends leads to the next multiple.
LEMMA Padding ==
    ASSUME NEW b \in Nat \ {0}, NEW x \in Nat
    PROVE  LET pad == (b - (x % b)) % b IN pad \in Nat /\ (x + pad) % b = 0
<1> DEFINE q == x \div b
           r == x % b
<1>1. q \in Int /\ r \in 0 .. b - 1 /\ x = b * q + r
  BY Division
<1> HIDE DEF q
<1>2. CASE r = 0
  <2>1. b * 1 = b /\ (b * 1) % b = 0
    BY MultipleIs
  <2> QED BY <1>1, <1>2, <2>1, MultipleIs
<1>3. CASE r # 0
  <2>1. b - r \in 0 .. b - 1
    BY <1>1, <1>3
  <2>2. (b - r) % b = b - r
    <3> HIDE DEF r
    <3> DEFINE c == b - r
    <3>1. c \in 0 .. b - 1
      BY <2>1
    <3> HIDE DEF c
    <3>2. c % b = c
      BY <3>1
    <3> QED BY <3>2 DEF c
  <2>3. x + (b - r) = b * (q + 1) /\ q + 1 \in Int
    BY <1>1
  <2>4. (b * (q + 1)) % b = 0
    BY <2>3, MultipleIs
  <2> QED BY <2>1, <2>2, <2>3, <2>4
<1> QED BY <1>2, <1>3
-----------------------------------------------------------------------------
(***************************************************************************)
(* Induction over the natural numbers, for the sets that are named here.   *)
(***************************************************************************)
LEMMA LeastOf == ASSUME NEW S \in SUBSET Nat, S # {}
                 PROVE  \E x \in S : \A y \in S : x =< y
<1> DEFINE R == {p \in Nat \X Nat : p[1] < p[2]}
<1>1. IsWellFoundedOn(R, Nat)
  BY NatLessThanWellFounded DEF OpToRel
<1>2. \E x \in S : \A y \in S : ~(<<y, x>> \in R)
  <2> HIDE DEF R
  <2> QED BY <1>1, WFMin
<1>3. PICK x \in S : \A y \in S : ~(y < x)
  BY <1>2
<1> QED BY <1>3

LEMMA GreatestOf == ASSUME NEW S \in SUBSET Nat, S # {}, NEW b \in Nat, \A x \in S : x =< b
                    PROVE  \E x \in S : \A y \in S : y =< x
<1> DEFINE T == {b - x : x \in S}
<1>1. T \subseteq Nat /\ T # {}
  <2>1. \A x \in S : b - x \in Nat
    OBVIOUS
  <2> QED BY <2>1
<1>2. PICK t \in T : \A u \in T : t =< u
  <2> HIDE DEF T
  <2> QED BY <1>1, LeastOf
<1>3. PICK x \in S : t = b - x
  BY <1>2
<1>4. ASSUME NEW y \in S PROVE y =< x
  <2>1. b - y \in T
    OBVIOUS
  <2> QED BY <1>2, <1>3, <2>1
<1> QED BY <1>3, <1>4

LEMMA NatSetInduction ==
    ASSUME NEW T \in SUBSET Nat, 0 \in T, \A n \in T : n + 1 \in T
    PROVE  T = Nat
<1> SUFFICES ASSUME Nat \ T # {} PROVE FALSE
  OBVIOUS
<1>1. PICK x \in Nat \ T : \A y \in Nat \ T : x =< y
  BY LeastOf
<1>2. x # 0 /\ x - 1 \in Nat /\ ~(x =< x - 1)
  BY <1>1
<1>3. x - 1 \in T
  BY <1>1, <1>2
<1> QED BY <1>1, <1>2, <1>3
-----------------------------------------------------------------------------
(***************************************************************************)
(* The offset of a planner: the sums of the lengths, up to each extent.    *)
(***************************************************************************)
IsSums(f, list) ==
    f = [i \in 0 .. Len(list) |-> IF i = 0 THEN 0 ELSE f[i-1] + list[i].len]

LEMMA SumsAgree ==
    ASSUME NEW s, NEW t, Len(s) \in Nat, Len(t) \in Nat, NEW f, NEW g, IsSums(f, s), IsSums(g, t),
           NEW m \in Nat, m <= Len(s), m <= Len(t), \A i \in 1 .. m : s[i] = t[i]
    PROVE  \A i \in 0 .. m : f[i] = g[i]
<1> DEFINE T == {n \in Nat : n <= m => f[n] = g[n]}
<1>1. 0 \in T
  BY DEF IsSums
<1>2. ASSUME NEW n \in T PROVE n + 1 \in T
  <2> SUFFICES ASSUME n + 1 <= m PROVE f[n + 1] = g[n + 1]
    OBVIOUS
  <2>1. f[n] = g[n] /\ n + 1 \in 1 .. m /\ n + 1 # 0 /\ (n + 1) - 1 = n
    BY <1>2
  <2>2. f[n + 1] = f[n] + s[n + 1].len
    BY <2>1 DEF IsSums
  <2>3. g[n + 1] = g[n] + t[n + 1].len
    BY <2>1 DEF IsSums
  <2> QED BY <2>1, <2>2, <2>3
<1>3. T = Nat
  <2>1. T \in SUBSET Nat
    OBVIOUS
  <2> HIDE DEF T
  <2> QED BY <2>1, <1>1, <1>2, NatSetInduction
<1> QED BY <1>3

LEMMA SumsExist ==
    ASSUME NEW list, Len(list) \in Nat
    PROVE  \E f : IsSums(f, list) /\ Offset(list) = f[Len(list)]
<1> DEFINE T == {n \in Nat : \E f : f = [i \in 0 .. n |-> IF i = 0 THEN 0 ELSE f[i-1] + list[i].len]}
<1>1. 0 \in T
  <2> DEFINE f == [i \in 0 .. 0 |-> 0]
  <2>1. f = [i \in 0 .. 0 |-> IF i = 0 THEN 0 ELSE f[i-1] + list[i].len]
    OBVIOUS
  <2> HIDE DEF f
  <2> QED BY <2>1
<1>2. ASSUME NEW n \in T PROVE n + 1 \in T
  <2>1. PICK f : f = [i \in 0 .. n |-> IF i = 0 THEN 0 ELSE f[i-1] + list[i].len]
    BY <1>2
  <2> DEFINE g == [i \in 0 .. n + 1 |-> IF i = n + 1 THEN f[n] + list[n + 1].len ELSE f[i]]
  <2>2. ASSUME NEW i \in 0 .. n + 1 PROVE g[i] = IF i = 0 THEN 0 ELSE g[i-1] + list[i].len
    <3>1. CASE i = n + 1
      <4>1. i # 0 /\ i - 1 = n /\ n \in 0 .. n + 1 /\ n # n + 1
        BY <3>1
      <4>2. g[n] = f[n] /\ g[i] = f[n] + list[i].len
        BY <3>1, <4>1
      <4> QED BY <4>1, <4>2
    <3>2. CASE i # n + 1
      <4>1. i \in 0 .. n /\ g[i] = f[i]
        BY <3>2
      <4>2. f[i] = IF i = 0 THEN 0 ELSE f[i-1] + list[i].len
        BY <2>1, <4>1
      <4>3. i # 0 => i - 1 \in 0 .. n + 1 /\ i - 1 # n + 1
        BY <4>1
      <4>4. i # 0 => g[i-1] = f[i-1]
        BY <4>3
      <4> QED BY <4>1, <4>2, <4>4
    <3> QED BY <3>1, <3>2
  <2>3. g = [i \in 0 .. n + 1 |-> IF i = 0 THEN 0 ELSE g[i-1] + list[i].len]
    BY <2>2
  <2>4. n + 1 \in Nat
    OBVIOUS
  <2> HIDE DEF g
  <2>5. \E h : h = [i \in 0 .. n + 1 |-> IF i = 0 THEN 0 ELSE h[i-1] + list[i].len]
    BY <2>3
  <2> QED BY <2>4, <2>5
<1>3. T = Nat
  <2>1. T \in SUBSET Nat
    OBVIOUS
  <2> HIDE DEF T
  <2> QED BY <2>1, <1>1, <1>2, NatSetInduction
<1>4. \E f : f = [i \in 0 .. Len(list) |-> IF i = 0 THEN 0 ELSE f[i-1] + list[i].len]
  BY <1>3
<1> DEFINE upTo == CHOOSE f : f = [i \in 0 .. Len(list) |-> IF i = 0 THEN 0 ELSE f[i-1] + list[i].len]
<1>5. IsSums(upTo, list)
  BY <1>4 DEF IsSums
<1>6. Offset(list) = upTo[Len(list)]
  BY DEF Offset
<1> QED BY <1>5, <1>6

\* The offset depends on the extents listed, no matter what lists them.
LEMMA OffsetOf ==
    ASSUME NEW s, NEW t, Len(s) \in Nat, Len(t) = Len(s), \A i \in 1 .. Len(s) : s[i] = t[i]
    PROVE  Offset(s) = Offset(t)
<1>1. PICK f : IsSums(f, s) /\ Offset(s) = f[Len(s)]
  BY SumsExist
<1>2. PICK g : IsSums(g, t) /\ Offset(t) = g[Len(t)]
  BY SumsExist
<1>3. \A i \in 0 .. Len(s) : f[i] = g[i]
  BY <1>1, <1>2, SumsAgree
<1> QED BY <1>1, <1>2, <1>3

LEMMA OffsetEmpty == Offset(<<>>) = 0
<1>1. Len(<<>>) = 0
  OBVIOUS
<1>2. PICK f : IsSums(f, <<>>) /\ Offset(<<>>) = f[Len(<<>>)]
  BY <1>1, SumsExist
<1> QED BY <1>1, <1>2 DEF IsSums

LEMMA OffsetAppend ==
    ASSUME NEW S, NEW s \in Seq(S), NEW x \in S
    PROVE  Offset(Append(s, x)) = Offset(s) + x.len
<1> DEFINE t == Append(s, x)
<1>1. Len(s) \in Nat /\ Len(t) = Len(s) + 1 /\ t[Len(s) + 1] = x /\ \A i \in 1 .. Len(s) : s[i] = t[i]
  OBVIOUS
<1> HIDE DEF t
<1>2. PICK f : IsSums(f, s) /\ Offset(s) = f[Len(s)]
  BY <1>1, SumsExist
<1>3. PICK g : IsSums(g, t) /\ Offset(t) = g[Len(t)]
  BY <1>1, SumsExist
<1>4. \A i \in 0 .. Len(s) : f[i] = g[i]
  BY <1>1, <1>2, <1>3, SumsAgree
<1>5. g[Len(s) + 1] = g[Len(s)] + t[Len(s) + 1].len
  <2>1. Len(s) + 1 \in 0 .. Len(t) /\ Len(s) + 1 # 0 /\ (Len(s) + 1) - 1 = Len(s)
    BY <1>1
  <2> QED BY <1>3, <2>1 DEF IsSums
<1>6. Offset(t) = Offset(s) + x.len
  BY <1>1, <1>2, <1>3, <1>4, <1>5
<1> QED BY <1>6 DEF t

LEMMA OffsetNat == ASSUME NEW s \in Seq(Extents) PROVE Offset(s) \in Nat
<1>1. Len(s) \in Nat /\ \A i \in 1 .. Len(s) : s[i].len \in Nat
  <2>1. \A i \in 1 .. Len(s) : s[i] \in Extents
    OBVIOUS
  <2> QED BY <2>1 DEF Extents
<1>2. PICK f : IsSums(f, s) /\ Offset(s) = f[Len(s)]
  BY <1>1, SumsExist
<1> DEFINE T == {n \in Nat : n <= Len(s) => f[n] \in Nat}
<1>3. 0 \in T
  BY <1>1, <1>2 DEF IsSums
<1>4. ASSUME NEW n \in T PROVE n + 1 \in T
  <2> SUFFICES ASSUME n + 1 <= Len(s) PROVE f[n + 1] \in Nat
    OBVIOUS
  <2>1. f[n] \in Nat /\ n + 1 \in 1 .. Len(s) /\ n + 1 # 0 /\ (n + 1) - 1 = n
    BY <1>1, <1>4
  <2>2. f[n + 1] = f[n] + s[n + 1].len
    BY <1>2, <2>1 DEF IsSums
  <2> QED BY <1>1, <2>1, <2>2
<1>5. T = Nat
  <2>1. T \in SUBSET Nat
    OBVIOUS
  <2> HIDE DEF T
  <2> QED BY <2>1, <1>3, <1>4, NatSetInduction
<1> QED BY <1>1, <1>2, <1>5
-----------------------------------------------------------------------------
(***************************************************************************)
(* Charting.  What is kept of a set of extents: a range for each of their  *)
(* offsets, to the end of one that is there, and nothing else.             *)
(***************************************************************************)
Bounded(terr) == \E b \in Nat : \A k \in DOMAIN terr : k <= b

IsMedium(id, med, X) == \E x \in X : Id[x.med] = id /\ med = x.med

IsFrom(id, k, end, X) == \E x \in X : Id[x.med] = id /\ k = x.off /\ end = x.off + x.len

Charts(geo, X) ==
    /\ DOMAIN geo.dMap = DOMAIN geo.plan
    /\ \A x \in X : Id[x.med] \in DOMAIN geo.plan /\ x.off \in DOMAIN geo.plan[Id[x.med]]
    /\ \A id \in DOMAIN geo.plan :
          /\ IsMedium(id, geo.dMap[id], X)
          /\ Bounded(geo.plan[id])
          /\ \A k \in DOMAIN geo.plan[id] : IsFrom(id, k, geo.plan[id][k], X)

LEMMA ChartedCharts ==
    ASSUME NEW geo, NEW X \in SUBSET Extents, Charts(geo, X), NEW x \in Extents
    PROVE  Charts(Charted(geo, x), X \cup {x})
<1> DEFINE id == Id[x.med]
           terr == IF id \in DOMAIN geo.plan THEN geo.plan[id] ELSE <<>>
           new == Charted(geo, x)
<1>1. x.off \in Nat /\ x.len \in Nat
  BY DEF Extents
<1>2. /\ new.plan = Put(geo.plan, id, Put(terr, x.off, x.off + x.len))
      /\ new.dMap = IF id \in DOMAIN geo.dMap THEN geo.dMap ELSE Put(geo.dMap, id, x.med)
  BY DEF Charted
<1>3. DOMAIN geo.dMap = DOMAIN geo.plan
  BY DEF Charts
<1> HIDE DEF new
<1>4. DOMAIN new.plan = DOMAIN geo.plan \cup {id} /\ DOMAIN new.dMap = DOMAIN new.plan
  BY <1>2, <1>3 DEF Put
<1>5. DOMAIN new.plan[id] = DOMAIN terr \cup {x.off} /\ new.plan[id][x.off] = x.off + x.len
      /\ \A k \in DOMAIN terr : k # x.off => new.plan[id][k] = terr[k]
  BY <1>2 DEF Put
<1>6. \A d \in DOMAIN geo.plan : d # id => new.plan[d] = geo.plan[d]
  BY <1>2 DEF Put
<1>7. \A d \in DOMAIN geo.plan : new.dMap[d] = geo.dMap[d]
  BY <1>2, <1>3 DEF Put
<1>8. id \notin DOMAIN geo.plan => new.dMap[id] = x.med /\ terr = <<>>
  BY <1>2, <1>3 DEF Put
<1>9. id \in DOMAIN geo.plan => terr = geo.plan[id]
  OBVIOUS
<1>10. \A k \in DOMAIN terr : IsFrom(id, k, terr[k], X)
  <2>1. CASE id \in DOMAIN geo.plan
    BY <1>9, <2>1 DEF Charts
  <2>2. CASE id \notin DOMAIN geo.plan
    BY <1>8, <2>2
  <2> QED BY <2>1, <2>2
<1>11. Bounded(terr)
  <2>1. CASE id \in DOMAIN geo.plan
    BY <1>9, <2>1 DEF Charts
  <2>2. CASE id \notin DOMAIN geo.plan
    BY <1>8, <2>2 DEF Bounded
  <2> QED BY <2>1, <2>2
<1>12. IsFrom(id, x.off, x.off + x.len, X \cup {x}) /\ IsMedium(id, x.med, X \cup {x})
  BY DEF IsFrom, IsMedium
<1>13. ASSUME NEW y \in X \cup {x}
       PROVE  Id[y.med] \in DOMAIN new.plan /\ y.off \in DOMAIN new.plan[Id[y.med]]
  <2>1. CASE y \in X
    <3>1. Id[y.med] \in DOMAIN geo.plan /\ y.off \in DOMAIN geo.plan[Id[y.med]]
      BY <2>1 DEF Charts
    <3>2. CASE Id[y.med] = id
      BY <1>4, <1>5, <1>9, <3>1, <3>2
    <3>3. CASE Id[y.med] # id
      BY <1>4, <1>6, <3>1, <3>3
    <3> QED BY <3>2, <3>3
  <2>2. CASE y = x
    BY <1>4, <1>5, <2>2
  <2> QED BY <2>1, <2>2
<1> HIDE DEF id, terr
<1>14. ASSUME NEW d \in DOMAIN new.plan
       PROVE  /\ IsMedium(d, new.dMap[d], X \cup {x})
              /\ Bounded(new.plan[d])
              /\ \A k \in DOMAIN new.plan[d] : IsFrom(d, k, new.plan[d][k], X \cup {x})
  <2>1. IsMedium(d, new.dMap[d], X \cup {x})
    <3>1. CASE d \in DOMAIN geo.plan
      <4>1. IsMedium(d, geo.dMap[d], X)
        BY <3>1 DEF Charts
      <4> QED BY <1>7, <3>1, <4>1 DEF IsMedium
    <3>2. CASE d \notin DOMAIN geo.plan
      <4>1. d = id
        BY <1>4, <3>2
      <4> QED BY <1>8, <1>12, <3>2, <4>1
    <3> QED BY <3>1, <3>2
  <2>2. CASE d # id
    <3>1. d \in DOMAIN geo.plan /\ new.plan[d] = geo.plan[d]
      BY <1>4, <1>6, <2>2
    <3>2. Bounded(geo.plan[d]) /\ \A k \in DOMAIN geo.plan[d] : IsFrom(d, k, geo.plan[d][k], X)
      BY <3>1 DEF Charts
    <3> QED BY <2>1, <3>1, <3>2 DEF IsFrom
  <2>3. CASE d = id
    <3>1. ASSUME NEW k \in DOMAIN new.plan[id] PROVE IsFrom(id, k, new.plan[id][k], X \cup {x})
      <4>1. CASE k = x.off
        BY <1>5, <1>12, <4>1
      <4>2. CASE k # x.off
        <5>1. k \in DOMAIN terr /\ new.plan[id][k] = terr[k]
          BY <1>5, <4>2
        <5> QED BY <1>10, <5>1 DEF IsFrom
      <4> QED BY <4>1, <4>2
    <3>2. Bounded(new.plan[id])
      <4>1. PICK b \in Nat : \A k \in DOMAIN terr : k <= b
        BY <1>11 DEF Bounded
      <4>2. \A k \in DOMAIN terr : k \in Nat
        <5> SUFFICES ASSUME NEW k \in DOMAIN terr PROVE k \in Nat
          OBVIOUS
        <5>1. PICK y \in X : y.off = k
          BY <1>10 DEF IsFrom
        <5> QED BY <5>1 DEF Extents
      <4>3. \A k \in DOMAIN terr : k <= b + x.off
        BY <1>1, <4>1, <4>2
      <4>4. x.off <= b + x.off /\ b + x.off \in Nat
        BY <1>1
      <4> QED BY <1>5, <4>3, <4>4 DEF Bounded
    <3> QED BY <2>1, <2>3, <3>1, <3>2
  <2> QED BY <2>2, <2>3
<1>15. Charts(new, X \cup {x})
  BY <1>4, <1>13, <1>14 DEF Charts
<1> QED BY <1>15 DEF new

LEMMA ChartingExists ==
    ASSUME NEW geo, NEW list, Len(list) \in Nat
    PROVE  LET upTo == ChartedUpTo(geo, list)
           IN  upTo = [i \in 0 .. Len(list) |->
                          IF i = 0 THEN geo ELSE Charted(upTo[i-1], list[i])]
<1> DEFINE T == {n \in Nat : \E f : f = [i \in 0 .. n |-> IF i = 0 THEN geo ELSE Charted(f[i-1], list[i])]}
<1>1. 0 \in T
  <2> DEFINE f == [i \in 0 .. 0 |-> geo]
  <2>1. f = [i \in 0 .. 0 |-> IF i = 0 THEN geo ELSE Charted(f[i-1], list[i])]
    OBVIOUS
  <2> HIDE DEF f
  <2> QED BY <2>1
<1>2. ASSUME NEW n \in T PROVE n + 1 \in T
  <2>1. PICK f : f = [i \in 0 .. n |-> IF i = 0 THEN geo ELSE Charted(f[i-1], list[i])]
    BY <1>2
  <2> DEFINE g == [i \in 0 .. n + 1 |-> IF i = n + 1 THEN Charted(f[n], list[n + 1]) ELSE f[i]]
  <2>2. ASSUME NEW i \in 0 .. n + 1 PROVE g[i] = IF i = 0 THEN geo ELSE Charted(g[i-1], list[i])
    <3>1. CASE i = n + 1
      <4>1. i # 0 /\ i - 1 = n /\ n \in 0 .. n + 1 /\ n # n + 1
        BY <3>1
      <4>2. g[n] = f[n] /\ g[i] = Charted(f[n], list[i])
        BY <3>1, <4>1
      <4> QED BY <4>1, <4>2
    <3>2. CASE i # n + 1
      <4>1. i \in 0 .. n /\ g[i] = f[i]
        BY <3>2
      <4>2. f[i] = IF i = 0 THEN geo ELSE Charted(f[i-1], list[i])
        BY <2>1, <4>1
      <4>3. i # 0 => i - 1 \in 0 .. n + 1 /\ i - 1 # n + 1
        BY <4>1
      <4>4. i # 0 => g[i-1] = f[i-1]
        BY <4>3
      <4> QED BY <4>1, <4>2, <4>4
    <3> QED BY <3>1, <3>2
  <2>3. g = [i \in 0 .. n + 1 |-> IF i = 0 THEN geo ELSE Charted(g[i-1], list[i])]
    BY <2>2
  <2>4. n + 1 \in Nat
    OBVIOUS
  <2> HIDE DEF g
  <2>5. \E h : h = [i \in 0 .. n + 1 |-> IF i = 0 THEN geo ELSE Charted(h[i-1], list[i])]
    BY <2>3
  <2> QED BY <2>4, <2>5
<1>3. T = Nat
  <2>1. T \in SUBSET Nat
    OBVIOUS
  <2> HIDE DEF T
  <2> QED BY <2>1, <1>1, <1>2, NatSetInduction
<1>4. \E f : f = [i \in 0 .. Len(list) |-> IF i = 0 THEN geo ELSE Charted(f[i-1], list[i])]
  BY <1>3
<1> QED BY <1>4 DEF ChartedUpTo

\* A list is charted extent by extent.
LEMMA ListCharts ==
    ASSUME NEW geo, NEW X \in SUBSET Extents, Charts(geo, X), NEW list \in Seq(Extents)
    PROVE  Charts(ChartedUpTo(geo, list)[Len(list)], X \cup ToSet(list))
<1> DEFINE upTo == ChartedUpTo(geo, list)
           Of(n) == X \cup {list[i] : i \in 1 .. n}
           T == {n \in Nat : n <= Len(list) => Charts(upTo[n], Of(n))}
<1>1. Len(list) \in Nat /\ DOMAIN list = 1 .. Len(list) /\ \A i \in 1 .. Len(list) : list[i] \in Extents
  OBVIOUS
<1>2. upTo = [i \in 0 .. Len(list) |-> IF i = 0 THEN geo ELSE Charted(upTo[i-1], list[i])]
  BY <1>1, ChartingExists
<1>3. ToSet(list) = {list[i] : i \in 1 .. Len(list)}
  BY <1>1 DEF ToSet
<1> HIDE DEF upTo
<1>4. 0 \in T
  <2>1. Of(0) = X
    OBVIOUS
  <2>2. upTo[0] = geo
    BY <1>1, <1>2
  <2> QED BY <2>1, <2>2
<1>5. ASSUME NEW n \in T PROVE n + 1 \in T
  <2> SUFFICES ASSUME n + 1 <= Len(list) PROVE Charts(upTo[n + 1], Of(n + 1))
    OBVIOUS
  <2>1. n + 1 \in 1 .. Len(list) /\ n + 1 # 0 /\ (n + 1) - 1 = n /\ Charts(upTo[n], Of(n))
    BY <1>1, <1>5
  <2>2. upTo[n + 1] = Charted(upTo[n], list[n + 1])
    BY <1>2, <2>1
  <2>3. Of(n + 1) = Of(n) \cup {list[n + 1]}
    BY <2>1
  <2>4. Of(n) \in SUBSET Extents /\ list[n + 1] \in Extents
    BY <1>1, <2>1
  <2> DEFINE Y == Of(n)
             y == list[n + 1]
             g == upTo[n]
  <2>6. Y \in SUBSET Extents /\ y \in Extents /\ Charts(g, Y)
    BY <2>1, <2>4
  <2>7. Of(n + 1) = Y \cup {y} /\ upTo[n + 1] = Charted(g, y)
    BY <2>2, <2>3
  <2> HIDE DEF Of, Y, y, g
  <2>8. Charts(Charted(g, y), Y \cup {y})
    BY <2>6, ChartedCharts
  <2> QED BY <2>7, <2>8
<1>6. T = Nat
  <2>1. T \in SUBSET Nat
    OBVIOUS
  <2> HIDE DEF T
  <2> QED BY <2>1, <1>4, <1>5, NatSetInduction
<1>7. Charts(upTo[Len(list)], Of(Len(list)))
  <2>1. Len(list) \in T
    <3> HIDE DEF T
    <3> QED BY <1>1, <1>6
  <2> QED BY <1>1, <2>1
<1> QED BY <1>3, <1>7 DEF upTo
-----------------------------------------------------------------------------
(***************************************************************************)
(* Merging leaves some of the ranges, each with the end of one of them.    *)
(* If the ranges are apart, all are covered by the last one left that does *)
(* not start behind them.                                                  *)
(***************************************************************************)
IsChart(t) ==
    /\ Bounded(t)
    /\ \A k \in DOMAIN t : k \in Nat /\ t[k] \in Nat /\ k <= t[k]

IsApart(t) == \A k, l \in DOMAIN t : k < l => t[k] <= l

LEMMA LastExists ==
    ASSUME NEW t, IsChart(t), NEW gap, NEW s \in Stays(t, gap)
    PROVE  \E e \in DOMAIN t : IsLastOf(t, gap, s, e)
<1> DEFINE E == {e \in DOMAIN t : s <= e /\ \A r \in Stays(t, gap) : r <= s \/ e < r}
<1>1. s \in DOMAIN t /\ Stays(t, gap) \subseteq DOMAIN t /\ DOMAIN t \subseteq Nat
  BY DEF Stays, IsChart
<1>2. s \in E /\ E \subseteq Nat
  <2>1. \A r \in Stays(t, gap) : r <= s \/ s < r
    BY <1>1
  <2>2. s <= s
    BY <1>1
  <2> QED BY <1>1, <2>1, <2>2
<1>3. PICK b \in Nat : \A k \in DOMAIN t : k <= b
  BY DEF IsChart, Bounded
<1>4. PICK e \in E : \A f \in E : f <= e
  <2>1. \A k \in E : k <= b
    BY <1>3
  <2> HIDE DEF E
  <2> QED BY <1>2, <2>1, GreatestOf
<1>5. ASSUME NEW n \in DOMAIN t, IsNextKey(t, e, n), n \notin Stays(t, gap) PROVE FALSE
  <2>1. e < n /\ \A j \in DOMAIN t : e < j => n <= j
    BY <1>5 DEF IsNextKey
  <2>2. e \in Nat /\ n \in Nat /\ s \in Nat
    BY <1>1, <1>2, <1>4
  <2>3. ASSUME NEW r \in Stays(t, gap) PROVE r <= s \/ n < r
    <3>1. r <= s \/ e < r
      BY <1>4
    <3>2. r \in DOMAIN t /\ r # n /\ r \in Nat
      BY <1>1, <1>5
    <3> QED BY <2>1, <2>2, <3>1, <3>2
  <2>4. s <= n
    BY <1>4, <2>1, <2>2
  <2>5. n \in E
    BY <2>3, <2>4
  <2>6. n <= e
    <3> HIDE DEF E
    <3> QED BY <1>4, <2>5
  <2> QED BY <2>1, <2>2, <2>6
<1>6. IsLastOf(t, gap, s, e)
  BY <1>4, <1>5 DEF IsLastOf
<1> QED BY <1>6 DEF IsLastOf

LEMMA MergedCovers ==
    ASSUME NEW t, IsChart(t), NEW gap
    PROVE  LET m == MergeResult(t, gap) IN
           /\ \A k \in DOMAIN m : k \in DOMAIN t /\ \E e \in DOMAIN t : k <= e /\ m[k] = t[e]
           /\ \A x \in DOMAIN t : \E k \in DOMAIN m : IsLastKeyUpTo(m, x, k) /\ (IsApart(t) => t[x] <= m[k])
<1> DEFINE m == MergeResult(t, gap)
           EndKey(k) == CHOOSE e \in DOMAIN t : IsLastOf(t, gap, k, e)
<1>1. DOMAIN m = Stays(t, gap) /\ \A k \in Stays(t, gap) : m[k] = t[EndKey(k)]
  BY DEF MergeResult
<1>2. Stays(t, gap) \subseteq DOMAIN t /\ DOMAIN t \subseteq Nat
  BY DEF Stays, IsChart
<1>3. ASSUME NEW k \in Stays(t, gap) PROVE EndKey(k) \in DOMAIN t /\ IsLastOf(t, gap, k, EndKey(k))
  BY LastExists
<1> HIDE DEF m, EndKey
<1>4. \A k \in DOMAIN m : k \in DOMAIN t /\ \E e \in DOMAIN t : k <= e /\ m[k] = t[e]
  BY <1>1, <1>2, <1>3 DEF IsLastOf
<1>5. ASSUME NEW x \in DOMAIN t
      PROVE  \E k \in DOMAIN m : IsLastKeyUpTo(m, x, k) /\ (IsApart(t) => t[x] <= m[k])
  <2> DEFINE S == {s \in Stays(t, gap) : s <= x}
  <2>1. x \in Nat
    BY <1>2
  <2>2. S # {} /\ S \subseteq Nat
    <3>1. PICK l \in DOMAIN t : \A y \in DOMAIN t : l <= y
      BY <1>2, LeastOf
    <3>2. l \in Stays(t, gap)
      <4> SUFFICES ASSUME NEW p \in DOMAIN t, p < l PROVE FALSE
        BY DEF Stays, IsNextKey
      <4>1. l <= p /\ l \in Nat /\ p \in Nat
        BY <1>2, <3>1
      <4> QED BY <4>1
    <3>3. l \in S
      BY <3>1, <3>2
    <3> QED BY <1>2, <3>3
  <2>3. PICK s \in S : \A r \in S : r <= s
    <3>1. \A r \in S : r <= x
      OBVIOUS
    <3> HIDE DEF S
    <3> QED BY <2>1, <2>2, <3>1, GreatestOf
  <2>4. s \in Stays(t, gap) /\ s <= x /\ s \in Nat /\ \A r \in Stays(t, gap) : r <= x => r <= s
    BY <2>2, <2>3
  <2>5. IsLastKeyUpTo(m, x, s)
    BY <1>1, <2>4 DEF IsLastKeyUpTo
  <2>6. PICK e \in DOMAIN t : IsLastOf(t, gap, s, e) /\ m[s] = t[e]
    BY <1>1, <1>3, <2>4
  <2>7. e \in Nat
    BY <1>2
  <2>8. x <= e
    <3> SUFFICES ASSUME e < x PROVE FALSE
      BY <2>1, <2>7
    <3> DEFINE N == {n \in DOMAIN t : e < n}
    <3>1. N \subseteq Nat /\ x \in N
      BY <1>2
    <3>2. PICK n \in N : \A y \in N : n <= y
      <4> HIDE DEF N
      <4> QED BY <3>1, LeastOf
    <3>3. n \in DOMAIN t /\ e < n /\ n <= x /\ n \in Nat
      BY <3>1, <3>2
    <3>4. IsNextKey(t, e, n)
      BY <3>2, <3>3 DEF IsNextKey
    <3>5. n \in Stays(t, gap) /\ s <= e
      BY <2>6, <3>3, <3>4 DEF IsLastOf
    <3>6. n <= s
      BY <2>4, <3>3, <3>5
    <3> QED BY <2>4, <2>7, <3>3, <3>5, <3>6
  <2>9. IsApart(t) => t[x] <= t[e]
    <3> SUFFICES ASSUME IsApart(t) PROVE t[x] <= t[e]
      OBVIOUS
    <3>1. t[x] \in Nat /\ t[e] \in Nat /\ e <= t[e] /\ (x < e => t[x] <= e)
      BY DEF IsApart, IsChart
    <3>2. x = e \/ x < e
      BY <2>1, <2>7, <2>8
    <3> QED BY <2>7, <3>1, <3>2
  <2> QED BY <1>1, <2>4, <2>5, <2>6, <2>9
<1> QED BY <1>4, <1>5 DEF m

\* The ranges of one medium, merged or not: they start and end as extents do,
\* and hold the extents if these are apart.
Within(terr, x, X) ==
    \E k \in DOMAIN terr :
        IsLastKeyUpTo(terr, x.off, k) /\ (Undivided(X) => x.off + x.len <= terr[k])

IsRange(id, k, end, X) ==
    /\ \E x \in X : Id[x.med] = id /\ k = x.off
    /\ \E x \in X : Id[x.med] = id /\ k <= x.off + x.len /\ end = x.off + x.len

Retains(terr, id, X) ==
    /\ \A x \in X : Id[x.med] = id => Within(terr, x, X)
    /\ \A k \in DOMAIN terr : IsRange(id, k, terr[k], X)

\* What is kept of the extents once the charts are merged.
Covers(geo, X) ==
    /\ DOMAIN geo.dMap = DOMAIN geo.plan
    /\ \A x \in X : Id[x.med] \in DOMAIN geo.plan
    /\ \A id \in DOMAIN geo.plan : IsMedium(id, geo.dMap[id], X) /\ Retains(geo.plan[id], id, X)

LEMMA ChartHolds ==
    ASSUME NEW geo, NEW X \in SUBSET Extents, Charts(geo, X), NEW id \in DOMAIN geo.plan, NEW gap
    PROVE  Retains(geo.plan[id], id, X) /\ Retains(MergeResult(geo.plan[id], gap), id, X)
<1> DEFINE t == geo.plan[id]
           m == MergeResult(t, gap)
<1>1. Bounded(t) /\ \A k \in DOMAIN t : IsFrom(id, k, t[k], X)
  BY DEF Charts
<1>2. \A x \in X : x.off \in Nat /\ x.len \in Nat
  BY DEF Extents
<1>3. \A x \in X : Id[x.med] = id => x.off \in DOMAIN t
  BY DEF Charts
<1> HIDE DEF t
<1>4. IsChart(t)
  <2> SUFFICES ASSUME NEW k \in DOMAIN t PROVE k \in Nat /\ t[k] \in Nat /\ k <= t[k]
    BY <1>1 DEF IsChart
  <2>1. PICK x \in X : k = x.off /\ t[k] = x.off + x.len
    BY <1>1 DEF IsFrom
  <2> QED BY <1>2, <2>1
<1>5. Undivided(X) => \A x \in X : Id[x.med] = id => t[x.off] = x.off + x.len
  <2> SUFFICES ASSUME Undivided(X), NEW x \in X, Id[x.med] = id PROVE t[x.off] = x.off + x.len
    OBVIOUS
  <2>1. PICK y \in X : Id[y.med] = id /\ x.off = y.off /\ t[x.off] = y.off + y.len
    BY <1>1, <1>3 DEF IsFrom
  <2>2. x = y
    BY <2>1 DEF Undivided
  <2> QED BY <2>1, <2>2
<1>6. Undivided(X) => IsApart(t)
  <2> SUFFICES ASSUME Undivided(X), NEW k \in DOMAIN t, NEW l \in DOMAIN t, k < l PROVE t[k] <= l
    BY DEF IsApart
  <2>1. PICK x \in X : Id[x.med] = id /\ k = x.off /\ t[k] = x.off + x.len
    BY <1>1 DEF IsFrom
  <2>2. PICK y \in X : Id[y.med] = id /\ l = y.off
    BY <1>1 DEF IsFrom
  <2>3. x.off \in Nat /\ y.off \in Nat /\ x.len \in Nat /\ y.len \in Nat
    BY <1>2
  <2>4. x # y
    BY <2>1, <2>2, <2>3
  <2>5. x.off + x.len <= y.off \/ y.off + y.len <= x.off
    BY <2>1, <2>2, <2>4 DEF Undivided
  <2> QED BY <2>1, <2>2, <2>3, <2>5
<1>7. /\ \A k \in DOMAIN m : k \in DOMAIN t /\ \E e \in DOMAIN t : k <= e /\ m[k] = t[e]
      /\ \A x \in DOMAIN t : \E k \in DOMAIN m :
             IsLastKeyUpTo(m, x, k) /\ (IsApart(t) => t[x] <= m[k])
  BY <1>4, MergedCovers
<1> HIDE DEF m
<1>8. ASSUME NEW k \in DOMAIN t, NEW e \in DOMAIN t, k <= e PROVE IsRange(id, k, t[e], X)
  <2>1. PICK x \in X : Id[x.med] = id /\ e = x.off /\ t[e] = x.off + x.len
    BY <1>1 DEF IsFrom
  <2>2. \E y \in X : Id[y.med] = id /\ k = y.off
    BY <1>1 DEF IsFrom
  <2>3. e \in Nat /\ k \in Nat
    BY <1>4 DEF IsChart
  <2>4. k <= x.off + x.len
    BY <1>2, <1>8, <2>1, <2>3
  <2> QED BY <2>1, <2>2, <2>4 DEF IsRange
<1>9. Retains(t, id, X)
  <2>1. ASSUME NEW x \in X, Id[x.med] = id PROVE Within(t, x, X)
    <3>1. x.off \in DOMAIN t /\ IsLastKeyUpTo(t, x.off, x.off)
      BY <1>2, <1>3, <2>1 DEF IsLastKeyUpTo
    <3>2. Undivided(X) => x.off + x.len <= t[x.off]
      BY <1>2, <1>5, <2>1
    <3> QED BY <3>1, <3>2 DEF Within
  <2>2. ASSUME NEW k \in DOMAIN t PROVE IsRange(id, k, t[k], X)
    <3>1. k \in Nat /\ k <= k
      BY <1>4 DEF IsChart
    <3> QED BY <1>8, <3>1
  <2> QED BY <2>1, <2>2 DEF Retains
<1>10. Retains(m, id, X)
  <2>1. ASSUME NEW x \in X, Id[x.med] = id PROVE Within(m, x, X)
    <3>1. PICK k \in DOMAIN m : IsLastKeyUpTo(m, x.off, k) /\ (IsApart(t) => t[x.off] <= m[k])
      BY <1>3, <1>7, <2>1
    <3>2. Undivided(X) => x.off + x.len <= m[k]
      BY <1>5, <1>6, <2>1, <3>1
    <3> QED BY <3>1, <3>2 DEF Within
  <2>2. ASSUME NEW k \in DOMAIN m PROVE IsRange(id, k, m[k], X)
    <3>1. PICK e \in DOMAIN t : k <= e /\ m[k] = t[e]
      BY <1>7
    <3> QED BY <1>7, <1>8, <3>1
  <2> QED BY <2>1, <2>2 DEF Retains
<1> QED BY <1>9, <1>10 DEF t, m
-----------------------------------------------------------------------------
(***************************************************************************)
(* Writing.  What is appended to the planner comes to lie behind what is   *)
(* there, which stays where it is.                                         *)
(***************************************************************************)
IsList(list) == \E S : list \in Seq(S)

PlacedAt(list, x, at) == \E i \in DOMAIN list : list[i] = x /\ Offset(SubSeq(list, 1, i - 1)) = at

\* What is listed stays where it is.
Extends(list, old) == IsList(list) /\ \A x, at : PlacedAt(old, x, at) => PlacedAt(list, x, at)

LEMMA FrontOf ==
    ASSUME NEW S, NEW s \in Seq(S), NEW x \in S, NEW i \in 1 .. Len(s) + 1
    PROVE  Offset(SubSeq(Append(s, x), 1, i - 1)) = Offset(SubSeq(s, 1, i - 1))
<1> DEFINE t == Append(s, x)
           u == SubSeq(t, 1, i - 1)
           v == SubSeq(s, 1, i - 1)
<1>1. Len(s) \in Nat /\ Len(t) = Len(s) + 1 /\ t \in Seq(S) /\ \A j \in 1 .. Len(s) : s[j] = t[j]
  OBVIOUS
<1>2. i - 1 \in 0 .. Len(s)
  BY <1>1
<1> HIDE DEF t
<1>3. Len(u) = i - 1 /\ \A j \in 1 .. i - 1 : u[j] = t[j]
  BY <1>1, <1>2, SubSeqProperties
<1>4. Len(v) = i - 1 /\ \A j \in 1 .. i - 1 : v[j] = s[j]
  BY <1>1, <1>2, SubSeqProperties
<1>5. \A j \in 1 .. i - 1 : u[j] = v[j] /\ Len(u) \in Nat
  BY <1>1, <1>2, <1>3, <1>4
<1> HIDE DEF u, v
<1>6. Offset(u) = Offset(v)
  BY <1>2, <1>3, <1>4, <1>5, OffsetOf
<1> QED BY <1>6 DEF u, v, t

LEMMA AppendKeeps ==
    ASSUME NEW s, IsList(s), NEW x
    PROVE  Extends(Append(s, x), s)
<1>1. PICK S : s \in Seq(S)
  BY DEF IsList
<1> DEFINE R == S \cup {x}
           t == Append(s, x)
<1>2. s \in Seq(R) /\ x \in R /\ t \in Seq(R)
  BY <1>1
<1>3. ASSUME NEW y, NEW at, PlacedAt(s, y, at) PROVE PlacedAt(t, y, at)
  <2>1. PICK i \in DOMAIN s : s[i] = y /\ Offset(SubSeq(s, 1, i - 1)) = at
    BY <1>3 DEF PlacedAt
  <2>2. i \in 1 .. Len(s) + 1 /\ i \in DOMAIN t /\ t[i] = y
    BY <1>2, <2>1
  <2> HIDE DEF R
  <2>3. Offset(SubSeq(t, 1, i - 1)) = at
    BY <1>2, <2>1, <2>2, FrontOf
  <2> QED BY <2>2, <2>3 DEF PlacedAt
<1> QED BY <1>2, <1>3 DEF IsList, Extends

LEMMA AppendedKeeps ==
    ASSUME NEW s, IsList(s), NEW x
    PROVE  Extends(Appended(s, x), s)
BY AppendKeeps DEF Appended, Extends

LEMMA AppendedIs ==
    ASSUME NEW s \in Seq(Extents), NEW x \in Extents
    PROVE  /\ Appended(s, x) \in Seq(Extents) /\ Offset(Appended(s, x)) = Offset(s) + x.len
           /\ x.len > 0 => PlacedAt(Appended(s, x), x, Offset(s))
<1>1. Offset(s) \in Nat /\ x.len \in Nat
  BY OffsetNat DEF Extents
<1>2. CASE x.len = 0
  BY <1>1, <1>2 DEF Appended
<1>3. CASE x.len # 0
  <2> DEFINE t == Append(s, x)
             n == Len(s) + 1
  <2>1. Appended(s, x) = t /\ t \in Seq(Extents) /\ Offset(t) = Offset(s) + x.len
    BY <1>3, OffsetAppend DEF Appended
  <2>2. n \in 1 .. Len(s) + 1 /\ n \in DOMAIN t /\ t[n] = x /\ n - 1 = Len(s)
    OBVIOUS
  <2>3. Offset(SubSeq(t, 1, n - 1)) = Offset(SubSeq(s, 1, n - 1))
    BY <2>2, FrontOf
  <2>4. SubSeq(s, 1, Len(s)) = s
    BY SubSeqFull
  <2>5. PlacedAt(t, x, Offset(s))
    <3> HIDE DEF t
    <3> QED BY <2>2, <2>3, <2>4 DEF PlacedAt
  <2> QED BY <2>1, <2>5
<1> QED BY <1>2, <1>3

LEMMA PadToIs ==
    ASSUME NEW s \in Seq(Extents), NEW b \in Nat \ {0}
    PROVE  /\ PadTo(s, b) \in Seq(Extents) /\ Offset(PadTo(s, b)) \in Nat /\ Offset(PadTo(s, b)) % b = 0
           /\ \A y, at : PlacedAt(s, y, at) => PlacedAt(PadTo(s, b), y, at)
<1> DEFINE pad == (b - (Offset(s) % b)) % b
           x == Extent(Zero, 0, pad)
<1>1. Offset(s) \in Nat
  BY OffsetNat
<1>2. pad \in Nat /\ (Offset(s) + pad) % b = 0
  BY <1>1, Padding
<1>3. PadTo(s, b) = Appended(s, x)
  BY DEF PadTo
<1> HIDE DEF pad
<1>4. x \in Extents /\ x.len = pad
  BY <1>2, GeometryAssumption DEF Extent, Extents
<1> HIDE DEF x
<1>5. Appended(s, x) \in Seq(Extents) /\ Offset(Appended(s, x)) = Offset(s) + pad
  BY <1>4, AppendedIs
<1>6. IsList(s)
  BY DEF IsList
<1> QED BY <1>1, <1>2, <1>3, <1>5, <1>6, AppendedKeeps DEF Extends
-----------------------------------------------------------------------------
(***************************************************************************)
(* The invariant.  Up to the choice of a block size the extents are        *)
(* charted; from merging on, the charts hold them, and each range that is  *)
(* written starts on a block of the planner and is listed there.           *)
(***************************************************************************)
Geo == [dMap |-> dMap, plan |-> plan]

Laid == stage \in {"optimized", "planned", "burnt"}

GeoTyped ==
    /\ stage \in {"crawl", "adjusted", "aborted"} \/ Laid
    /\ mapped \in BOOLEAN /\ tree \in IF mapped THEN ExtentTrees ELSE FileTrees
    /\ DOMAIN layout \subseteq Files /\ \A f \in DOMAIN layout : layout[f] = tree[f]
    /\ \A f \in DOMAIN layout : MaskBits(layout[f]) \subseteq mask

Sized ==
    stage = "adjusted" \/ Laid =>
        /\ DOMAIN layout = Files
        /\ blkSz \in SizeRange /\ \A m \in mask : m % blkSz = 0

Charting == stage \in {"crawl", "adjusted"} => Charts(Geo, FileExtents) /\ cols = <<>>

\* A range that was written.
Column(id, k) ==
    /\ cols[id][k] \in Nat /\ cols[id][k] % blkSz = 0
    /\ k < plan[id][k] => PlacedAt(out, Extent(dMap[id], k, plan[id][k] - k), cols[id][k])

Columns ==
    /\ DOMAIN cols \subseteq DOMAIN plan
    /\ \A id \in DOMAIN cols : \A k \in DOMAIN cols[id] : k \in DOMAIN plan[id] /\ Column(id, k)

Writing ==
    Laid => /\ Covers(Geo, FileExtents)
            /\ area \in Nat /\ area % blkSz = 0
            /\ IsList(out) /\ Columns

Cursor == stage = "optimized" => out \in Seq(Extents) /\ Offset(out) \in Nat /\ Offset(out) % blkSz = 0

Finished ==
    stage \in {"planned", "burnt"} =>
        \A id \in DOMAIN plan : \A k \in DOMAIN plan[id] : id \in DOMAIN cols /\ k \in DOMAIN cols[id]

Burnt ==
    stage = "burnt" /\ mapped =>
        table = [i \in DOMAIN out |-> Target(Offset(SubSeq(out, 1, i - 1)), out[i])]

GeoInv == GeoTyped /\ Sized /\ Charting /\ Writing /\ Cursor /\ Finished /\ Burnt

\* The trees are typed, and so are the extents of the files crawled.
LEMMA TreeTyped ==
    ASSUME GeoTyped
    PROVE  /\ \A f \in Files : tree[f] \in Seq(Extents)
           /\ FileExtents \subseteq Extents
           /\ \A f \in DOMAIN layout : \A i \in DOMAIN layout[f] :
                 layout[f][i] \in FileExtents /\ layout[f][i] \in Extents
           /\ \A x \in FileExtents : \E f \in DOMAIN layout : \E i \in DOMAIN layout[f] : x = layout[f][i]
<1>1. tree \in ExtentTrees \cup FileTrees
  BY DEF GeoTyped
<1>2. tree \in [Files -> Seq(Extents)]
  BY <1>1, GeometryAssumption
<1>3. \A f \in DOMAIN layout : f \in Files /\ layout[f] \in Seq(Extents)
  BY <1>2 DEF GeoTyped
<1>4. \A f \in DOMAIN layout : \A i \in DOMAIN layout[f] : layout[f][i] \in Extents
  BY <1>3
<1>5. \A x \in FileExtents : \E f \in DOMAIN layout : \E i \in DOMAIN layout[f] : x = layout[f][i]
  BY DEF FileExtents, ToSet
<1>6. \A f \in DOMAIN layout : \A i \in DOMAIN layout[f] : layout[f][i] \in FileExtents
  BY DEF FileExtents, ToSet
<1>7. FileExtents \subseteq Extents
  BY <1>4, <1>5
<1> QED BY <1>2, <1>4, <1>5, <1>6, <1>7

LEMMA InitGeoInv == Init => GeoInv
<1> SUFFICES ASSUME Init PROVE GeoInv
  OBVIOUS
<1>1. stage = "crawl" /\ DOMAIN layout = {} /\ ~Laid
  BY DEF Init, Laid
<1>2. GeoTyped
  BY <1>1 DEF GeoTyped, Init
<1>3. FileExtents = {}
  BY <1>1 DEF FileExtents
<1>4. DOMAIN Geo.plan = {} /\ DOMAIN Geo.dMap = {} /\ cols = <<>>
  BY DEF Init, Geo
<1>5. Charting
  BY <1>3, <1>4 DEF Charting, Charts
<1> QED BY <1>1, <1>2, <1>5 DEF GeoInv, Sized, Writing, Cursor, Finished, Burnt

LEMMA CrawlGeoInv == ASSUME GeoInv, NEW f \in Files, OnFileFd(f) PROVE GeoInv'
<1>1. /\ stage = "crawl" /\ stage' = "crawl" /\ f \notin DOMAIN layout
      /\ layout' = Put(layout, f, tree[f]) /\ mapped' = mapped /\ tree' = tree
      /\ mask' = mask \cup MaskBits(tree[f]) /\ cols' = cols
  BY DEF OnFileFd, config
<1>2. GeoTyped /\ cols = <<>> /\ Charts(Geo, FileExtents)
  BY <1>1 DEF GeoInv, Charting
<1> DEFINE list == tree[f]
           new == ChartedUpTo(Geo, list)[Len(list)]
<1>3. list \in Seq(Extents) /\ FileExtents \subseteq Extents
  BY <1>2, TreeTyped
<1>4. dMap' = new.dMap /\ plan' = new.plan
  BY DEF OnFileFd, Geo
<1>5. Charts(new, FileExtents \cup ToSet(list))
  <2> HIDE DEF list
  <2> QED BY <1>2, <1>3, ListCharts
<1>6. /\ DOMAIN layout' = DOMAIN layout \cup {f} /\ layout'[f] = list
      /\ \A g \in DOMAIN layout : layout'[g] = layout[g]
  BY <1>1 DEF Put
<1>7. FileExtents' = FileExtents \cup ToSet(list)
  <2>1. FileExtents' = UNION {ToSet(layout'[g]) : g \in DOMAIN layout'}
    BY DEF FileExtents
  <2>2. ASSUME NEW x PROVE x \in FileExtents' <=> x \in FileExtents \cup ToSet(list)
    <3>1. x \in FileExtents' <=> \E g \in DOMAIN layout' : x \in ToSet(layout'[g])
      BY <2>1
    <3>2. x \in FileExtents <=> \E g \in DOMAIN layout : x \in ToSet(layout[g])
      BY DEF FileExtents
    <3> HIDE DEF list
    <3> QED BY <1>6, <3>1, <3>2
  <2> QED BY <2>2
<1>8. Charts(Geo, FileExtents)'
  <2>1. Geo'.dMap = new.dMap /\ Geo'.plan = new.plan
    BY <1>4 DEF Geo
  <2>2. Charts(Geo', FileExtents \cup ToSet(list))
    <3> HIDE DEF new, list
    <3> QED BY <1>5, <2>1 DEF Charts
  <2> QED BY <1>7, <2>2
<1>9. GeoTyped'
  <2>1. ASSUME NEW g \in DOMAIN layout' PROVE layout'[g] = tree[g] /\ MaskBits(layout'[g]) \subseteq mask'
    <3>1. CASE g = f
      BY <1>1, <1>6, <3>1
    <3>2. CASE g # f
      <4>1. g \in DOMAIN layout /\ layout'[g] = layout[g]
        BY <1>6, <3>2
      <4> QED BY <1>1, <1>2, <4>1 DEF GeoTyped
    <3> QED BY <3>1, <3>2
  <2>2. \A g \in DOMAIN layout' : MaskBits(layout[g])' = MaskBits(layout'[g])
    BY DEF MaskBits
  <2>3. mapped' \in BOOLEAN /\ tree' \in (IF mapped' THEN ExtentTrees ELSE FileTrees)
        /\ DOMAIN layout' \subseteq Files
    BY <1>1, <1>2, <1>6 DEF GeoTyped
  <2> QED BY <1>1, <2>1, <2>2, <2>3 DEF GeoTyped
<1>10. ~Laid' /\ stage' # "adjusted"
  BY <1>1 DEF Laid
<1> QED BY <1>1, <1>2, <1>8, <1>9, <1>10 DEF GeoInv, Sized, Charting, Writing, Cursor, Finished, Burnt

\* The size that is chosen is one of those that are allowed.
LEMMA ChosenIsAllowed ==
    ASSUME Allowed # {}, NEW want \in Nat
    PROVE  Chosen(want) \in Allowed
<1>1. Allowed \subseteq Nat
  BY GeometryAssumption DEF Allowed
<1>2. \E x \in Allowed : \A y \in Allowed : x <= y
  BY <1>1, LeastOf
<1>3. Min(Allowed) \in Allowed
  BY <1>2 DEF Min
<1>4. (\A b \in Allowed : b < want) => Max(Allowed) \in Allowed
  <2> SUFFICES ASSUME \A b \in Allowed : b < want PROVE Max(Allowed) \in Allowed
    OBVIOUS
  <2>1. \A b \in Allowed : b <= want
    BY <1>1
  <2>2. PICK x \in Allowed : \A y \in Allowed : y <= x
    BY <1>1, <2>1, GreatestOf
  <2>3. \A y \in Allowed : x >= y
    BY <1>1, <2>2
  <2> QED BY <2>3 DEF Max
<1> QED BY <1>3, <1>4 DEF Chosen

LEMMA AdjustGeoInv == ASSUME GeoInv, Adjust PROVE GeoInv'
<1>1. /\ stage = "crawl" /\ DOMAIN layout = Files /\ stage' \in {"aborted", "adjusted"}
      /\ layout' = layout /\ dMap' = dMap /\ plan' = plan /\ mask' = mask /\ cols' = cols
      /\ mapped' = mapped /\ tree' = tree
  BY DEF Adjust, config
<1>2. GeoTyped /\ cols = <<>> /\ Charts(Geo, FileExtents)
  BY <1>1 DEF GeoInv, Charting
<1>3. GeoTyped'
  <2>1. \A f \in DOMAIN layout : MaskBits(layout[f])' = MaskBits(layout[f])
    BY <1>1 DEF MaskBits
  <2> QED BY <1>1, <1>2, <2>1 DEF GeoTyped
<1>4. stage' = "adjusted" => blkSz' \in SizeRange /\ \A m \in mask : m % blkSz' = 0
  <2> SUFFICES ASSUME stage' = "adjusted" PROVE blkSz' \in Allowed
    BY DEF Allowed
  <2>1. Allowed # {} /\ \E want \in Wants : blkSz' = Chosen(want)
    BY DEF Adjust
  <2> QED BY <2>1, ChosenIsAllowed, GeometryAssumption
<1>5. Charts(Geo, FileExtents)'
  BY <1>1, <1>2 DEF Geo, FileExtents, Charts, Bounded, IsFrom, IsMedium, ToSet
<1>6. ~Laid'
  BY <1>1 DEF Laid
<1> QED BY <1>1, <1>2, <1>3, <1>4, <1>5, <1>6 DEF GeoInv, Sized, Charting, Writing, Cursor, Finished, Burnt

LEMMA OptimizeGeoInv ==
    ASSUME GeoInv, NEW head \in Seq(Extents), OptimizeBehind(head) PROVE GeoInv'
<1>1. /\ stage = "adjusted" /\ stage' = "optimized" /\ out' = PadTo(head, blkSz) /\ area' = Offset(out')
      /\ layout' = layout /\ dMap' = dMap /\ mask' = mask /\ cols' = cols /\ blkSz' = blkSz
      /\ mapped' = mapped /\ tree' = tree
      /\ plan' = [id \in DOMAIN plan |->
                     IF dMap[id] \in Disks THEN MergeResult(plan[id], Gap) ELSE plan[id]]
  BY DEF OptimizeBehind, config
<1>2. /\ GeoTyped /\ cols = <<>> /\ Charts(Geo, FileExtents) /\ DOMAIN layout = Files
      /\ blkSz \in SizeRange /\ \A m \in mask : m % blkSz = 0
  BY <1>1 DEF GeoInv, Charting, Sized
<1>3. blkSz \in Nat \ {0}
  BY <1>2, GeometryAssumption
<1>4. GeoTyped'
  <2>1. \A f \in DOMAIN layout : MaskBits(layout[f])' = MaskBits(layout[f])
    BY <1>1 DEF MaskBits
  <2> QED BY <1>1, <1>2, <2>1 DEF GeoTyped, Laid
<1>5. FileExtents' = FileExtents /\ FileExtents \subseteq Extents
  <2>1. FileExtents' = FileExtents
    BY <1>1 DEF FileExtents, ToSet
  <2> QED BY <1>2, <2>1, TreeTyped
<1>6. Covers(Geo, FileExtents)'
  <2> DEFINE X == FileExtents
             g == Geo
             h == Geo'
  <2>1. DOMAIN h.plan = DOMAIN g.plan /\ h.dMap = g.dMap /\ DOMAIN g.dMap = DOMAIN g.plan
        /\ \A id \in DOMAIN g.plan : h.plan[id] \in {g.plan[id], MergeResult(g.plan[id], Gap)}
    BY <1>1, <1>2 DEF Geo, Charts
  <2>2. X \in SUBSET Extents /\ Charts(g, X)
    BY <1>2, <1>5
  <2> HIDE DEF X, g, h
  <2>3. ASSUME NEW id \in DOMAIN h.plan PROVE IsMedium(id, h.dMap[id], X) /\ Retains(h.plan[id], id, X)
    <3>1. IsMedium(id, g.dMap[id], X)
      BY <2>1, <2>2 DEF Charts
    <3>2. Retains(g.plan[id], id, X) /\ Retains(MergeResult(g.plan[id], Gap), id, X)
      BY <2>1, <2>2, ChartHolds
    <3> QED BY <2>1, <3>1, <3>2
  <2>4. Covers(h, X)
    BY <2>1, <2>2, <2>3 DEF Charts, Covers
  <2> QED BY <1>5, <2>4 DEF X, h
<1>7. /\ out' \in Seq(Extents) /\ Offset(out)' \in Nat /\ Offset(out)' % blkSz = 0
  <2>1. PadTo(head, blkSz) \in Seq(Extents) /\ Offset(PadTo(head, blkSz)) \in Nat
        /\ Offset(PadTo(head, blkSz)) % blkSz = 0
    BY <1>3, PadToIs
  <2>2. Offset(out)' = Offset(out')
    BY DEF Offset
  <2> QED BY <1>1, <2>1, <2>2
<1>8. area' \in Nat /\ area' % blkSz' = 0
  <2>1. Offset(out)' = Offset(out')
    BY DEF Offset
  <2> QED BY <1>1, <1>7, <2>1
<1>9. IsList(out)' /\ Columns'
  <2>1. \E S : out' \in Seq(S)
    BY <1>7
  <2>2. DOMAIN cols' = {}
    BY <1>1, <1>2
  <2> QED BY <2>1, <2>2 DEF IsList, Columns
<1> QED BY <1>1, <1>2, <1>4, <1>6, <1>7, <1>8, <1>9
        DEF GeoInv, Sized, Charting, Writing, Cursor, Finished, Burnt, Laid

\* The next range to write is one of those that are pending.
LEMMA NextPending ==
    ASSUME GeoInv, Laid, Pending # {}
    PROVE  LET id == Min({p[1] : p \in Pending})
               k == Min({p[2] : p \in {q \in Pending : q[1] = id}})
           IN  id \in DOMAIN plan /\ k \in DOMAIN plan[id] /\ k \notin Written(id)
<1> DEFINE I == {p[1] : p \in Pending}
           id == Min(I)
           K == {p[2] : p \in {q \in Pending : q[1] = id}}
           k == Min(K)
<1>1. Covers(Geo, FileExtents) /\ GeoTyped
  BY DEF GeoInv, Writing
<1>2. FileExtents \subseteq Extents
  BY <1>1, TreeTyped
<1>3. \A p \in Pending : p[1] \in DOMAIN plan /\ p[2] \in DOMAIN plan[p[1]] /\ p[2] \notin Written(p[1])
  BY DEF Pending
<1>4. ASSUME NEW d \in DOMAIN plan PROVE d \in Nat /\ DOMAIN plan[d] \subseteq Nat
  <2>1. (\E x \in FileExtents : Id[x.med] = d) /\ \A l \in DOMAIN plan[d] : IsRange(d, l, plan[d][l], FileExtents)
    BY <1>1 DEF Covers, Geo, IsMedium, Retains
  <2>2. \A x \in FileExtents : x.med \in Media /\ x.off \in Nat
    BY <1>2 DEF Extents
  <2>3. d \in Nat
    BY <2>1, <2>2, GeometryAssumption
  <2>4. DOMAIN plan[d] \subseteq Nat
    BY <2>1, <2>2 DEF IsRange
  <2> QED BY <2>3, <2>4
<1>5. I \subseteq Nat /\ I # {}
  BY <1>3, <1>4
<1> HIDE DEF I
<1>6. id \in I
  <2>1. \E x \in I : \A y \in I : x <= y
    BY <1>5, LeastOf
  <2> QED BY <2>1 DEF Min
<1> HIDE DEF id
<1>7. K \subseteq Nat /\ K # {}
  BY <1>3, <1>4, <1>6 DEF I
<1> HIDE DEF K
<1>8. k \in K
  <2>1. \E x \in K : \A y \in K : x <= y
    BY <1>7, LeastOf
  <2> QED BY <2>1 DEF Min
<1> HIDE DEF k
<1>9. id \in DOMAIN plan /\ k \in DOMAIN plan[id] /\ k \notin Written(id)
  BY <1>3, <1>8 DEF K
<1> QED BY <1>9 DEF I, id, K, k

LEMMA WriteGeoInv == ASSUME GeoInv, WriteRange PROVE GeoInv'
<1> DEFINE id == Min({p[1] : p \in Pending})
           k == Min({p[2] : p \in {q \in Pending : q[1] = id}})
           terr == IF id \in DOMAIN cols THEN cols[id] ELSE <<>>
           x == Extent(dMap[id], k, plan[id][k] - k)
           mid == Appended(out, x)
<1>1. /\ stage = "optimized" /\ stage' = "optimized" /\ Pending # {} /\ Laid
      /\ layout' = layout /\ dMap' = dMap /\ plan' = plan /\ mask' = mask /\ blkSz' = blkSz
      /\ area' = area /\ mapped' = mapped /\ tree' = tree
  BY DEF WriteRange, config, Laid
<1>2. cols' = Put(cols, id, Put(terr, k, Offset(out))) /\ out' = PadTo(mid, blkSz)
  BY DEF WriteRange
<1>3. id \in DOMAIN plan /\ k \in DOMAIN plan[id]
  BY <1>1, NextPending
<1> HIDE DEF id, k
<1>4. /\ GeoTyped /\ Covers(Geo, FileExtents) /\ Columns /\ area \in Nat /\ area % blkSz = 0
      /\ out \in Seq(Extents) /\ Offset(out) \in Nat /\ Offset(out) % blkSz = 0
      /\ DOMAIN layout = Files /\ blkSz \in SizeRange /\ \A m \in mask : m % blkSz = 0
  BY <1>1 DEF GeoInv, Writing, Cursor, Sized
<1>5. blkSz \in Nat \ {0}
  BY <1>4, GeometryAssumption
<1>6. x \in Extents /\ x.len = plan[id][k] - k /\ k \in Nat /\ plan[id][k] \in Nat
  <2>1. FileExtents \subseteq Extents
    BY <1>4, TreeTyped
  <2>2. IsMedium(id, dMap[id], FileExtents) /\ IsRange(id, k, plan[id][k], FileExtents)
    BY <1>3, <1>4 DEF Covers, Geo, Retains
  <2>3. dMap[id] \in Media
    BY <2>1, <2>2 DEF IsMedium, Extents
  <2>4. k \in Nat
    BY <2>1, <2>2 DEF IsRange, Extents
  <2>5. plan[id][k] \in Nat /\ k <= plan[id][k]
    <3>1. PICK y \in FileExtents : k <= y.off + y.len /\ plan[id][k] = y.off + y.len
      BY <2>2 DEF IsRange
    <3>2. y.off \in Nat /\ y.len \in Nat
      BY <2>1, <3>1 DEF Extents
    <3> QED BY <3>1, <3>2
  <2>6. plan[id][k] - k \in Nat
    BY <2>4, <2>5
  <2> QED BY <2>3, <2>4, <2>5, <2>6 DEF Extent, Extents
<1> HIDE DEF x
<1>7. mid \in Seq(Extents) /\ (x.len > 0 => PlacedAt(mid, x, Offset(out)))
      /\ \A y, at : PlacedAt(out, y, at) => PlacedAt(mid, y, at)
  <2>1. IsList(out)
    BY <1>4 DEF IsList
  <2> QED BY <1>4, <1>6, <2>1, AppendedIs, AppendedKeeps DEF Extends
<1> HIDE DEF mid
<1>8. out' \in Seq(Extents) /\ Offset(out)' \in Nat /\ Offset(out)' % blkSz = 0
      /\ \A y, at : PlacedAt(mid, y, at) => PlacedAt(out', y, at)
  <2>1. Offset(out)' = Offset(out')
    BY DEF Offset
  <2> QED BY <1>2, <1>5, <1>7, <2>1, PadToIs
<1>9. x.len > 0 => PlacedAt(out', x, Offset(out))
  BY <1>7, <1>8
<1>10. \A y, at : PlacedAt(out, y, at) => PlacedAt(out', y, at)
  BY <1>7, <1>8
<1>11. GeoTyped' /\ FileExtents' = FileExtents
  <2>1. \A f \in DOMAIN layout : MaskBits(layout[f])' = MaskBits(layout[f])
    BY <1>1 DEF MaskBits
  <2>2. FileExtents' = FileExtents
    BY <1>1 DEF FileExtents, ToSet
  <2> QED BY <1>1, <1>4, <2>1, <2>2 DEF GeoTyped, Laid
<1>12. Covers(Geo, FileExtents)'
  <2>1. Geo' = Geo
    BY <1>1 DEF Geo
  <2> QED BY <1>4, <1>11, <2>1
<1>13. /\ DOMAIN cols' = DOMAIN cols \cup {id} /\ DOMAIN cols'[id] = DOMAIN terr \cup {k}
       /\ cols'[id][k] = Offset(out) /\ (\A l \in DOMAIN terr : l # k => cols'[id][l] = terr[l])
       /\ \A d \in DOMAIN cols : d # id => cols'[d] = cols[d]
  BY <1>2 DEF Put
<1>14. Columns'
  <2>1. ASSUME NEW d \in DOMAIN cols', NEW l \in DOMAIN cols'[d]
        PROVE  l \in DOMAIN plan[d] /\ Column(d, l)'
    <3>1. CASE d = id /\ l = k
      <4>1. cols'[d][l] = Offset(out) /\ cols'[d][l] \in Nat /\ cols'[d][l] % blkSz = 0
        BY <1>4, <1>13, <3>1
      <4>2. l < plan[d][l] => x.len > 0
        BY <1>6, <3>1
      <4>3. l < plan[d][l] => PlacedAt(out', Extent(dMap[d], l, plan[d][l] - l), cols'[d][l])
        BY <1>9, <3>1, <4>1, <4>2 DEF x
      <4> QED BY <1>1, <1>3, <3>1, <4>1, <4>3 DEF Column
    <3>2. CASE ~(d = id /\ l = k)
      <4>1. d \in DOMAIN cols /\ l \in DOMAIN cols[d] /\ cols'[d][l] = cols[d][l]
        BY <1>13, <3>2
      <4>2. l \in DOMAIN plan[d] /\ Column(d, l)
        BY <1>4, <4>1 DEF Columns
      <4>3. l < plan[d][l] => PlacedAt(out', Extent(dMap[d], l, plan[d][l] - l), cols[d][l])
        BY <1>10, <4>2 DEF Column
      <4> QED BY <1>1, <4>1, <4>2, <4>3 DEF Column
    <3> QED BY <3>1, <3>2
  <2>2. DOMAIN cols' \subseteq DOMAIN plan
    BY <1>3, <1>4, <1>13 DEF Columns
  <2> QED BY <1>1, <2>1, <2>2 DEF Columns
<1>15. IsList(out)'
  BY <1>8 DEF IsList
<1> QED BY <1>1, <1>4, <1>8, <1>11, <1>12, <1>14, <1>15
        DEF GeoInv, Sized, Charting, Writing, Cursor, Finished, Burnt

\* What is constant once the files are written.
Kept ==
    /\ layout' = layout /\ dMap' = dMap /\ plan' = plan /\ mask' = mask /\ blkSz' = blkSz
    /\ area' = area /\ cols' = cols /\ mapped' = mapped /\ tree' = tree

LEMMA KeptGeoInv ==
    ASSUME GeoInv, Kept, Laid, stage' \in {"planned", "burnt", "aborted"},
           out' = out \/ Extends(out', out),
           stage' # "aborted" => Finished', Burnt'
    PROVE  GeoInv'
<1>1. /\ GeoTyped /\ Covers(Geo, FileExtents) /\ Columns /\ area \in Nat /\ area % blkSz = 0
      /\ IsList(out)
      /\ DOMAIN layout = Files /\ blkSz \in SizeRange /\ \A m \in mask : m % blkSz = 0
  BY DEF GeoInv, Writing, Sized
<1>2. GeoTyped' /\ FileExtents' = FileExtents /\ Geo' = Geo
  <2>1. \A f \in DOMAIN layout : MaskBits(layout[f])' = MaskBits(layout[f])
    BY DEF Kept, MaskBits
  <2>2. FileExtents' = FileExtents
    BY DEF Kept, FileExtents, ToSet
  <2> QED BY <1>1, <2>1, <2>2 DEF GeoTyped, Laid, Kept, Geo
<1>3. IsList(out') /\ \A y, at : PlacedAt(out, y, at) => PlacedAt(out', y, at)
  BY <1>1 DEF Extends
<1>4. Columns'
  <2>1. ASSUME NEW d \in DOMAIN cols, NEW l \in DOMAIN cols[d] PROVE l \in DOMAIN plan[d] /\ Column(d, l)'
    <3>1. l \in DOMAIN plan[d] /\ Column(d, l)
      BY <1>1 DEF Columns
    <3> QED BY <1>3, <3>1 DEF Column, Kept
  <2> QED BY <1>1, <2>1 DEF Columns, Kept
<1>5. stage' # "aborted" => (Writing /\ Finished)'
  BY <1>1, <1>2, <1>3, <1>4 DEF Writing, Kept
<1>6. stage' = "aborted" => ~Laid'
  BY DEF Laid
<1> QED BY <1>1, <1>2, <1>5, <1>6 DEF GeoInv, Sized, Charting, Writing, Cursor, Finished, Kept, Laid

LEMMA PlannedGeoInv == ASSUME GeoInv, Planned PROVE GeoInv'
<1>1. Kept /\ stage = "optimized" /\ stage' = "planned" /\ out' = out /\ Pending = {}
  BY DEF Planned, Kept, config
<1>2. ASSUME NEW id \in DOMAIN plan, NEW k \in DOMAIN plan[id]
      PROVE  id \in DOMAIN cols /\ k \in DOMAIN cols[id]
  <2>1. <<id, k>> \in UNION {{d} \X DOMAIN plan[d] : d \in DOMAIN plan}
    OBVIOUS
  <2>2. k \in Written(id)
    BY <1>1, <2>1 DEF Pending
  <2> QED BY <2>2 DEF Written
<1>3. Finished'
  BY <1>1, <1>2 DEF Finished, Kept
<1>4. Burnt'
  BY <1>1 DEF Burnt
<1> QED BY <1>1, <1>3, <1>4, KeptGeoInv DEF Laid

LEMMA CommitGeoInv == ASSUME GeoInv, CommitMapped \/ CommitCopied PROVE GeoInv'
<1>1. Kept /\ stage = "planned" /\ stage' = "burnt" /\ out' = out
  BY DEF CommitMapped, CommitCopied, Kept, config
<1>2. Finished'
  BY <1>1 DEF GeoInv, Finished, Kept
<1>3. Burnt'
  BY <1>1 DEF CommitMapped, CommitCopied, Burnt, config
<1> QED BY <1>1, <1>2, <1>3, KeptGeoInv DEF Laid

\* A volume may give up, or append more, once the files are written.
LEMMA BehindGeoInv ==
    ASSUME GeoInv, Kept, stage = "planned", stage' \in {"planned", "aborted"},
           out' = out \/ Extends(out', out)
    PROVE  GeoInv'
<1>1. stage' # "aborted" => Finished'
  BY DEF GeoInv, Finished, Kept
<1>2. Burnt'
  BY DEF Burnt
<1> QED BY <1>1, <1>2, KeptGeoInv DEF Laid

LEMMA StutterGeoInv == ASSUME GeoInv, UNCHANGED vars PROVE GeoInv'
BY DEF GeoInv, GeoTyped, Sized, Charting, Writing, Columns, Column, Cursor, Finished, Burnt,
       Laid, Geo, FileExtents, vars, config

LEMMA LayoutGeoInv == ASSUME GeoInv, [Next]_vars PROVE GeoInv'
<1>1. CASE \E f \in Files : OnFileFd(f)
  BY <1>1, CrawlGeoInv
<1>2. CASE Adjust
  BY <1>2, AdjustGeoInv
<1>3. CASE Optimize
  <2>1. <<Extent(Zero, 0, HeaderLen)>> \in Seq(Extents)
    BY GeometryAssumption DEF Extent, Extents
  <2> QED BY <1>3, <2>1, OptimizeGeoInv DEF Optimize
<1>4. CASE WriteRange
  BY <1>4, WriteGeoInv
<1>5. CASE Planned
  BY <1>5, PlannedGeoInv
<1>6. CASE CommitMapped \/ CommitCopied
  BY <1>6, CommitGeoInv
<1>7. CASE UNCHANGED vars
  BY <1>7, StutterGeoInv
<1> QED BY <1>1, <1>2, <1>3, <1>4, <1>5, <1>6, <1>7 DEF Next
-----------------------------------------------------------------------------
\* The range of an extent, and what withinDisk makes of it.
Bridged(x, k) ==
    LET id == Id[x.med] IN
    /\ k \in DOMAIN plan[id] /\ k \in Nat /\ k <= x.off
    /\ id \in DOMAIN plan /\ IsMedium(id, dMap[id], FileExtents) /\ IsRange(id, k, plan[id][k], FileExtents)
    /\ Undivided(FileExtents) => x.off + x.len <= plan[id][k]
    /\ Column(id, k) /\ WithinDisk(x) = x.off - k + cols[id][k]

LEMMA IsBridged ==
    ASSUME GeoInv, stage \in {"planned", "burnt"}, NEW x \in FileExtents
    PROVE  \E k : Bridged(x, k)
<1> DEFINE id == Id[x.med]
<1>1. GeoTyped /\ Covers(Geo, FileExtents) /\ Columns /\ Finished /\ FileExtents \subseteq Extents
  BY TreeTyped DEF GeoInv, Writing, Laid
<1>2. id \in DOMAIN plan /\ IsMedium(id, dMap[id], FileExtents) /\ Retains(plan[id], id, FileExtents)
  BY <1>1 DEF Covers, Geo
<1>3. PICK k \in DOMAIN plan[id] :
          IsLastKeyUpTo(plan[id], x.off, k) /\ (Undivided(FileExtents) => x.off + x.len <= plan[id][k])
  BY <1>2 DEF Retains, Within
<1>4. IsRange(id, k, plan[id][k], FileExtents)
  BY <1>2 DEF Retains
<1>5. \A l \in DOMAIN plan[id] : l \in Nat
  BY <1>1, <1>2 DEF Retains, IsRange, Extents
<1>6. id \in DOMAIN cols /\ DOMAIN cols[id] = DOMAIN plan[id] /\ Column(id, k)
  BY <1>1, <1>2, <1>3 DEF Finished, Columns
<1> HIDE DEF id
<1>7. \A l \in DOMAIN cols[id] : IsLastKeyUpTo(cols[id], x.off, l) <=> l = k
  BY <1>3, <1>5, <1>6 DEF IsLastKeyUpTo
<1>8. (CHOOSE l \in DOMAIN cols[id] : IsLastKeyUpTo(cols[id], x.off, l)) = k
  BY <1>3, <1>6, <1>7
<1>9. WithinDisk(x) = x.off - k + cols[id][k]
  BY <1>8 DEF WithinDisk, id
<1>10. k \in Nat /\ k <= x.off
  BY <1>3, <1>5 DEF IsLastKeyUpTo
<1>11. Bridged(x, k)
  BY <1>2, <1>3, <1>4, <1>6, <1>9, <1>10 DEF Bridged, id
<1> QED BY <1>11

\* The offsets of the extents, and so the keys of the charts, are multiples of
\* the block size.
LEMMA OffsetsAreMultiples ==
    ASSUME GeoInv, Laid, NEW x \in FileExtents
    PROVE  x.off \in Nat /\ x.off % blkSz = 0
<1>1. GeoTyped /\ Sized
  BY DEF GeoInv
<1>2. PICK f \in DOMAIN layout : \E i \in DOMAIN layout[f] : x = layout[f][i]
  BY <1>1, TreeTyped
<1>3. x.off \in MaskBits(layout[f])
  BY <1>2 DEF MaskBits
<1>4. x \in Extents
  BY <1>1, TreeTyped
<1> QED BY <1>1, <1>2, <1>3, <1>4 DEF GeoTyped, Sized, Extents

LEMMA GeoBlockAligned == GeoInv => BlockAligned
<1> SUFFICES ASSUME GeoInv, stage \in {"planned", "burnt"}, NEW f \in Files, NEW i \in DOMAIN layout[f]
             PROVE  /\ WithinArea(layout[f][i]) % blkSz = 0
                    /\ i < Len(layout[f]) => layout[f][i].len % blkSz = 0
  BY DEF BlockAligned
<1> DEFINE x == layout[f][i]
           id == Id[x.med]
<1>1. GeoTyped /\ DOMAIN layout = Files /\ blkSz \in Nat \ {0} /\ Laid
      /\ area \in Nat /\ area % blkSz = 0 /\ \A m \in mask : m % blkSz = 0
  BY GeometryAssumption DEF GeoInv, Sized, Writing, Laid
<1>2. x \in FileExtents
  BY <1>1, TreeTyped
<1>3. i < Len(layout[f]) => x.len \in mask
  BY <1>1 DEF MaskBits, GeoTyped
<1> HIDE DEF x
<1>4. PICK k : Bridged(x, k)
  BY <1>2, IsBridged
<1>5. k \in Nat /\ k % blkSz = 0
  BY <1>1, <1>4, OffsetsAreMultiples DEF Bridged, IsRange
<1>6. x.off \in Nat /\ x.off % blkSz = 0
  BY <1>1, <1>2, OffsetsAreMultiples
<1> DEFINE c == cols[id][k]
<1>7. c \in Nat /\ c % blkSz = 0 /\ WithinDisk(x) = x.off - k + c
  BY <1>4 DEF Bridged, Column
<1> HIDE DEF c
<1>8. (x.off - k) % blkSz = 0 /\ x.off - k \in Int
  BY <1>1, <1>5, <1>6, SumOfMultiples
<1>9. (x.off - k + c) % blkSz = 0 /\ x.off - k + c \in Int
  <2> DEFINE d == x.off - k
  <2>1. d \in Int /\ d % blkSz = 0
    BY <1>8
  <2> HIDE DEF d
  <2>2. c \in Int /\ c % blkSz = 0
    BY <1>7
  <2>3. blkSz \in Nat \ {0}
    BY <1>1
  <2>4. (d + c) % blkSz = 0
    BY <2>1, <2>2, <2>3, SumOfMultiples
  <2>5. d + c \in Int
    BY <2>1, <2>2
  <2> QED BY <2>4, <2>5 DEF d
<1>10. WithinDisk(x) \in Int /\ WithinDisk(x) % blkSz = 0
  BY <1>7, <1>9
<1>11. WithinArea(x) % blkSz = 0
  <2> DEFINE w == WithinDisk(x)
  <2>1. w \in Int /\ w % blkSz = 0
    BY <1>10
  <2>2. WithinArea(x) = w - area
    BY DEF WithinArea
  <2> HIDE DEF w
  <2>3. area \in Int /\ area % blkSz = 0 /\ blkSz \in Nat \ {0}
    BY <1>1
  <2>4. (w - area) % blkSz = 0
    BY <2>1, <2>3, SumOfMultiples
  <2> QED BY <2>2, <2>4
<1> QED BY <1>1, <1>3, <1>11 DEF x

-----------------------------------------------------------------------------
\* Files share extents as hard links do, and not otherwise.
NoneShared == \A t \in ExtentTrees \cup FileTrees : Undivided(UNION {ToSet(t[f]) : f \in Files})

LEMMA FileExtentsUndivided == ASSUME NoneShared, GeoInv, Laid PROVE Undivided(FileExtents)
<1>1. DOMAIN layout = Files /\ (\A f \in Files : layout[f] = tree[f]) /\ tree \in ExtentTrees \cup FileTrees
  BY DEF GeoInv, Sized, GeoTyped
<1>2. FileExtents = UNION {ToSet(tree[f]) : f \in Files}
  <2>1. ASSUME NEW x PROVE x \in FileExtents <=> x \in UNION {ToSet(tree[f]) : f \in Files}
    <3>1. x \in FileExtents <=> \E f \in DOMAIN layout : x \in ToSet(layout[f])
      BY DEF FileExtents
    <3>2. x \in UNION {ToSet(tree[f]) : f \in Files} <=> \E f \in Files : x \in ToSet(tree[f])
      OBVIOUS
    <3> QED BY <1>1, <3>1, <3>2
  <2> QED BY <2>1
<1> QED BY <1>1, <1>2 DEF NoneShared

\* What cannot be mapped of a file is whole sectors, as what can be is.
WholeSectors == \A t \in ExtentTrees : \A f \in Files : \A i \in DOMAIN t[f] : t[f][i].len % Sector = 0

\* The extents of a mapped file are whole sectors of a disk, or zeros.
LEMMA MappedExtents ==
    ASSUME WholeSectors, GeoInv, mapped, Laid, NEW x \in FileExtents
    PROVE  /\ x.med \in Disks \cup {Zero}
           /\ x.off % Sector = 0 /\ x.len % Sector = 0 /\ x.off \in Nat /\ x.len \in Nat
<1>1. GeoTyped /\ tree \in ExtentTrees
  BY DEF GeoInv, GeoTyped
<1>2. PICK f \in DOMAIN layout : \E i \in DOMAIN layout[f] : x = layout[f][i]
  BY <1>1, TreeTyped
<1>3. f \in Files /\ layout[f] = tree[f] /\ x \in Extents
  BY <1>1, TreeTyped DEF GeoTyped
<1>4. x.med \in Disks \cup {Zero} /\ x.len % Sector = 0 /\ (x.med \in Disks => x.off % Sector = 0)
      /\ (x.med = Zero => x.off = 0)
  BY <1>1, <1>2, <1>3, GeometryAssumption DEF WholeSectors
<1>5. x.off % Sector = 0
  BY <1>4, GeometryAssumption
<1> QED BY <1>3, <1>4, <1>5 DEF Extents

\* The target of an extent of whole sectors has its bytes where the planner has them.
LEMMA TargetReads ==
    ASSUME NEW med \in Disks \cup {Zero}, NEW off \in Nat, NEW len \in Nat, NEW at \in Nat,
           off % Sector = 0, len % Sector = 0, at % Sector = 0,
           NEW j \in 0 .. len - 1
    PROVE  LET t == Target(at, Extent(med, off, len)) IN
           /\ t.start * Sector <= at + j /\ at + j < (t.start + t.len) * Sector
           /\ SourceByte(t.med, t.off * Sector + (at + j) - t.start * Sector) = SourceByte(med, off + j)
<1> DEFINE a == at \div Sector
           l == len \div Sector
           o == off \div Sector
           t == Target(at, Extent(med, off, len))
<1>1. Sector \in Nat \ {0} /\ Disks \subseteq Media /\ Zero \notin Disks
  BY GeometryAssumption
<1>2. a \in Int /\ l \in Int /\ o \in Int /\ at = Sector * a /\ len = Sector * l /\ off = Sector * o
  BY <1>1, Division
<1>3. /\ t.start = a /\ t.len = l
      /\ t.med = IF med \in Disks THEN med ELSE Zero
      /\ t.off = IF med \in Disks THEN o ELSE 0
  BY DEF Target, Extent
<1> HIDE DEF a, l, o, t
<1>4. t.start * Sector = at /\ (t.start + t.len) * Sector = at + len
  BY <1>1, <1>2, <1>3
<1>5. t.start * Sector <= at + j /\ at + j < (t.start + t.len) * Sector
  BY <1>4
<1>6. SourceByte(t.med, t.off * Sector + (at + j) - t.start * Sector) = SourceByte(med, off + j)
  <2>1. CASE med \in Disks
    <3>1. t.off * Sector = off /\ t.med = med
      BY <1>1, <1>2, <1>3, <2>1
    <3>2. t.off * Sector + (at + j) - t.start * Sector = off + j
      BY <1>4, <3>1
    <3> QED BY <3>1, <3>2
  <2>2. CASE med = Zero
    BY <1>1, <1>3, <2>2 DEF SourceByte
  <2> QED BY <2>1, <2>2
<1> QED BY <1>5, <1>6 DEF t

LEMMA GeoFilesReadBack == ASSUME NoneShared, WholeSectors, GeoInv PROVE FilesReadBack
<1> SUFFICES ASSUME stage = "burnt", NEW x \in FileExtents, NEW i \in 0 .. x.len - 1
             PROVE  Reads(WithinDisk(x) + i, SourceByte(x.med, x.off + i))
  BY DEF FilesReadBack
<1> DEFINE id == Id[x.med]
           med == x.med
<1>1. /\ GeoTyped /\ blkSz \in Nat \ {0} /\ blkSz % Sector = 0 /\ Laid
      /\ Undivided(FileExtents) /\ FileExtents \subseteq Extents
  BY FileExtentsUndivided, GeometryAssumption, TreeTyped DEF GeoInv, Sized, Laid
<1>2. PICK k : Bridged(x, k)
  BY IsBridged
<1> DEFINE len == plan[id][k] - k
           at == cols[id][k]
           j == x.off - k + i
<1>3. x.off \in Nat /\ x.len \in Nat /\ i \in Nat /\ i < x.len
  BY <1>1 DEF Extents
<1>4. k \in Nat /\ k <= x.off /\ plan[id][k] \in Nat /\ x.off + x.len <= plan[id][k]
  <2>1. PICK y \in FileExtents : plan[id][k] = y.off + y.len
    BY <1>2 DEF Bridged, IsRange
  <2>2. plan[id][k] \in Nat
    BY <1>1, <2>1 DEF Extents
  <2> QED BY <1>1, <1>2, <2>2 DEF Bridged
<1>5. dMap[id] = med
  BY <1>1, <1>2 DEF Bridged, IsMedium, Undivided
<1>6. at \in Nat /\ at % blkSz = 0 /\ PlacedAt(out, Extent(med, k, len), at)
  <2>1. k < plan[id][k]
    BY <1>3, <1>4
  <2> QED BY <1>2, <1>5, <2>1 DEF Bridged, Column
<1>7. len \in Nat /\ j \in 0 .. len - 1 /\ k + j = x.off + i
  BY <1>3, <1>4
<1>8. WithinDisk(x) + i = at + j
  <2>1. WithinDisk(x) = x.off - k + at
    BY <1>2 DEF Bridged
  <2> QED BY <1>3, <1>4, <1>6, <2>1
<1>9. PICK n \in DOMAIN out : out[n] = Extent(med, k, len) /\ Offset(SubSeq(out, 1, n - 1)) = at
  BY <1>6 DEF PlacedAt
<1>10. CASE ~mapped
  <2> HIDE DEF len, at, j, med
  <2>1. out[n].len = len /\ out[n].off = k /\ out[n].med = med
    BY <1>9 DEF Extent
  <2>2. at <= at + j /\ at + j < at + len /\ k + (at + j) - at = x.off + i
    BY <1>4, <1>6, <1>7
  <2>3. CopiedReads(at + j, SourceByte(med, x.off + i))
    BY <1>9, <2>1, <2>2 DEF CopiedReads
  <2> QED BY <1>8, <1>10, <2>3 DEF Reads, med
<1>11. CASE mapped
  <2>1. med \in Disks \cup {Zero} /\ k % Sector = 0
    BY <1>1, <1>2, <1>11, MappedExtents DEF Bridged, IsRange
  <2>2. len % Sector = 0
    <3>1. PICK y \in FileExtents : plan[id][k] = y.off + y.len
      BY <1>2 DEF Bridged, IsRange
    <3>2. y.off \in Int /\ y.len \in Int /\ y.off % Sector = 0 /\ y.len % Sector = 0 /\ Sector \in Nat \ {0}
      BY <1>1, <1>11, MappedExtents, GeometryAssumption
    <3> DEFINE e == y.off + y.len
    <3>3. e \in Int /\ e % Sector = 0
      BY <3>2, SumOfMultiples
    <3>4. len = e - k
      BY <3>1
    <3> HIDE DEF e
    <3>5. k \in Int /\ k % Sector = 0 /\ Sector \in Nat \ {0}
      BY <1>4, <2>1, <3>2
    <3>6. (e - k) % Sector = 0
      BY <3>3, <3>5, SumOfMultiples
    <3> QED BY <3>4, <3>6
  <2>3. at % Sector = 0
    BY <1>1, <1>6, MultipleOfMultiple, GeometryAssumption
  <2> DEFINE t == Target(at, Extent(med, k, len))
  <2>4. t \in ToSet(table)
    <3>1. table = [m \in DOMAIN out |-> Target(Offset(SubSeq(out, 1, m - 1)), out[m])]
      BY <1>11 DEF GeoInv, Burnt
    <3>2. n \in DOMAIN table /\ table[n] = t
      BY <1>9, <3>1
    <3> QED BY <3>2 DEF ToSet
  <2> HIDE DEF len, at, j, med
  <2>5. /\ t.start * Sector <= at + j /\ at + j < (t.start + t.len) * Sector
        /\ SourceByte(t.med, t.off * Sector + (at + j) - t.start * Sector) = SourceByte(med, k + j)
    <3>1. k \in Nat /\ at \in Nat /\ len \in Nat /\ j \in 0 .. len - 1
      BY <1>4, <1>6, <1>7
    <3> QED BY <2>1, <2>2, <2>3, <3>1, TargetReads
  <2> HIDE DEF t
  <2>6. MappedReads(at + j, SourceByte(med, x.off + i))
    BY <1>7, <2>4, <2>5 DEF MappedReads
  <2> QED BY <1>8, <1>11, <2>6 DEF Reads, med
<1> QED BY <1>10, <1>11
-----------------------------------------------------------------------------
\* The invariant holds of a run over the file area, for every source tree.
THEOREM GeometryInvariant == Spec => []GeoInv
<1>1. Init => GeoInv
  BY InitGeoInv
<1>2. GeoInv /\ [Next]_vars => GeoInv'
  BY LayoutGeoInv
<1> QED BY <1>1, <1>2, PTL DEF Spec

\* Every extent of a file starts on a block of the file area and fills whole
\* ones unless it is the last.
THEOREM GeometryAligned == Spec => []BlockAligned
<1>1. GeoInv => BlockAligned
  BY GeoBlockAligned
<1> QED BY <1>1, GeometryInvariant, PTL

\* Every byte of a file is read where withinDisk says.
THEOREM GeometryReadsBack == ASSUME NoneShared, WholeSectors PROVE Spec => []FilesReadBack
<1>1. GeoInv => FilesReadBack
  BY GeoFilesReadBack
<1> QED BY <1>1, GeometryInvariant, PTL
==============================================================================
