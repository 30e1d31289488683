------------------------- MODULE MergeExtents_proof --------------------------
(***************************************************************************)
(* What MergeExtents guarantees for every chart whose ranges end in the    *)
(* order they start in, and every tolerance.                               *)
(***************************************************************************)
EXTENDS MergeExtents, WellFoundedInduction, TLAPS

(***************************************************************************)
(* The charts the theorems are about.  Ranges may touch or overlap, but    *)
(* none ends after a range that starts later; a disjoint chart is one.     *)
(***************************************************************************)
Ordered == \A c \in Charts : EndsOrdered(c)

\* Every charted range lies whole within one range of terr.
Covered ==
    \A o \in DOMAIN chart : \E k \in DOMAIN terr : k =< o /\ chart[o] =< terr[k]

(***************************************************************************)
(* Every range of terr ends where a charted range ends, which starts       *)
(* within it and before the next range of terr.                            *)
(***************************************************************************)
EndsCharted ==
    \A k \in DOMAIN terr : \E p \in DOMAIN chart :
        /\ k =< p
        /\ chart[p] = terr[k]
        /\ \A l \in DOMAIN terr : k < l => p < l

IInv ==
    /\ TypeOK
    /\ EndsOrdered(chart)
    /\ EndsOrdered(terr)
    /\ Covered
    /\ EndsCharted
    /\ LeakBounded
    /\ Separated
------------------------------------------------------------------------------
(***************************************************************************)
(* Absorbing the next range keeps a chart a chart with ordered ends.       *)
(***************************************************************************)
LEMMA AbsorbedIsTerritory ==
    ASSUME NEW t, NEW k, NEW n,
           IsTerritory(t), EndsOrdered(t), k \in DOMAIN t, IsNextKey(t, k, n)
    PROVE  /\ IsTerritory(Absorbed(t, k, n))
           /\ EndsOrdered(Absorbed(t, k, n))
           /\ DOMAIN Absorbed(t, k, n) = DOMAIN t \ {n}
           /\ k \in DOMAIN Absorbed(t, k, n)
           /\ Absorbed(t, k, n)[k] = t[n]
           /\ \A j \in DOMAIN t \ {k, n} : Absorbed(t, k, n)[j] = t[j]
<1> DEFINE a == Absorbed(t, k, n)
<1>1. /\ DOMAIN a = DOMAIN t \ {n}
      /\ k \in DOMAIN a
      /\ a[k] = t[n]
      /\ \A j \in DOMAIN t \ {k, n} : a[j] = t[j]
    BY DEF Absorbed, IsNextKey, IsTerritory
<1>2. a = [j \in DOMAIN a |-> a[j]]
    BY DEF Absorbed
<1>3. \A j \in DOMAIN a : j \in Nat /\ a[j] \in Nat /\ j < a[j]
    <2> SUFFICES ASSUME NEW j \in DOMAIN a
                 PROVE  j \in Nat /\ a[j] \in Nat /\ j < a[j]
        OBVIOUS
    <2>1. CASE j = k
        BY <2>1, <1>1 DEF IsTerritory, IsNextKey
    <2>2. CASE j # k
        BY <2>2, <1>1 DEF IsTerritory
    <2> QED BY <2>1, <2>2
<1>4. EndsOrdered(a)
    <2> SUFFICES ASSUME NEW i \in DOMAIN a, NEW j \in DOMAIN a, i < j
                 PROVE  a[i] =< a[j]
        BY DEF EndsOrdered
    <2>1. CASE i = k
        <3>1. j \in DOMAIN t \ {k, n} /\ n =< j
            BY <2>1, <1>1 DEF IsNextKey, IsTerritory
        <3> QED BY <3>1, <2>1, <1>1 DEF IsNextKey, IsTerritory, EndsOrdered
    <2>2. CASE j = k
        <3>1. i \in DOMAIN t \ {k, n} /\ i < n
            BY <2>2, <1>1 DEF IsNextKey, IsTerritory
        <3> QED BY <3>1, <2>2, <1>1 DEF IsNextKey, IsTerritory, EndsOrdered
    <2>3. CASE i # k /\ j # k
        BY <2>3, <1>1 DEF EndsOrdered
    <2> QED BY <2>1, <2>2, <2>3
<1> QED BY <1>1, <1>2, <1>3, <1>4 DEF IsTerritory

(***************************************************************************)
(* A chart with ordered ends that covers every charted range answers the   *)
(* lookup of Colonies::withinDisk.                                         *)
(***************************************************************************)
LEMMA CoveredIsLocated ==
    ASSUME TypeOK, EndsOrdered(terr), Covered
    PROVE  Located
<1> SUFFICES ASSUME NEW o \in DOMAIN chart, NEW k \in DOMAIN terr,
                    IsLastKeyUpTo(terr, o, k)
             PROVE  chart[o] =< terr[k]
    BY DEF Located
<1>1. IsTerritory(chart) /\ IsTerritory(terr)
    BY ChartsAssumption DEF TypeOK
<1>2. PICK j \in DOMAIN terr : j =< o /\ chart[o] =< terr[j]
    BY DEF Covered
<1>3. j =< k
    BY <1>2 DEF IsLastKeyUpTo
<1>4. terr[j] =< terr[k]
    BY <1>1, <1>3 DEF EndsOrdered, IsTerritory
<1> QED BY <1>1, <1>2, <1>4 DEF IsTerritory
------------------------------------------------------------------------------
LEMMA InitIInv == ASSUME Ordered, Init PROVE IInv
<1>1. IsTerritory(chart) /\ EndsOrdered(chart) /\ terr = chart
    BY ChartsAssumption DEF Ordered, Init
<1>2. TypeOK
    BY <1>1 DEF Init, TypeOK
<1>3. Covered
    BY <1>1 DEF Covered, IsTerritory
<1>4. EndsCharted
    BY <1>1 DEF EndsCharted, IsTerritory
<1>5. LeakBounded
    <2> SUFFICES ASSUME NEW k \in DOMAIN terr, NEW o \in DOMAIN chart,
                        k < o, o < terr[k]
                 PROVE  \E p \in DOMAIN chart :
                            k =< p /\ p < o /\ o =< chart[p] + Tolerance
        BY DEF LeakBounded
    <2> QED BY <1>1, ToleranceAssumption DEF IsTerritory
<1>6. Separated
    <2>1. \A k \in DOMAIN terr : ~(k < itr) \/ itr = End
        BY <1>1 DEF Init, Begin, IsTerritory
    <2>2. itr = End => DOMAIN terr = {}
        BY EndAssumption DEF Init, Begin
    <2> QED BY <2>1, <2>2 DEF Separated
<1> QED BY <1>1, <1>2, <1>3, <1>4, <1>5, <1>6 DEF IInv

(***************************************************************************)
(* The step that changes the map.                                          *)
(***************************************************************************)
LEMMA AbsorbIInv == ASSUME IInv, Absorb PROVE IInv'
<1>1. PICK n \in DOMAIN terr :
          /\ IsNextKey(terr, itr, n)
          /\ WithinTolerance(terr, itr, n, Tolerance)
          /\ terr' = Absorbed(terr, itr, n)
    BY DEF Absorb
<1>2. /\ chart' = chart /\ itr' = itr /\ itr # End
      /\ itr \in DOMAIN terr
      /\ IsTerritory(chart) /\ EndsOrdered(chart)
      /\ IsTerritory(terr) /\ EndsOrdered(terr)
      /\ chart \in Charts /\ DOMAIN terr \subseteq DOMAIN chart
    BY ChartsAssumption DEF Absorb, IInv, TypeOK
<1>3. /\ IsTerritory(terr') /\ EndsOrdered(terr')
      /\ DOMAIN terr' = DOMAIN terr \ {n}
      /\ itr \in DOMAIN terr'
      /\ terr'[itr] = terr[n]
      /\ \A j \in DOMAIN terr \ {itr, n} : terr'[j] = terr[j]
    <2>1. IsTerritory(Absorbed(terr, itr, n))
        BY <1>1, <1>2, AbsorbedIsTerritory
    <2>2. EndsOrdered(Absorbed(terr, itr, n))
        BY <1>1, <1>2, AbsorbedIsTerritory
    <2>3. /\ DOMAIN terr' = DOMAIN terr \ {n}
          /\ itr \in DOMAIN terr'
          /\ terr'[itr] = terr[n]
          /\ \A j \in DOMAIN terr \ {itr, n} : terr'[j] = terr[j]
        BY <1>1, <1>2 DEF Absorbed, IsNextKey, IsTerritory
    <2> QED BY <2>1, <2>2, <2>3, <1>1
<1>4. /\ n \in Nat /\ itr \in Nat /\ terr[n] \in Nat /\ terr[itr] \in Nat
      /\ itr < n /\ n =< terr[itr] + Tolerance
      /\ \A j \in DOMAIN terr : j \in Nat /\ terr[j] \in Nat
      /\ \A j \in DOMAIN terr : itr < j => n =< j
      /\ \A o \in DOMAIN chart : o \in Nat /\ chart[o] \in Nat /\ o < chart[o]
      /\ terr[itr] =< terr[n]
    BY <1>1, <1>2 DEF IsTerritory, IsNextKey, WithinTolerance, EndsOrdered
<1>5. TypeOK'
    BY <1>2, <1>3 DEF TypeOK
<1>6. Covered'
    <2> SUFFICES ASSUME NEW o \in DOMAIN chart
                 PROVE  \E k \in DOMAIN terr' : k =< o /\ chart[o] =< terr'[k]
        BY <1>2 DEF Covered
    <2>1. PICK k \in DOMAIN terr : k =< o /\ chart[o] =< terr[k]
        BY DEF IInv, Covered
    <2>2. CASE k \in {itr, n}
        <3>1. itr =< o /\ chart[o] =< terr'[itr]
            BY <2>1, <2>2, <1>3, <1>4
        <3> QED BY <3>1, <1>3
    <2>3. CASE k \notin {itr, n}
        BY <2>1, <2>3, <1>3
    <2> QED BY <2>2, <2>3
<1>7. EndsCharted'
    <2> SUFFICES ASSUME NEW k \in DOMAIN terr'
                 PROVE  \E p \in DOMAIN chart :
                            /\ k =< p
                            /\ chart[p] = terr'[k]
                            /\ \A l \in DOMAIN terr' : k < l => p < l
        BY <1>2 DEF EndsCharted
    <2>1. CASE k = itr
        <3>1. PICK p \in DOMAIN chart :
                  /\ n =< p
                  /\ chart[p] = terr[n]
                  /\ \A l \in DOMAIN terr : n < l => p < l
            BY DEF IInv, EndsCharted
        <3>2. k =< p /\ chart[p] = terr'[k]
            BY <2>1, <3>1, <1>3, <1>4
        <3>3. \A l \in DOMAIN terr' : k < l => p < l
            BY <2>1, <3>1, <1>3, <1>4
        <3> QED BY <3>2, <3>3
    <2>2. CASE k # itr
        <3>1. k \in DOMAIN terr /\ terr'[k] = terr[k]
            BY <2>2, <1>3
        <3>2. PICK p \in DOMAIN chart :
                  /\ k =< p
                  /\ chart[p] = terr[k]
                  /\ \A l \in DOMAIN terr : k < l => p < l
            BY <3>1 DEF IInv, EndsCharted
        <3> QED BY <3>1, <3>2, <1>3
    <2> QED BY <2>1, <2>2
<1>8. LeakBounded'
    <2> SUFFICES ASSUME NEW k \in DOMAIN terr', NEW o \in DOMAIN chart,
                        k < o, o < terr'[k]
                 PROVE  \E p \in DOMAIN chart :
                            k =< p /\ p < o /\ o =< chart[p] + Tolerance
        BY <1>2 DEF LeakBounded
    <2>1. CASE k # itr
        <3>1. k \in DOMAIN terr /\ terr'[k] = terr[k]
            BY <2>1, <1>3
        <3> QED BY <3>1 DEF IInv, LeakBounded
    <2>2. CASE k = itr /\ o < terr[itr]
        BY <2>2, <1>2 DEF IInv, LeakBounded
    <2>3. CASE k = itr /\ terr[itr] =< o /\ o =< n
        \* The charted range terr[itr] comes from ends within the tolerance of n.
        <3>1. PICK p \in DOMAIN chart :
                  /\ itr =< p
                  /\ chart[p] = terr[itr]
                  /\ \A l \in DOMAIN terr : itr < l => p < l
            BY <1>2 DEF IInv, EndsCharted
        <3>2. p < o /\ o =< chart[p] + Tolerance
            BY <2>3, <3>1, <1>4, ToleranceAssumption
        <3> QED BY <2>3, <3>1, <3>2
    <2>4. CASE k = itr /\ n < o
        <3>1. PICK p \in DOMAIN chart :
                  n =< p /\ p < o /\ o =< chart[p] + Tolerance
            BY <2>4, <1>3 DEF IInv, LeakBounded
        <3> QED BY <2>4, <3>1, <1>4
    <2> QED BY <2>1, <2>2, <2>3, <2>4, <1>4
<1>9. Separated'
    <2> SUFFICES ASSUME NEW k \in DOMAIN terr', NEW l \in DOMAIN terr',
                        k < l, k < itr
                 PROVE  terr'[k] + Tolerance < l
        BY <1>2 DEF Separated
    <2>1. k \in DOMAIN terr /\ k # itr /\ terr'[k] = terr[k] /\ l \in DOMAIN terr
        BY <1>3, <1>4
    <2> QED BY <2>1 DEF IInv, Separated
<1> QED BY <1>2, <1>3, <1>5, <1>6, <1>7, <1>8, <1>9 DEF IInv

(***************************************************************************)
(* The steps that move the iterator.                                       *)
(***************************************************************************)
LEMMA MoveIInv == ASSUME IInv, Advance \/ Finish PROVE IInv'
<1>1. /\ chart' = chart /\ terr' = terr
      /\ itr # End /\ itr \in DOMAIN terr
      /\ IsTerritory(terr)
    BY DEF Advance, Finish, IInv, TypeOK
<1>2. TypeOK'
    BY <1>1 DEF Advance, Finish, IInv, TypeOK
<1>3. Separated'
    <2> SUFFICES ASSUME NEW k \in DOMAIN terr, NEW l \in DOMAIN terr,
                        k < l, itr' = End \/ k < itr'
                 PROVE  terr[k] + Tolerance < l
        BY <1>1 DEF Separated
    <2>1. CASE k < itr
        BY <2>1 DEF IInv, Separated
    <2>2. CASE k = itr
        <3>1. CASE Advance
            BY <3>1, <2>2, <1>1, ToleranceAssumption
            DEF Advance, IsNextKey, WithinTolerance, IsTerritory
        <3>2. CASE Finish
            BY <3>2, <2>2, <1>1 DEF Finish, IsTerritory
        <3> QED BY <3>1, <3>2
    <2>3. CASE itr < k
        \* No key lies between the iterator and its successor.
        <3>1. CASE Advance
            <4>1. itr' \in DOMAIN terr /\ itr' # End /\ itr' =< k
                BY <3>1, <2>3, <1>1, EndAssumption
                DEF Advance, IsNextKey, IInv, TypeOK
            <4> QED BY <4>1, <1>1 DEF IsTerritory
        <3>2. CASE Finish
            BY <3>2, <2>3, <1>1 DEF Finish, IsTerritory
        <3> QED BY <3>1, <3>2
    <2> QED BY <2>1, <2>2, <2>3, <1>1 DEF IsTerritory
<1> QED BY <1>1, <1>2, <1>3
    DEF IInv, Covered, EndsCharted, LeakBounded

LEMMA StepIInv == ASSUME IInv, [Next]_vars PROVE IInv'
<1>1. CASE Absorb
    BY <1>1, AbsorbIInv
<1>2. CASE Advance \/ Finish
    BY <1>2, MoveIInv
<1>3. CASE UNCHANGED vars
    BY <1>3 DEF vars, IInv, TypeOK, Covered, EndsCharted, LeakBounded, Separated
<1> QED BY <1>1, <1>2, <1>3 DEF Next
------------------------------------------------------------------------------
LEMMA Inductive == Ordered /\ Spec => []IInv
<1>1. Ordered /\ Init => IInv
    BY InitIInv
<1>2. IInv /\ [Next]_vars => IInv'
    BY StepIInv
<1> QED BY <1>1, <1>2, PTL DEF Spec

\* The map stays a chart of keys that were charted, and the iterator one of them.
THEOREM TypeCorrect == Ordered /\ Spec => []TypeOK
BY Inductive, PTL DEF IInv

(***************************************************************************)
(* For every chart with ordered ends and every tolerance: in every state   *)
(* of the loop the lookup of Colonies::withinDisk finds each charted range *)
(* whole.                                                                  *)
(***************************************************************************)
THEOREM LocatedAlways == Ordered /\ Spec => []Located
<1>1. IInv => Located
    BY CoveredIsLocated DEF IInv
<1> QED BY <1>1, Inductive, PTL

\* No more of the medium is exposed than gaps of at most the tolerance.
THEOREM LeakBoundedAlways == Ordered /\ Spec => []LeakBounded
BY Inductive, PTL DEF IInv

\* The part of the chart the iterator has left needs no more merging.
THEOREM SeparatedAlways == Ordered /\ Spec => []Separated
BY Inductive, PTL DEF IInv
------------------------------------------------------------------------------
(***************************************************************************)
(* The chart the loop leaves is the coalesced one: its keys are exactly    *)
(* the starts of the runs, and each range ends with its run.               *)
(***************************************************************************)
LEMMA Coalesced == IInv => Result
<1> SUFFICES ASSUME IInv, itr = End
             PROVE  IsCoalesced(terr, chart, Tolerance)
    BY DEF Result
<1>1. /\ IsTerritory(chart) /\ IsTerritory(terr)
      /\ EndsOrdered(chart) /\ EndsOrdered(terr)
      /\ DOMAIN terr \subseteq DOMAIN chart
    BY ChartsAssumption DEF IInv, TypeOK
<1>2. /\ \A o \in DOMAIN chart : o \in Nat /\ chart[o] \in Nat /\ o < chart[o]
      /\ \A k \in DOMAIN terr : k \in Nat /\ terr[k] \in Nat /\ k < terr[k]
    BY <1>1 DEF IsTerritory
<1>3. \A k, l \in DOMAIN terr : k < l => terr[k] + Tolerance < l
    BY DEF IInv, Separated
<1>4. DOMAIN terr \subseteq Starts(chart, Tolerance)
    <2> SUFFICES ASSUME NEW k \in DOMAIN terr, NEW p \in DOMAIN chart, p < k
                 PROVE  chart[p] + Tolerance < k
        BY <1>1 DEF Starts
    <2>1. PICK j \in DOMAIN terr : j =< p /\ chart[p] =< terr[j]
        BY DEF IInv, Covered
    <2>2. terr[j] + Tolerance < k
        BY <2>1, <1>2, <1>3
    <2> QED BY <2>1, <2>2, <1>2, ToleranceAssumption
<1>5. Starts(chart, Tolerance) \subseteq DOMAIN terr
    <2> SUFFICES ASSUME NEW s \in Starts(chart, Tolerance), s \notin DOMAIN terr
                 PROVE  FALSE
        OBVIOUS
    <2>1. s \in DOMAIN chart /\ \A p \in DOMAIN chart : p < s => chart[p] + Tolerance < s
        BY DEF Starts
    <2>2. PICK k \in DOMAIN terr : k =< s /\ chart[s] =< terr[k]
        BY <2>1 DEF IInv, Covered
    <2>3. k < s /\ s < terr[k]
        BY <2>1, <2>2, <1>2
    <2>4. PICK p \in DOMAIN chart : k =< p /\ p < s /\ s =< chart[p] + Tolerance
        BY <2>1, <2>3 DEF IInv, LeakBounded
    <2> QED BY <2>1, <2>4, <1>2, ToleranceAssumption
<1>6. DOMAIN terr = Starts(chart, Tolerance)
    BY <1>4, <1>5
<1>7. ASSUME NEW s \in DOMAIN terr
      PROVE  \E p \in Run(chart, Tolerance, s) : terr[s] = chart[p]
    <2>1. PICK p \in DOMAIN chart :
              /\ s =< p
              /\ chart[p] = terr[s]
              /\ \A l \in DOMAIN terr : s < l => p < l
        BY DEF IInv, EndsCharted
    <2>2. \A r \in Starts(chart, Tolerance) : r =< s \/ p < r
        BY <2>1, <1>2, <1>6
    <2> QED BY <2>1, <2>2 DEF Run
<1>8. ASSUME NEW s \in DOMAIN terr, NEW p \in Run(chart, Tolerance, s)
      PROVE  chart[p] =< terr[s]
    <2>1. /\ p \in DOMAIN chart /\ s =< p
          /\ \A r \in DOMAIN terr : r =< s \/ p < r
        BY <1>6 DEF Run
    <2>2. PICK k \in DOMAIN terr : k =< p /\ chart[p] =< terr[k]
        BY <2>1 DEF IInv, Covered
    <2>3. k =< s
        BY <2>1, <2>2, <1>2
    <2>4. terr[k] =< terr[s]
        BY <2>3, <1>1, <1>2 DEF EndsOrdered
    <2> QED BY <2>1, <2>2, <2>4, <1>2
<1> QED BY <1>6, <1>7, <1>8 DEF IsCoalesced

(***************************************************************************)
(* The loop implements the abstract merge: it starts in a state of the     *)
(* promise, its inner steps are invisible, and the step that ends it       *)
(* replaces the chart with the coalesced one.                              *)
(***************************************************************************)
THEOREM MergeImplementsPromise == Ordered /\ Spec => Implements
<1>1. Ordered /\ Init => Promise!Init
    BY EndAssumption DEF Init, Begin, Promise!Init
<1>2. IInv' => Result'
    BY Coalesced, PTL
<1>3. IInv /\ IInv' /\ [Next]_vars => [Promise!Merge]_(Promise!vars)
    <2> SUFFICES ASSUME IInv, IInv', [Next]_vars
                 PROVE  [Promise!Merge]_(Promise!vars)
        OBVIOUS
    <2> USE DEF Promise!Merge, Promise!vars
    <2>1. CASE Absorb
        BY <2>1 DEF Absorb
    <2>2. CASE Advance
        <3>1. itr # End /\ itr' # End /\ chart' = chart
            BY <2>2, EndAssumption DEF Advance, IInv, TypeOK
        <3> QED BY <3>1
    <2>3. CASE Finish
        <3>1. chart' = chart /\ itr # End /\ itr' = End
            BY <2>3 DEF Finish
        <3>2. IsCoalesced(terr', chart, Tolerance)
            BY <3>1, <1>2 DEF Result
        <3>3. Promise!IsCoalesced(terr', chart, Tolerance)
            BY <3>2 DEF IsCoalesced, Starts, Run,
                        Promise!IsCoalesced, Promise!Starts, Promise!Run
        <3> QED BY <3>1, <3>3
    <2>4. CASE UNCHANGED vars
        BY <2>4 DEF vars
    <2> QED BY <2>1, <2>2, <2>3, <2>4 DEF Next
<1> QED BY <1>1, <1>3, Inductive, PTL DEF Spec, Implements, Promise!Spec
------------------------------------------------------------------------------
(***************************************************************************)
(* The loop and its result in one step, whether ends are ordered or not.   *)
(* The iterator is at the range whose end is that of the last one visited; *)
(* behind that nothing has changed, and before it only what stays is left. *)
(***************************************************************************)
Left == Stays(chart, Tolerance)

Ends(k) == \E e \in DOMAIN chart :
    IsLastOf(chart, Tolerance, k, e) /\ terr[k] = chart[e]

Visited(v) ==
    /\ v \in DOMAIN chart /\ itr =< v /\ terr[itr] = chart[v]
    /\ \A k \in DOMAIN chart : v < k => k \in DOMAIN terr /\ terr[k] = chart[k]
    /\ \A k \in DOMAIN chart : k =< v => (k \in DOMAIN terr <=> k \in Left)
    /\ \A s \in Left : s =< itr \/ v < s

FInv ==
    /\ IsTerritory(chart) /\ End \notin DOMAIN chart
    /\ terr = [k \in DOMAIN terr |-> terr[k]] /\ DOMAIN terr \subseteq DOMAIN chart
    /\ itr \in DOMAIN terr \cup {End}
    /\ itr # End => (\E v \in DOMAIN chart : Visited(v)) /\ \A k \in DOMAIN terr : k < itr => Ends(k)
    /\ itr = End => DOMAIN terr = Left /\ \A k \in DOMAIN terr : Ends(k)

\* A set of numbers has a least one.
LEMMA LeastOf == ASSUME NEW S \in SUBSET Nat, S # {}
                 PROVE  \E x \in S : \A y \in S : x =< y
<1> DEFINE R == {p \in Nat \X Nat : p[1] < p[2]}
<1>1. IsWellFoundedOn(R, Nat)
    BY NatLessThanWellFounded DEF OpToRel
<1>2. \E x \in S : \A y \in S : ~(<<y, x>> \in R)
    <2> HIDE DEF R
    <2> QED BY <1>1, WFMin
<1>3. PICK x \in S : \A y \in S : ~(y < x)
    BY <1>2
<1> QED BY <1>3

\* A range that stays has one last range.
LEMMA OneLast ==
    ASSUME NEW c, IsTerritory(c), NEW tol, NEW k \in DOMAIN c, NEW e, NEW f,
           IsLastOf(c, tol, k, e), IsLastOf(c, tol, k, f), e < f
    PROVE  FALSE
<1> DEFINE S == {n \in DOMAIN c : e < n}
<1>1. S \subseteq Nat /\ f \in S /\ e \in Nat /\ k =< e /\ DOMAIN c \subseteq Nat
    BY DEF IsLastOf, IsTerritory
<1>2. PICK n \in S : \A y \in S : n =< y
    <2> HIDE DEF S
    <2> QED BY <1>1, LeastOf
<1>3. IsNextKey(c, e, n)
    BY <1>2 DEF IsNextKey
<1>4. n \in Stays(c, tol) /\ n \in DOMAIN c
    BY <1>3 DEF IsLastOf
<1>5. k \in Nat
    BY <1>1
<1>6. n =< k \/ f < n
    BY <1>4 DEF IsLastOf
<1>7. n =< f /\ e < n /\ n \in Nat /\ f \in Nat
    BY <1>1, <1>2
<1> QED BY <1>1, <1>5, <1>6, <1>7

LEMMA InitFInv == Init => FInv
<1> SUFFICES ASSUME Init PROVE FInv
    OBVIOUS
<1>1. IsTerritory(chart) /\ End \notin DOMAIN chart /\ terr = chart
    BY ChartsAssumption, EndAssumption DEF Init
<1>2. terr = [k \in DOMAIN terr |-> terr[k]] /\ itr \in DOMAIN terr \cup {End}
    BY <1>1 DEF IsTerritory, Init
<1>3. CASE itr # End
    <2>1. itr \in DOMAIN chart /\ \A k \in DOMAIN chart : itr =< k
        BY <1>3 DEF Init, Begin
    <2>2. itr \in Left
        BY <1>1, <2>1 DEF Left, Stays, IsNextKey, IsTerritory
    <2>3. Left \subseteq DOMAIN chart
        BY DEF Left, Stays
    <2>4. \A k \in DOMAIN chart : k \in Nat
        BY <1>1 DEF IsTerritory
    <2>5. Visited(itr)
        BY <1>1, <2>1, <2>2, <2>3, <2>4 DEF Visited
    <2>6. \A k \in DOMAIN terr : ~(k < itr)
        BY <1>1, <2>1, <2>4
    <2> QED BY <1>1, <1>2, <1>3, <2>1, <2>5, <2>6 DEF FInv
<1>4. CASE itr = End
    <2>1. DOMAIN chart = {}
        BY <1>1, <1>4 DEF Init, Begin
    <2> QED BY <1>1, <1>2, <1>4, <2>1 DEF FInv, Left, Stays
<1> QED BY <1>3, <1>4

\* The next range of the map is the one that follows the last one visited.
LEMMA NextVisited ==
    ASSUME FInv, itr # End, NEW v \in DOMAIN chart, Visited(v),
           NEW next \in DOMAIN terr, IsNextKey(terr, itr, next)
    PROVE  /\ itr \in Nat /\ v \in Nat /\ next \in Nat /\ itr \in DOMAIN terr
           /\ v < next /\ next \in DOMAIN chart /\ terr[next] = chart[next]
           /\ \A k \in DOMAIN chart : v < k => next =< k
           /\ \A p \in DOMAIN chart : IsNextKey(chart, p, next) <=> p = v
<1>1. /\ DOMAIN terr \subseteq DOMAIN chart /\ \A k \in DOMAIN chart : k \in Nat
      /\ itr \in DOMAIN terr
    BY DEF FInv, IsTerritory
<1>2. v < next
    <2> SUFFICES ASSUME next =< v PROVE FALSE
        BY <1>1
    <2>1. next \in Left /\ itr < next
        BY <1>1 DEF Visited, IsNextKey
    <2> QED BY <1>1, <2>1 DEF Visited
<1>3. \A k \in DOMAIN chart : v < k => next =< k
    <2> SUFFICES ASSUME NEW k \in DOMAIN chart, v < k PROVE next =< k
        OBVIOUS
    <2>1. k \in DOMAIN terr /\ itr < k
        BY <1>1 DEF Visited
    <2> QED BY <2>1 DEF IsNextKey
<1>4. \A p \in DOMAIN chart : IsNextKey(chart, p, next) <=> p = v
    BY <1>1, <1>2, <1>3 DEF IsNextKey
<1> QED BY <1>1, <1>2, <1>3, <1>4 DEF Visited

LEMMA AbsorbFInv == ASSUME FInv, Absorb PROVE FInv'
<1>1. PICK next \in DOMAIN terr :
          /\ IsNextKey(terr, itr, next)
          /\ WithinTolerance(terr, itr, next, Tolerance)
          /\ terr' = Absorbed(terr, itr, next)
    BY DEF Absorb
<1>2. itr # End /\ chart' = chart /\ itr' = itr
    BY DEF Absorb
<1>3. PICK v \in DOMAIN chart : Visited(v)
    BY <1>2 DEF FInv
<1>4. /\ itr \in Nat /\ v \in Nat /\ next \in Nat /\ itr \in DOMAIN terr
      /\ v < next /\ next \in DOMAIN chart /\ terr[next] = chart[next]
      /\ \A k \in DOMAIN chart : v < k => next =< k
      /\ \A p \in DOMAIN chart : IsNextKey(chart, p, next) <=> p = v
    BY <1>1, <1>2, <1>3, NextVisited
<1>5. IsTerritory(chart) /\ DOMAIN terr \subseteq DOMAIN chart
      /\ \A k \in DOMAIN chart : k \in Nat
    BY DEF FInv, IsTerritory
<1>6. next \notin Left
    BY <1>1, <1>3, <1>4 DEF Left, Stays, WithinTolerance, Visited
<1>7. /\ DOMAIN terr' = DOMAIN terr \ {next} /\ terr'[itr] = terr[next]
      /\ terr' = [k \in DOMAIN terr' |-> terr'[k]]
      /\ \A k \in DOMAIN terr' : k # itr => terr'[k] = terr[k]
    BY <1>1, <1>4 DEF Absorbed, IsNextKey
<1>8. Left' = Left
    BY <1>2 DEF Left
<1>9. itr < next
    BY <1>1 DEF IsNextKey
<1>10. Visited(next)'
    <2>1. itr =< next /\ terr'[itr] = chart[next] /\ next \in DOMAIN chart
        BY <1>4, <1>7, <1>9
    <2>2. ASSUME NEW k \in DOMAIN chart, next < k PROVE k \in DOMAIN terr' /\ terr'[k] = chart[k]
        <3>1. v < k /\ k # itr /\ k # next
            BY <1>4, <1>5, <1>9, <2>2
        <3> QED BY <1>3, <1>7, <3>1 DEF Visited
    <2>3. ASSUME NEW k \in DOMAIN chart, k =< next PROVE k \in DOMAIN terr' <=> k \in Left
        <3>1. CASE k = next
            BY <1>6, <1>7, <3>1
        <3>2. CASE k # next
            <4>1. k =< v
                BY <1>4, <1>5, <2>3, <3>2
            <4> QED BY <1>3, <1>7, <3>2, <4>1 DEF Visited
        <3> QED BY <3>1, <3>2
    <2>4. ASSUME NEW s \in Left PROVE s =< itr \/ next < s
        <3>1. s \in DOMAIN chart /\ s # next
            BY <1>6 DEF Left, Stays
        <3> QED BY <1>3, <1>4, <1>5, <3>1 DEF Visited
    <2> QED BY <1>2, <1>8, <2>1, <2>2, <2>3, <2>4 DEF Visited
<1>11. ASSUME NEW k \in DOMAIN terr', k < itr PROVE Ends(k)'
    <2>1. k \in DOMAIN terr /\ terr'[k] = terr[k]
        BY <1>4, <1>7, <1>11
    <2>2. Ends(k)
        BY <1>2, <1>11, <2>1 DEF FInv
    <2> QED BY <1>2, <2>1, <2>2 DEF Ends
<1> QED BY <1>2, <1>4, <1>5, <1>7, <1>9, <1>10, <1>11 DEF FInv

\* The range the iterator leaves ends with the last one visited.
LEMMA LeftEnds ==
    ASSUME FInv, itr # End, NEW v \in DOMAIN chart, Visited(v), UNCHANGED <<chart, terr>>,
           \A n \in DOMAIN chart : IsNextKey(chart, v, n) => n \in Left,
           NEW k \in DOMAIN terr, k =< itr
    PROVE  Ends(k)'
<1>1. DOMAIN terr \subseteq DOMAIN chart /\ \A j \in DOMAIN chart : j \in Nat
    BY DEF FInv, IsTerritory
<1>2. CASE k = itr
    <2>1. IsLastOf(chart, Tolerance, itr, v)
        BY DEF IsLastOf, Visited, Left
    <2> QED BY <1>2, <2>1 DEF Ends, Visited
<1>3. CASE k < itr
    <2>1. Ends(k)
        BY <1>3 DEF FInv
    <2> QED BY <2>1 DEF Ends
<1>4. itr \in DOMAIN terr
    BY DEF FInv
<1> QED BY <1>1, <1>2, <1>3, <1>4

LEMMA AdvanceFInv == ASSUME FInv, Advance PROVE FInv'
<1>1. PICK next \in DOMAIN terr :
          /\ IsNextKey(terr, itr, next)
          /\ ~WithinTolerance(terr, itr, next, Tolerance)
          /\ itr' = next
    BY DEF Advance
<1>2. itr # End /\ UNCHANGED <<chart, terr>>
    BY DEF Advance
<1>3. PICK v \in DOMAIN chart : Visited(v)
    BY <1>2 DEF FInv
<1>4. /\ itr \in Nat /\ v \in Nat /\ next \in Nat /\ itr \in DOMAIN terr
      /\ v < next /\ next \in DOMAIN chart /\ terr[next] = chart[next]
      /\ \A k \in DOMAIN chart : v < k => next =< k
      /\ \A p \in DOMAIN chart : IsNextKey(chart, p, next) <=> p = v
    BY <1>1, <1>2, <1>3, NextVisited
<1>5. DOMAIN terr \subseteq DOMAIN chart /\ \A k \in DOMAIN chart : k \in Nat
    BY DEF FInv, IsTerritory
<1>6. next \in Left
    BY <1>1, <1>3, <1>4 DEF Left, Stays, WithinTolerance, Visited
<1>7. itr < next /\ \A k \in DOMAIN terr : itr < k => next =< k
    BY <1>1 DEF IsNextKey
<1>8. Left' = Left
    BY <1>2 DEF Left
<1>9. Visited(next)'
    <2>1. ASSUME NEW k \in DOMAIN chart, next < k PROVE k \in DOMAIN terr /\ terr[k] = chart[k]
        BY <1>3, <1>4, <1>5, <2>1 DEF Visited
    <2>2. ASSUME NEW k \in DOMAIN chart, k =< next PROVE k \in DOMAIN terr <=> k \in Left
        <3>1. CASE k = next
            BY <1>6, <3>1
        <3>2. CASE k # next
            <4>1. k =< v
                BY <1>4, <1>5, <2>2, <3>2
            <4> QED BY <1>3, <4>1 DEF Visited
        <3> QED BY <3>1, <3>2
    <2>3. ASSUME NEW s \in Left PROVE s =< next \/ next < s
        BY <1>4, <1>5 DEF Left, Stays
    <2>4. next =< next
        BY <1>4
    <2> QED BY <1>1, <1>2, <1>4, <1>8, <2>1, <2>2, <2>3, <2>4 DEF Visited
<1>10. \A n \in DOMAIN chart : IsNextKey(chart, v, n) => n \in Left
    <2> SUFFICES ASSUME NEW n \in DOMAIN chart, IsNextKey(chart, v, n) PROVE n = next
        BY <1>6
    <2> QED BY <1>4, <1>5 DEF IsNextKey
<1>11. ASSUME NEW k \in DOMAIN terr', k < itr' PROVE Ends(k)'
    <2>1. k \in DOMAIN terr /\ k =< itr
        BY <1>1, <1>2, <1>4, <1>5, <1>7, <1>11
    <2> QED BY <1>2, <1>3, <1>10, <2>1, LeftEnds
<1>12. itr' # End
    BY <1>1, <1>4 DEF FInv
<1> QED BY <1>1, <1>2, <1>4, <1>9, <1>11, <1>12 DEF FInv

LEMMA FinishFInv == ASSUME FInv, Finish PROVE FInv'
<1>1. itr # End /\ itr' = End /\ UNCHANGED <<chart, terr>> /\ \A k \in DOMAIN terr : k =< itr
    BY DEF Finish
<1>2. PICK v \in DOMAIN chart : Visited(v)
    BY <1>1 DEF FInv
<1>3. /\ itr \in DOMAIN terr /\ DOMAIN terr \subseteq DOMAIN chart
      /\ \A k \in DOMAIN chart : k \in Nat
    BY <1>1 DEF FInv, IsTerritory
<1>4. \A k \in DOMAIN chart : k =< v
    BY <1>1, <1>2, <1>3 DEF Visited
<1>5. DOMAIN terr = Left
    BY <1>2, <1>3, <1>4 DEF Visited, Left, Stays
<1>6. \A n \in DOMAIN chart : ~IsNextKey(chart, v, n)
    BY <1>3, <1>4 DEF IsNextKey
<1>7. \A k \in DOMAIN terr' : Ends(k)'
    BY <1>1, <1>2, <1>6, LeftEnds
<1>8. Left' = Left
    BY <1>1 DEF Left
<1> QED BY <1>1, <1>5, <1>7, <1>8 DEF FInv

\* The loop leaves of a chart what Geometry goes on with, for every chart, its
\* ends ordered or not, and every tolerance.
THEOREM FoldedAlways == Spec => []Folded
<1>1. Init => FInv
    BY InitFInv
<1>2. FInv /\ [Next]_vars => FInv'
    <2> SUFFICES ASSUME FInv, [Next]_vars PROVE FInv'
        OBVIOUS
    <2>1. CASE UNCHANGED vars
        BY <2>1 DEF vars, FInv, Visited, Ends, Left
    <2> QED BY <2>1, AbsorbFInv, AdvanceFInv, FinishFInv DEF Next
<1>3. FInv => Folded
    <2> SUFFICES ASSUME FInv, itr = End PROVE terr = MergeResult(chart, Tolerance)
        BY DEF Folded
    <2>1. terr = [k \in DOMAIN terr |-> terr[k]] /\ DOMAIN terr = Left
        BY DEF FInv
    <2>2. ASSUME NEW k \in Left
          PROVE  terr[k] = chart[CHOOSE e \in DOMAIN chart : IsLastOf(chart, Tolerance, k, e)]
        <3>1. PICK e \in DOMAIN chart : IsLastOf(chart, Tolerance, k, e) /\ terr[k] = chart[e]
            BY <2>1 DEF FInv, Ends
        <3>2. IsTerritory(chart) /\ k \in DOMAIN chart /\ \A j \in DOMAIN chart : j \in Nat
            BY DEF FInv, Left, Stays, IsTerritory
        <3>3. \A f \in DOMAIN chart : IsLastOf(chart, Tolerance, k, f) => f = e
            BY <3>1, <3>2, OneLast
        <3> QED BY <3>1, <3>3
    <2> QED BY <2>1, <2>2 DEF MergeResult, Left
<1> QED BY <1>1, <1>2, <1>3, PTL DEF Spec
==============================================================================
