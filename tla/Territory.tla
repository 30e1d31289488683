------------------------------ MODULE Territory ------------------------------
(***************************************************************************)
(* The area chart of one source medium (impl/device.h, Territory): a map   *)
(* from the first byte of a range to the byte after its last one.          *)
(*                                                                         *)
(* The module holds the constant part: what a chart is, the step the merge *)
(* loop takes on it, the lookup the layouts do in it, and what a correctly *)
(* coalesced chart is.                                                     *)
(***************************************************************************)
EXTENDS Integers

\* A chart of non-empty ranges.
IsTerritory(t) ==
    /\ t = [k \in DOMAIN t |-> t[k]]
    /\ \A k \in DOMAIN t : k \in Nat /\ t[k] \in Nat /\ k < t[k]

\* No range starts before another one and ends after it.
EndsOrdered(t) ==
    \A k, l \in DOMAIN t : k < l => t[k] =< t[l]

\* The key that follows k in the map: ++itr.
IsNextKey(t, k, n) ==
    /\ n \in DOMAIN t
    /\ k < n
    /\ \A j \in DOMAIN t : k < j => n =< j

\* Mutants of the two definitions below: the gap is compared strictly, or is one
\* byte too wide; the range keeps its end when the next one is erased.
StrictTolerance(t, k, n, tolerance) == n < t[k] + tolerance
WideTolerance(t, k, n, tolerance) == n =< t[k] + tolerance + 1
ErasedOnly(t, k, n) == [j \in DOMAIN t \ {n} |-> t[j]]

\* The loop's condition for connecting the range at n to the one at k.
WithinTolerance(t, k, n, tolerance) == n =< t[k] + tolerance

\* itr->second = next->second; next = extents.erase( next )
Absorbed(t, k, n) ==
    [j \in DOMAIN t \ {n} |-> IF j = k THEN t[n] ELSE t[j]]

\* What the loop of MergeExtents leaves of a chart, for callers in one step: a
\* range stays if the one before it ends too far away, and takes the end of the
\* last one that does not.
Stays(chart, tolerance) ==
    {n \in DOMAIN chart : \A p \in DOMAIN chart :
        IsNextKey(chart, p, n) => ~WithinTolerance(chart, p, n, tolerance)}

IsLastOf(chart, tolerance, k, e) ==
    /\ e \in DOMAIN chart /\ k =< e
    /\ \A s \in Stays(chart, tolerance) : s =< k \/ e < s
    /\ \A n \in DOMAIN chart : IsNextKey(chart, e, n) => n \in Stays(chart, tolerance)

MergeResult(chart, tolerance) ==
    [k \in Stays(chart, tolerance) |->
        chart[CHOOSE e \in DOMAIN chart : IsLastOf(chart, tolerance, k, e)]]

\* upper_bound( offset ) - 1: the last key that is not above the offset.
IsLastKeyUpTo(t, offset, k) ==
    /\ k \in DOMAIN t
    /\ k =< offset
    /\ \A j \in DOMAIN t : j =< offset => j =< k
------------------------------------------------------------------------------
(***************************************************************************)
(* What a coalesced chart is, stated without the loop.  A range starts a   *)
(* run when it is farther than the tolerance from every range before it,   *)
(* and the coalesced chart has one range per run, which ends where the     *)
(* farthest range of the run ends.                                         *)
(***************************************************************************)
Starts(chart, tolerance) ==
    {s \in DOMAIN chart :
        \A p \in DOMAIN chart : p < s => chart[p] + tolerance < s}

Run(chart, tolerance, s) ==
    {p \in DOMAIN chart :
        /\ s =< p
        /\ \A r \in Starts(chart, tolerance) : r =< s \/ p < r}

IsCoalesced(t, chart, tolerance) ==
    /\ DOMAIN t = Starts(chart, tolerance)
    /\ \A s \in DOMAIN t :
          /\ \E p \in Run(chart, tolerance, s) : t[s] = chart[p]
          /\ \A p \in Run(chart, tolerance, s) : chart[p] =< t[s]
==============================================================================
