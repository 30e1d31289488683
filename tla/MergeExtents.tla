---------------------------- MODULE MergeExtents -----------------------------
(***************************************************************************)
(* Geometry::MergeExtents (impl/device.cpp): the two nested loops that     *)
(* walk an area chart and connect the ranges separated by at most          *)
(* Tolerance bytes.  One action per loop iteration.                        *)
(*                                                                         *)
(* chart is the chart the method is called with, kept to relate the result *)
(* to it; terr is the map the loop edits in place; itr is the loop's       *)
(* iterator, a key of terr or End.                                         *)
(***************************************************************************)
EXTENDS Territory

CONSTANTS Charts,     \* the charts the method may be called with
          Tolerance,  \* the gap configured for the volume (Geometry::gap)
          End         \* extents.end()

ASSUME ToleranceAssumption == Tolerance \in Nat

ASSUME ChartsAssumption == \A c \in Charts : IsTerritory(c)

ASSUME EndAssumption == \A c \in Charts : End \notin DOMAIN c

VARIABLES chart, terr, itr

vars == <<chart, terr, itr>>

\* itr = extents.begin()
Begin(t, i) ==
    \/ DOMAIN t = {} /\ i = End
    \/ i \in DOMAIN t /\ \A k \in DOMAIN t : i =< k

Init ==
    /\ chart \in Charts
    /\ terr = chart
    /\ itr \in DOMAIN chart \cup {End}
    /\ Begin(terr, itr)

\* Mutants of the actions below: the iterator moves to the erased range; the
\* inner loop connects one range only; the outer loop forgets ++itr.
AbsorbErased ==
    /\ itr # End
    /\ \E next \in DOMAIN terr :
          /\ IsNextKey(terr, itr, next)
          /\ WithinTolerance(terr, itr, next, Tolerance)
          /\ terr' = Absorbed(terr, itr, next)
          /\ itr' = next
    /\ UNCHANGED chart

AbsorbOnce ==
    /\ itr # End
    /\ \E next \in DOMAIN terr :
          /\ IsNextKey(terr, itr, next)
          /\ WithinTolerance(terr, itr, next, Tolerance)
          /\ terr' = Absorbed(terr, itr, next)
          /\ itr' \in (DOMAIN terr \ {next}) \cup {End}
          /\ IF \E j \in DOMAIN terr : next < j
             THEN IsNextKey(terr, next, itr')
             ELSE itr' = End
    /\ UNCHANGED chart

AdvanceNowhere ==
    /\ itr # End
    /\ \E next \in DOMAIN terr :
          /\ IsNextKey(terr, itr, next)
          /\ ~WithinTolerance(terr, itr, next, Tolerance)
    /\ UNCHANGED vars

\* An iteration of the inner loop: the next range is within the tolerance.
Absorb ==
    /\ itr # End
    /\ \E next \in DOMAIN terr :
          /\ IsNextKey(terr, itr, next)
          /\ WithinTolerance(terr, itr, next, Tolerance)
          /\ terr' = Absorbed(terr, itr, next)
    /\ UNCHANGED <<chart, itr>>

\* The inner loop ends at a range too far away; ++itr.
Advance ==
    /\ itr # End
    /\ \E next \in DOMAIN terr :
          /\ IsNextKey(terr, itr, next)
          /\ ~WithinTolerance(terr, itr, next, Tolerance)
          /\ itr' = next
    /\ UNCHANGED <<chart, terr>>

\* The inner loop ends at the end of the map; ++itr.
Finish ==
    /\ itr # End
    /\ \A k \in DOMAIN terr : k =< itr
    /\ itr' = End
    /\ UNCHANGED <<chart, terr>>

Next == Absorb \/ Advance \/ Finish

Spec == Init /\ [][Next]_vars

\* The loop runs on the crawl's only thread and nothing blocks it.
FairSpec == Spec /\ WF_vars(Next)
------------------------------------------------------------------------------
TypeOK ==
    /\ chart \in Charts
    /\ IsTerritory(terr)
    /\ DOMAIN terr \subseteq DOMAIN chart
    /\ itr \in DOMAIN terr \cup {End}

(***************************************************************************)
(* The lookup of Colonies::withinDisk finds every charted range whole, in  *)
(* every state of the loop: the last key not above the range's first byte  *)
(* is the key of a range that holds all its bytes.                         *)
(***************************************************************************)
Located ==
    \A o \in DOMAIN chart : \A k \in DOMAIN terr :
        IsLastKeyUpTo(terr, o, k) => chart[o] =< terr[k]

(***************************************************************************)
(* Merging exposes no more of the source medium than the gaps it was told  *)
(* to ignore: inside a merged range, a charted range starts at most        *)
(* Tolerance bytes after the end of a charted range before it.             *)
(***************************************************************************)
LeakBounded ==
    \A k \in DOMAIN terr : \A o \in DOMAIN chart :
        k < o /\ o < terr[k] =>
            \E p \in DOMAIN chart : k =< p /\ p < o /\ o =< chart[p] + Tolerance

(***************************************************************************)
(* The ranges the iterator has left are farther apart than the tolerance,  *)
(* so that the result is the smallest chart the tolerance allows.          *)
(***************************************************************************)
Separated ==
    \A k, l \in DOMAIN terr :
        k < l /\ (itr = End \/ k < itr) => terr[k] + Tolerance < l

(***************************************************************************)
(* What Geometry takes for the loop is what the loop leaves, whether the   *)
(* ends of the chart are ordered or not.                                   *)
(***************************************************************************)
Folded == itr = End => terr = MergeResult(chart, Tolerance)

\* When the loop ends, the chart is the coalesced one.
Result == itr = End => IsCoalesced(terr, chart, Tolerance)

\* The loop ends.
Terminates == <>(itr = End)
------------------------------------------------------------------------------
(***************************************************************************)
(* The loop as one step: the caller sees the chart before it and after it. *)
(***************************************************************************)
Promise == INSTANCE Coalescing
    WITH merged <- IF itr = End THEN terr ELSE chart, done <- (itr = End)

\* The loop implements the abstract merge.
Implements == Promise!Spec
==============================================================================
