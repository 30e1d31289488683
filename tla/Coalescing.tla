----------------------------- MODULE Coalescing ------------------------------
(***************************************************************************)
(* The promise of Geometry::MergeExtents: the chart is replaced, once, by  *)
(* the coalesced one.                                                      *)
(***************************************************************************)
EXTENDS Territory

CONSTANTS Charts, Tolerance

VARIABLES chart, merged, done

vars == <<chart, merged, done>>

Init ==
    /\ chart \in Charts
    /\ merged = chart
    /\ done = (DOMAIN chart = {})

Merge ==
    /\ ~done
    /\ done' = TRUE
    /\ chart' = chart
    /\ IsCoalesced(merged', chart, Tolerance)

Spec == Init /\ [][Merge]_vars
==============================================================================
