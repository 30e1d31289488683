--------------------------- MODULE MCMergeExtents ----------------------------
(***************************************************************************)
(* Every chart of non-empty ranges over a small medium, with ends in the   *)
(* order of the starts.                                                    *)
(***************************************************************************)
EXTENDS MergeExtents, FiniteSets

\* MediumSize bounds the medium, MaxRanges the ranges on a chart.
CONSTANTS MediumSize, MaxRanges

OrderedCharts ==
    {t \in UNION {[K -> 1 .. MediumSize] : K \in SUBSET (0 .. MediumSize - 1)} :
        IsTerritory(t) /\ EndsOrdered(t) /\ Cardinality(DOMAIN t) =< MaxRanges}

==============================================================================
