--------------------------- MODULE MCTreeBuilder ----------------------------
(***************************************************************************)
(* Small maps for TreeBuilder.                                             *)
(***************************************************************************)
EXTENDS TreeBuilder

CONSTANTS MaxRecords, Sizes, KeyLens, ValueLens

Record(i, k, v) == [key |-> <<i \div 2, i>>, klen |-> k, vlen |-> v, value |-> i]

SmallMaps ==
    {[recs |-> [i \in 1 .. n |-> Record(i, l[i], v)], nodeSize |-> s] :
        n \in 0 .. MaxRecords, s \in Sizes, v \in ValueLens, l \in [1 .. MaxRecords -> KeyLens]}
==============================================================================
