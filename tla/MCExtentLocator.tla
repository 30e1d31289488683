--------------------------- MODULE MCExtentLocator ---------------------------
(***************************************************************************)
(* The extent locator with two files on one or two devices.                *)
(***************************************************************************)
EXTENDS ExtentLocator, TLC

CONSTANTS f1, f2, d1, d2

MCFiles == {f1, f2}
MCDevices == {d1, d2}
MCBlocks == 1 .. 3

\* Both files on one device, with a surface; or on two, one without.
MCDevice ==
    \/ device = [f \in Files |-> d1] /\ substitute = [d \in {d1} |-> "surface 1"]
    \/ /\ device = (f1 :> d1 @@ f2 :> d2)
       /\ substitute = (d2 :> "surface 2")

\* The places are taken from the first on: which they are makes no difference.
MCTaken == LET taken == SelectSeq(content[f1] \o content[f2],
                                  LAMBDA x : x.kind \in Placed)
           IN \A i \in DOMAIN taken : taken[i].block = i

\* The files begin with at most two extents between them, the second with one.
MCSmall == Len(content[f1]) + Len(content[f2]) <= 2 /\ Len(content[f2]) <= 1

MCInit == Init /\ MCDevice /\ MCTaken /\ MCSmall /\ file = f1

MCSpec == MCInit /\ [][Next]_vars /\ WF_vars(Locate)
=============================================================================
