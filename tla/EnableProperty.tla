--------------------------- MODULE EnableProperty ---------------------------
(***************************************************************************)
(* light.sync.enable, the one property the observer sets and the rules of  *)
(* init wait for.                                                          *)
(***************************************************************************)

VARIABLES
    enable,   \* light.sync.enable
    sets      \* how often the observer has set it
=============================================================================
