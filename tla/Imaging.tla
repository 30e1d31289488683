------------------------------- MODULE Imaging -------------------------------
(***************************************************************************)
(* The promise of Volume::represent (impl/volume.h), whatever the          *)
(* filesystem: at some moment the image comes to hold, for a reader of     *)
(* that filesystem, what the source tree has, and it changes no more.      *)
(***************************************************************************)

VARIABLES source, image

Init == image = <<>>

Represent ==
    /\ image = <<>>
    /\ image' = source
    /\ UNCHANGED source

Spec == Init /\ [][Represent]_<<source, image>>
==============================================================================
