------------------------------- MODULE UsbSync -------------------------------
(***************************************************************************)
(* The observer of the gadget and the runlevels of init together: they     *)
(* share light.sync.enable, and setting it triggers the rules of           *)
(* init/init.fsv.sync.rc.  Each call of enable() is a SetEnable step of    *)
(* the runlevels, whose bounds the observer does not reach.                *)
(***************************************************************************)
EXTENDS SyncRunlevels, GadgetObserver

ASSUME UsbAssumption == MaxSets > MaxChanges /\ Flurry > MaxChanges

UsbInit == Init /\ ObsInit

others == <<gadget, changes, mail, instance, posted>>
usbVars == <<vars, others>>

\* A step of the observer, with the rules that what it sets triggers.
ObserveBy(A) == A /\ IF sets' = sets THEN UNCHANGED vars ELSE SetEnable

UsbNext ==
    \/ ObserveBy(ObsNext)
    \/ (InitStep \/ Mkfs) /\ UNCHANGED others

UsbSpec ==
    /\ UsbInit /\ [][UsbNext]_usbVars
    /\ WF_usbVars(InitStep /\ UNCHANGED others)
    /\ WF_usbVars(Mkfs /\ UNCHANGED others)
    /\ WF_usbVars(ObserveBy(OnReceive))
    /\ WF_usbVars(ObserveBy(CutOff))

-----------------------------------------------------------------------------
\* A gadget that stops serving for good brings the system to runlevel 0 and
\* the files are released, whatever it did before: fsview_mkfs retains the
\* files of a disconnected device only for a while.
FilesFreed == <>[]~Serving(gadget) => <>[](status = 0 /\ svc = "stopped")
==============================================================================
