--------------------------- MODULE GadgetObserver ----------------------------
(***************************************************************************)
(* The broadcast receiver of android/MSGModeObserver, which turns what     *)
(* Android says of the USB gadget into light.sync.enable.                  *)
(*                                                                         *)
(* Android is external: the state of the gadget changes at any moment, a   *)
(* broadcast replaces one not yet delivered, and since the receiver is     *)
(* declared in AndroidManifest.xml each delivery makes an instance of its  *)
(* own, with its own handler and its own cutOff.  The linger is not timed: *)
(* a posted cutOff runs at some later moment.  The process outlives it, as *)
(* the comment on MAX_SHUTDOWN_LINGER_MS reckons.                          *)
(***************************************************************************)
EXTENDS Naturals, Sequences, FiniteSets, EnableProperty

CONSTANTS
    MaxChanges,   \* bound: how often the gadget changes
    Lingers       \* linger() > 0

ASSUME ObserverAssumption == MaxChanges \in Nat /\ Lingers \in BOOLEAN

VARIABLES
    gadget,     \* up: connected or configured; mode: unlocked mass storage
    changes,    \* how often it has changed
    mail,       \* the broadcast not yet delivered, if there is one
    instance,   \* the instances of the receiver so far
    posted      \* those whose cutOff is posted

receiver == <<mail, instance, posted>>
obsVars == <<gadget, changes, receiver, enable, sets>>

Gadgets == [up : BOOLEAN, mode : BOOLEAN]

Serving(g) == g.up /\ g.mode

Enable(e) == enable' = e /\ sets' = sets + 1

Change ==
    /\ changes < MaxChanges
    /\ changes' = changes + 1
    /\ gadget' \in Gadgets
    /\ mail' = <<gadget'>>
    /\ UNCHANGED <<instance, posted, enable, sets>>

Receive ==
    /\ mail # <<>>
    /\ mail' = <<>>
    /\ instance' = instance + 1
    /\ UNCHANGED <<gadget, changes>>

\* Handler.removeCallbacks: only what this instance has posted.
StopCutOff == posted' = posted \ {instance'}

OnUp ==
    /\ Receive
    /\ Serving(mail[1])
    /\ StopCutOff
    /\ Enable(1)

\* Mutant of the definition below: a lost connection is not cut off.
OnDownForgotten ==
    /\ Receive
    /\ mail[1].mode /\ ~mail[1].up
    /\ UNCHANGED <<posted, enable, sets>>

OnDown ==
    /\ Receive
    /\ mail[1].mode /\ ~mail[1].up
    /\ IF Lingers
       THEN posted' = posted \cup {instance'} /\ UNCHANGED <<enable, sets>>
       ELSE Enable(0) /\ UNCHANGED posted

\* Mutant of the definition below: a change of the mode only stops the cutOff.
OnModeKept ==
    /\ Receive
    /\ ~mail[1].mode
    /\ StopCutOff
    /\ UNCHANGED <<enable, sets>>

OnMode ==
    /\ Receive
    /\ ~mail[1].mode
    /\ StopCutOff
    /\ Enable(0)

\* Mutant of the definition below: the callback is not removed when it runs.
CutOffAgain ==
    \E i \in posted :
        /\ Enable(0)
        /\ UNCHANGED <<gadget, changes, receiver>>

CutOff ==
    \E i \in posted :
        /\ posted' = posted \ {i}
        /\ Enable(0)
        /\ UNCHANGED <<gadget, changes, mail, instance>>

OnReceive == OnUp \/ OnDown \/ OnMode

\* BOOT_COMPLETED asks for the sticky broadcast.
ObsInit ==
    /\ gadget \in Gadgets /\ changes = 0
    /\ mail = <<gadget>> /\ instance = 0 /\ posted = {}
    /\ enable = 0 /\ sets = 0

ObsNext == Change \/ OnReceive \/ CutOff

ObsFairness == WF_obsVars(OnReceive) /\ WF_obsVars(CutOff)

ObsSpec == ObsInit /\ [][ObsNext]_obsVars /\ ObsFairness

-----------------------------------------------------------------------------
\* The variables stay in their ranges, and a broadcast sets the property once
\* at most, at once or when its cutOff runs.
ObsTypeOK ==
    /\ gadget \in Gadgets /\ changes \in 0 .. MaxChanges
    /\ mail = <<>> \/ mail \in {<<g>> : g \in Gadgets}
    /\ posted \subseteq 1 .. instance /\ instance \in 0 .. changes + 1
    /\ enable \in {0, 1}
    /\ sets \in Nat /\ sets + Cardinality(posted) <= instance

\* Enabled without a broadcast on the way, the gadget serves or a cutOff will
\* still run: no order of broadcasts and callbacks leaves the property on.
NotStuckOn == enable = 1 /\ mail = <<>> => Serving(gadget) \/ posted # {}

\* Once the gadget no longer serves, the property goes off and stays off.
CutsOff == <>[]~Serving(gadget) => <>[](enable = 0)

\* A flurry of broadcasts that ends with the gadget serving leaves the property
\* on (ANDROID.md: the linger timeout stabilizes the response).
Stabilized == Serving(gadget) /\ mail = <<>> /\ posted = {} => enable = 1
==============================================================================
