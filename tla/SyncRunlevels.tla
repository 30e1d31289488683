---------------------------- MODULE SyncRunlevels ----------------------------
(***************************************************************************)
(* The runlevels of init/init.fsv.sync.rc and the scripts they execute,    *)
(* with the two mapped devices, the three LUNs of the gadget, the service  *)
(* that retains the files and the scratch images.                          *)
(*                                                                         *)
(* Android's init is external.  Setting a property, even to the value it   *)
(* has, appends to the queue each action whose conditions hold at that     *)
(* moment, unless it waits there already; init takes one action at a time  *)
(* and runs its commands in order, whatever the properties have become     *)
(* since; exec holds the queue back until the script ends, but not the     *)
(* properties; start does nothing for a service that runs; the process of  *)
(* a stopped service is gone before the next command ends.  A script is    *)
(* one step, since what it changes only init and mkfs can see.             *)
(*                                                                         *)
(* An action is named by its conditions <<status, enable>>.                *)
(***************************************************************************)
EXTENDS Naturals, Sequences, Functions, EnableProperty

CONSTANTS
    MaxSets,   \* bound: how often the observer sets light.sync.enable
    Flurry,    \* how many of these may follow each other with no rest between
    Flaky      \* the tools that may fail: a subset of {"scratch", "handoff"}

ASSUME SyncAssumption ==
    /\ MaxSets \in Nat /\ Flurry \in Nat \ {0}
    /\ Flaky \subseteq {"scratch", "handoff"}

VARIABLES
    status,   \* light.sync.status
    flurry,   \* how often since everything was last at rest
    queue,    \* the actions that wait to be run
    todo,     \* the commands left of the action that runs
    svc,      \* instant_sync: "stopped", "indexing", "loading" or "waiting"
    hd, cd,   \* virtualhd and virtualcd
    shown,    \* which of them the gadget has open, in lun and lun0
    lun1,     \* the scratch image the gadget has open, 0 for none
    handoff,  \* light.sync.handoff, 0 for empty
    images    \* what became of each scratch image, in the order of creation

devices == <<hd, cd>>
props == <<status, enable, queue>>
observer == <<sets, flurry>>
uploads == <<lun1, handoff, images>>
vars == <<props, observer, todo, svc, devices, shown, uploads>>

-----------------------------------------------------------------------------
(* init *)

Rules == ((0 .. 3) \X {1}) \cup ((1 .. 4) \X {0})

Up(level) ==
    CASE level = 0 -> <<"start">>
      [] level = 1 -> <<"mkcdrom", "set2">>
      [] level = 2 -> <<"scratch", "set3">>
      [] level = 3 -> <<"publish", "set4">>

\* Mutants of the definition below: runlevel 1 is skipped; the status is set
\* before the device is torn down; the service is stopped first of all.
DownSkipping(level) ==
    CASE level = 4 -> <<"reclaim">>
      [] level = 3 -> <<"handoff", "set2">>
      [] level = 2 -> <<"downcd", "set0">>
      [] level = 1 -> <<"stop", "downhd", "set0">>

DownEarly(level) ==
    CASE level = 4 -> <<"reclaim">>
      [] level = 3 -> <<"handoff", "set2">>
      [] level = 2 -> <<"downcd", "set1">>
      [] level = 1 -> <<"stop", "set0", "downhd">>

DownStopping(level) ==
    CASE level = 4 -> <<"stop", "reclaim">>
      [] level = 3 -> <<"handoff", "set2">>
      [] level = 2 -> <<"downcd", "set1">>
      [] level = 1 -> <<"downhd", "set0">>

Down(level) ==
    CASE level = 4 -> <<"reclaim">>
      [] level = 3 -> <<"handoff", "set2">>
      [] level = 2 -> <<"downcd", "set1">>
      [] level = 1 -> <<"stop", "downhd", "set0">>

Commands(rule) == IF rule[2] = 1 THEN Up(rule[1]) ELSE Down(rule[1])

Enqueue(q, a) ==
    IF a \in Rules /\ a \notin Range(q) THEN Append(q, a) ELSE q

SetStatus(n) ==
    /\ status' = n
    /\ queue' = Enqueue(queue, <<n, enable>>)
    /\ UNCHANGED enable

Dequeue ==
    /\ todo = <<>> /\ queue # <<>>
    /\ todo' = Commands(Head(queue))
    /\ queue' = Tail(queue)
    /\ UNCHANGED <<status, enable, observer, svc, devices, shown, uploads>>

\* The command that ends now.
Command(name) ==
    /\ todo # <<>> /\ Head(todo) = name
    /\ todo' = Tail(todo)
    /\ UNCHANGED observer

\* Mutant of the definition below: the last runlevel is off by one.
SetPropPast ==
    \E n \in 0 .. 4 :
        /\ Command(<<"set0", "set1", "set2", "set3", "set4">>[n + 1])
        /\ SetStatus(IF n = 4 THEN 5 ELSE n)
        /\ UNCHANGED <<svc, devices, shown, uploads>>

\* setprop light.sync.status
SetProp ==
    \E n \in 0 .. 4 :
        /\ Command(<<"set0", "set1", "set2", "set3", "set4">>[n + 1])
        /\ SetStatus(n)
        /\ UNCHANGED <<svc, devices, shown, uploads>>

-----------------------------------------------------------------------------
(* device-mapper: a device is "none", "blank" (created, no table),         *)
(* "live", "bad" (its table was computed from a blank device) or           *)
(* "suspended"; one with a table may be open and then cannot be removed    *)

Mirrors == cd \notin {"none", "blank"}

HdOpen == "hd" \in shown \/ Mirrors

CdOpen == "cd" \in shown

\* DM_DEV_SUSPEND and then DM_DEV_REMOVE, errors reported and ignored.
Removed(open) == IF open THEN "suspended" ELSE "none"

-----------------------------------------------------------------------------
(* instant_sync *)

Start ==
    /\ Command("start")
    /\ svc' = IF svc = "stopped" THEN "indexing" ELSE svc
    /\ UNCHANGED <<props, devices, shown, uploads>>

\* fsview_mkfs opens its target: DM_DEV_CREATE fails if the old one is there.
MkfsOpen ==
    /\ svc = "indexing"
    /\ IF HdOpen
       THEN hd' = "suspended" /\ svc' = "stopped"
       ELSE hd' = "blank" /\ svc' = "loading"
    /\ UNCHANGED <<props, observer, todo, cd, shown, uploads>>

\* Mutant of the definition below: the status is not set.
MkfsSilent ==
    /\ svc = "loading"
    /\ hd' = "live" /\ svc' = "waiting"
    /\ UNCHANGED <<props, observer, todo, cd, shown, uploads>>

\* It loads the table, sets the status and waits for SIGTERM.
MkfsDone ==
    /\ svc = "loading"
    /\ hd' = "live" /\ svc' = "waiting"
    /\ SetStatus(1)
    /\ UNCHANGED <<observer, todo, cd, shown, uploads>>

Stop ==
    /\ Command("stop")
    /\ svc' = "stopped"
    /\ UNCHANGED <<props, devices, shown, uploads>>

-----------------------------------------------------------------------------
(* the scripts, in the order of the runlevels *)

\* fsview_fork: no source, no mirror; a target that is open aborts it.  Only
\* success sets the status.
Mkcdrom ==
    /\ Command("mkcdrom")
    /\ \/ hd = "none" /\ UNCHANGED <<cd, props>>
       \/ hd # "none" /\ CdOpen /\ cd' = "suspended" /\ UNCHANGED props
       \/ hd = "blank" /\ ~CdOpen /\ cd' = "blank" /\ UNCHANGED props
       \/ hd = "blank" /\ ~CdOpen /\ cd' = "bad" /\ SetStatus(2)
       \/ hd \notin {"none", "blank"} /\ ~CdOpen /\ cd' = "live" /\ SetStatus(2)
    /\ UNCHANGED <<svc, hd, shown, uploads>>

Scratch ==
    /\ Command("scratch")
    /\ \/ /\ images' = Append(images, "fresh")
          /\ handoff' = Len(images')
       \/ "scratch" \in Flaky /\ UNCHANGED <<images, handoff>>
    /\ UNCHANGED <<props, svc, devices, shown, lun1>>

\* An empty name writes nothing; a device without a table closes the LUN; one
\* the host holds keeps what it has.
Opens(dev, state) ==
    CASE state = "none"  -> shown \cap {dev}
      [] state = "blank" -> {}
      [] OTHER           -> {dev}

Publish ==
    /\ Command("publish")
    /\ \E held \in SUBSET shown :
          shown' = held \cup Opens("hd", hd) \cup Opens("cd", cd)
    /\ \/ handoff # 0 /\ lun1' = handoff /\ images' = [images EXCEPT ![handoff] = "exposed"]
       \/ (handoff = 0 \/ lun1 # 0) /\ UNCHANGED <<lun1, images>>
    /\ UNCHANGED <<props, svc, devices, handoff>>

\* Mutants of the definition below: lun1 is left open, the status not lowered.
ReclaimTwo ==
    /\ Command("reclaim")
    /\ shown' = {}
    /\ SetStatus(3)
    /\ UNCHANGED <<svc, devices, uploads>>

ReclaimAgain ==
    /\ Command("reclaim")
    /\ shown' = {} /\ lun1' = 0
    /\ SetStatus(4)
    /\ UNCHANGED <<svc, devices, handoff, images>>

\* The retry with the gadget disabled closes what the host held.
Reclaim ==
    /\ Command("reclaim")
    /\ shown' = {} /\ lun1' = 0
    /\ SetStatus(3)
    /\ UNCHANGED <<svc, devices, handoff, images>>

\* Mutant of the definition below: the property is cleared, nothing started.
HandoffDropped ==
    /\ Command("handoff")
    /\ handoff' = 0
    /\ UNCHANGED <<props, svc, devices, shown, lun1, images>>

Handoff ==
    /\ Command("handoff")
    /\ \/ /\ handoff # 0
          /\ images' = [images EXCEPT ![handoff] = "handed"]
          /\ handoff' = 0
       \/ (handoff = 0 \/ "handoff" \in Flaky) /\ UNCHANGED <<handoff, images>>
    /\ UNCHANGED <<props, svc, devices, shown, lun1>>

DownCd ==
    /\ Command("downcd")
    /\ cd' = Removed(CdOpen)
    /\ UNCHANGED <<props, svc, hd, shown, uploads>>

DownHd ==
    /\ Command("downhd")
    /\ hd' = Removed(HdOpen)
    /\ UNCHANGED <<props, svc, cd, shown, uploads>>

-----------------------------------------------------------------------------
AtRest == queue = <<>> /\ todo = <<>> /\ svc \in {"stopped", "waiting"}

\* The observer, see GadgetObserver, at any moment.
SetEnable ==
    /\ sets < MaxSets /\ (AtRest \/ flurry < Flurry)
    /\ sets' = sets + 1
    /\ flurry' = IF AtRest THEN 1 ELSE flurry + 1
    /\ enable' \in {0, 1}
    /\ queue' = Enqueue(queue, <<status, enable'>>)
    /\ UNCHANGED <<status, todo, svc, devices, shown, uploads>>

\* init.fsv.sync.sh has set the status.
Init ==
    /\ status = 0 /\ enable = 0 /\ sets = 0 /\ flurry = 0
    /\ queue = <<>> /\ todo = <<>>
    /\ svc = "stopped" /\ hd = "none" /\ cd = "none" /\ shown = {}
    /\ lun1 = 0 /\ handoff = 0 /\ images = <<>>

InitStep ==
    \/ Dequeue \/ SetProp \/ Start \/ Stop
    \/ Mkcdrom \/ Scratch \/ Publish \/ Reclaim \/ Handoff \/ DownCd \/ DownHd

Mkfs == MkfsOpen \/ MkfsDone

Next == InitStep \/ Mkfs \/ SetEnable

Spec == Init /\ [][Next]_vars

FairSpec == Spec /\ WF_vars(InitStep) /\ WF_vars(Mkfs)

-----------------------------------------------------------------------------
\* The status is one of the five runlevels; the LUN and the handoff property
\* name images that exist.
TypeOK ==
    /\ status \in 0 .. 4 /\ enable \in {0, 1} /\ sets \in 0 .. MaxSets /\ flurry \in 0 .. Flurry
    /\ queue \in Seq(Rules)
    /\ svc \in {"stopped", "indexing", "loading", "waiting"}
    /\ hd \in {"none", "blank", "live", "suspended"}
    /\ cd \in {"none", "blank", "live", "bad", "suspended"}
    /\ shown \subseteq {"hd", "cd"}
    /\ images \in Seq({"fresh", "exposed", "handed"})
    /\ lun1 \in 0 .. Len(images) /\ handoff \in 0 .. Len(images)

\* While the gadget has a device open, the device is loaded and the service
\* retains the files whose blocks it maps (ANDROID.md, 1 -> 0): no interleaving
\* of going up, going down and mkfs suspends, rebuilds or orphans it.
Backed == shown # {} => hd = "live" /\ svc = "waiting"

\* An image given to the handoff service is no longer with the host
\* (ANDROID.md, 3 -> 2).
HandoffFree == \A i \in DOMAIN images : images[i] = "handed" => lun1 # i

\* An image the host has had, and may have written, stays in its LUN or in
\* light.sync.handoff until the handoff service gets it: no later scratch
\* image takes its place.
NothingLost == \A i \in DOMAIN images : images[i] = "exposed" => i \in {lun1, handoff}

\* The files are retained until the device that maps their blocks is gone
\* (ANDROID.md, 1 -> 0): runlevel 0 without the service has no device.
Released == status = 0 /\ svc = "stopped" => hd = "none"

\* The status, set by init, by the scripts and by mkfs, climbs and descends one
\* runlevel at a time.
OneAtATime == [][status' \in {status - 1, status, status + 1}]_vars

\* Whatever order the observer's changes met the queue in, it only comes to
\* rest where enable has no rule left to trigger: disabled at runlevel 0 with
\* the files released, enabled at 4, or at 0 once the service has failed.
RestsRight ==
    AtRest => /\ enable = 0 => status = 0 /\ svc = "stopped"
              /\ enable = 1 => status \in {0, 4}

\* The queue always drains: no two actions feed each other for ever.
Rests == []<>AtRest

Published ==
    /\ status = 4 /\ svc = "waiting" /\ hd = "live" /\ cd = "live"
    /\ shown = {"hd", "cd"} /\ lun1 # 0

TornDown ==
    /\ status = 0 /\ svc = "stopped" /\ hd = "none" /\ cd = "none"
    /\ shown = {} /\ lun1 = 0

\* Enabled for good, the gadget ends up with both devices and an image.
ComesUp == <>[](enable = 1) => <>[]Published

\* Disabled for good, everything is torn down in the end.
GoesDown == <>[](enable = 0) => <>[]TornDown
==============================================================================
