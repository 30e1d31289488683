---------------------------- MODULE UsbSync_proof ----------------------------
(***************************************************************************)
(* Proofs about SyncRunlevels, for any number of changes of enable at any  *)
(* moments: types, and where the runlevels may come to rest.  The rule of  *)
(* the present status always waits in the queue, unless the action that    *)
(* runs has yet to set the status; and the service that has set runlevel 1 *)
(* is stopped before runlevel 0 is set.  Then what holds while the         *)
(* observer waits for the last change to be served.                        *)
(*                                                                         *)
(* Proofs about the observer, GadgetObserver, and about the observer and   *)
(* the runlevels together.  The broadcast on its way is that of the        *)
(* present state, since it replaces the one before, and each broadcast     *)
(* delivered makes one instance; with that, the property is never left on. *)
(* The observer is one of the environments the runlevels are proved for:   *)
(* UsbAssumption is about the bounds of the two together only.             *)
(***************************************************************************)
EXTENDS UsbSync, SequenceTheorems, FiniteSetTheorems, TLAPS

\* The commands left of an action that has begun.
Todos ==
    { <<>>, <<"start">>, <<"mkcdrom", "set2">>, <<"scratch", "set3">>,
      <<"publish", "set4">>, <<"reclaim">>, <<"handoff", "set2">>,
      <<"downcd", "set1">>, <<"stop", "downhd", "set0">>, <<"downhd", "set0">>,
      <<"set0">>, <<"set1">>, <<"set2">>, <<"set3">>, <<"set4">> }

\* An action that is not done will set the status, but for the one that starts
\* the service.
Setting == todo \notin {<<>>, <<"start">>}

Triggered ==
    <<status, enable>> \in Rules /\ status # 0 => <<status, enable>> \in Range(queue) \/ Setting

StopsFirst == todo \in {<<"downhd", "set0">>, <<"set0">>} => svc = "stopped"

WaitsAbove == svc = "waiting" => status # 0

IInv == TypeOK /\ todo \in Todos /\ Triggered /\ StopsFirst /\ WaitsAbove

-----------------------------------------------------------------------------
LEMMA RulesType == \A r \in Rules : r = <<r[1], r[2]>> /\ r[1] \in 0 .. 4 /\ r[2] \in {0, 1}
BY DEF Rules

LEMMA CommandsType ==
    \A r \in Rules : Commands(r) \in Todos /\ (r[1] # 0 => Commands(r) \notin {<<>>, <<"start">>})
<1> TAKE r \in Rules
<1>1. CASE r \in (0 .. 3) \X {1}
  <2>1. r[2] = 1 /\ r[1] \in {0, 1, 2, 3}
    BY <1>1
  <2>2. Commands(r) = Up(r[1])
    BY <2>1 DEF Commands
  <2>3. Up(0) = <<"start">> /\ Up(1) = <<"mkcdrom", "set2">>
        /\ Up(2) = <<"scratch", "set3">> /\ Up(3) = <<"publish", "set4">>
    BY DEF Up
  <2> QED
    BY <2>1, <2>2, <2>3 DEF Todos
<1>2. CASE r \in (1 .. 4) \X {0}
  <2>1. r[2] = 0 /\ r[1] \in {1, 2, 3, 4}
    BY <1>2
  <2>2. Commands(r) = Down(r[1])
    BY <2>1 DEF Commands
  <2>3. Down(4) = <<"reclaim">> /\ Down(3) = <<"handoff", "set2">>
        /\ Down(2) = <<"downcd", "set1">> /\ Down(1) = <<"stop", "downhd", "set0">>
    BY DEF Down
  <2> QED
    BY <2>1, <2>2, <2>3 DEF Todos
<1> QED
  BY <1>1, <1>2 DEF Rules

LEMMA EnqueueLemma ==
    ASSUME NEW q \in Seq(Rules), NEW a
    PROVE  /\ Enqueue(q, a) \in Seq(Rules)
           /\ a \in Rules => a \in Range(Enqueue(q, a))
           /\ Range(q) \subseteq Range(Enqueue(q, a))
<1>1. CASE a \in Rules /\ a \notin Range(q)
  <2>1. Enqueue(q, a) = Append(q, a)
    BY <1>1 DEF Enqueue
  <2>2. Append(q, a) \in Seq(Rules)
    BY <1>1
  <2>3. DOMAIN Append(q, a) = 1 .. Len(q) + 1 /\ Append(q, a)[Len(q) + 1] = a
    BY <1>1
  <2>4. \A i \in DOMAIN q : i \in DOMAIN Append(q, a) /\ Append(q, a)[i] = q[i]
    BY <1>1
  <2> QED
    BY <2>1, <2>2, <2>3, <2>4 DEF Range
<1>2. CASE ~(a \in Rules /\ a \notin Range(q))
  BY <1>2 DEF Enqueue
<1> QED
  BY <1>1, <1>2

LEMMA TailLemma ==
    ASSUME NEW q \in Seq(Rules), q # <<>>
    PROVE  /\ Head(q) \in Rules /\ Tail(q) \in Seq(Rules)
           /\ \A a \in Range(q) : a = Head(q) \/ a \in Range(Tail(q))
<1>1. Head(q) \in Rules /\ Tail(q) \in Seq(Rules)
  OBVIOUS
<1>2. ASSUME NEW i \in DOMAIN q, i # 1
      PROVE  q[i] \in Range(Tail(q))
  <2>1. i - 1 \in DOMAIN Tail(q) /\ Tail(q)[i - 1] = q[i]
    BY <1>2
  <2> QED
    BY <2>1 DEF Range
<1> QED
  BY <1>1, <1>2 DEF Range

\* A command leaves a suffix, which still sets the status if anything is left.
LEMMA CommandTail ==
    ASSUME todo \in Todos, NEW name, Command(name)
    PROVE  /\ todo' \in Todos /\ todo' # <<"start">>
           /\ observer' = observer
           /\ todo' \in {<<"downhd", "set0">>} => name = "stop"
           /\ todo' \in {<<"set0">>} => todo = <<"downhd", "set0">>
           /\ name = "start" => todo = <<"start">>
           /\ name = "stop" => todo' = <<"downhd", "set0">>
           /\ name = "set0" => todo = <<"set0">>
           /\ name \notin {"start", "reclaim", "set0", "set1", "set2", "set3", "set4"} => todo' # <<>>
<1>1. todo # <<>> /\ Head(todo) = name /\ todo' = Tail(todo) /\ observer' = observer
  BY DEF Command, observer
<1>2. CASE todo = <<"start">>
  <2>1. name = "start" /\ todo' = <<>>
    BY <1>1, <1>2
  <2> QED
    BY <1>1, <1>2, <2>1 DEF Todos
<1>3. CASE todo = <<"mkcdrom", "set2">>
  <2>1. name = "mkcdrom" /\ todo' = <<"set2">>
    BY <1>1, <1>3
  <2> QED
    BY <1>1, <1>3, <2>1 DEF Todos
<1>4. CASE todo = <<"scratch", "set3">>
  <2>1. name = "scratch" /\ todo' = <<"set3">>
    BY <1>1, <1>4
  <2> QED
    BY <1>1, <1>4, <2>1 DEF Todos
<1>5. CASE todo = <<"publish", "set4">>
  <2>1. name = "publish" /\ todo' = <<"set4">>
    BY <1>1, <1>5
  <2> QED
    BY <1>1, <1>5, <2>1 DEF Todos
<1>6. CASE todo = <<"reclaim">>
  <2>1. name = "reclaim" /\ todo' = <<>>
    BY <1>1, <1>6
  <2> QED
    BY <1>1, <1>6, <2>1 DEF Todos
<1>7. CASE todo = <<"handoff", "set2">>
  <2>1. name = "handoff" /\ todo' = <<"set2">>
    BY <1>1, <1>7
  <2> QED
    BY <1>1, <1>7, <2>1 DEF Todos
<1>8. CASE todo = <<"downcd", "set1">>
  <2>1. name = "downcd" /\ todo' = <<"set1">>
    BY <1>1, <1>8
  <2> QED
    BY <1>1, <1>8, <2>1 DEF Todos
<1>9. CASE todo = <<"stop", "downhd", "set0">>
  <2>1. name = "stop" /\ todo' = <<"downhd", "set0">>
    BY <1>1, <1>9
  <2> QED
    BY <1>1, <1>9, <2>1 DEF Todos
<1>10. CASE todo = <<"downhd", "set0">>
  <2>1. name = "downhd" /\ todo' = <<"set0">>
    BY <1>1, <1>10
  <2> QED
    BY <1>1, <1>10, <2>1 DEF Todos
<1>11. CASE \E s \in {"set0", "set1", "set2", "set3", "set4"} : todo = <<s>>
  <2> PICK s \in {"set0", "set1", "set2", "set3", "set4"} : todo = <<s>>
    BY <1>11
  <2>1. name = s /\ todo' = <<>>
    BY <1>1
  <2>2. todo = <<s>> => todo # <<"downhd", "set0">> /\ (s = "set0" <=> todo = <<"set0">>)
    OBVIOUS
  <2> QED
    BY <1>1, <2>1, <2>2 DEF Todos
<1>12. \/ todo \in {<<"start">>, <<"mkcdrom", "set2">>, <<"scratch", "set3">>,
                   <<"publish", "set4">>, <<"reclaim">>, <<"handoff", "set2">>,
                   <<"downcd", "set1">>, <<"stop", "downhd", "set0">>,
                   <<"downhd", "set0">>}
       \/ \E s \in {"set0", "set1", "set2", "set3", "set4"} : todo = <<s>>
  BY <1>1, Zenon DEF Todos
<1> QED
  BY <1>2, <1>3, <1>4, <1>5, <1>6, <1>7, <1>8, <1>9, <1>10, <1>11, <1>12

LEMMA SetStatusLemma ==
    ASSUME TypeOK, NEW n \in 0 .. 4, SetStatus(n)
    PROVE  /\ status' = n /\ enable' = enable /\ queue' \in Seq(Rules)
           /\ <<status', enable'>> \in Rules => <<status', enable'>> \in Range(queue')
<1>1. status' = n /\ enable' = enable /\ queue' = Enqueue(queue, <<n, enable>>)
  BY DEF SetStatus
<1>2. queue \in Seq(Rules)
  BY DEF TypeOK
<1> QED
  BY <1>1, <1>2, EnqueueLemma

-----------------------------------------------------------------------------
(* TypeOK *)

LEMMA InitTypeOK == Init => TypeOK
BY SyncAssumption DEF Init, TypeOK

LEMMA SetPropType == TypeOK /\ SetProp => TypeOK'
<1> SUFFICES ASSUME TypeOK, NEW n \in 0 .. 4, NEW name, Command(name), SetStatus(n),
                    UNCHANGED <<svc, devices, shown, uploads>>
             PROVE  TypeOK'
  BY DEF SetProp
<1>1. status' = n /\ enable' = enable /\ queue' \in Seq(Rules)
  BY SetStatusLemma
<1> QED
  BY <1>1 DEF TypeOK, Command, observer, devices, uploads

LEMMA ServiceType == TypeOK /\ (Start \/ Stop \/ Mkfs) => TypeOK'
<1> SUFFICES ASSUME TypeOK, Start \/ Stop \/ Mkfs PROVE TypeOK'
  OBVIOUS
<1>1. CASE Start \/ Stop
  BY <1>1 DEF TypeOK, Start, Stop, Command, observer, props, devices, uploads
<1>2. CASE MkfsOpen
  BY <1>2 DEF TypeOK, MkfsOpen, observer, props, devices, uploads
<1>3. CASE MkfsDone
  <2>1. status' = 1 /\ enable' = enable /\ queue' \in Seq(Rules)
    BY <1>3, SetStatusLemma DEF MkfsDone
  <2> QED
    BY <1>3, <2>1 DEF TypeOK, MkfsDone, observer, devices, uploads
<1> QED
  BY <1>1, <1>2, <1>3 DEF Mkfs

LEMMA DeviceType == TypeOK /\ (Mkcdrom \/ DownCd \/ DownHd) => TypeOK'
<1> SUFFICES ASSUME TypeOK, Mkcdrom \/ DownCd \/ DownHd PROVE TypeOK'
  OBVIOUS
<1>1. CASE Mkcdrom
  <2>1. status' \in 0 .. 4 /\ enable' = enable /\ queue' \in Seq(Rules)
    <3>1. CASE UNCHANGED props
      BY <3>1 DEF TypeOK, props
    <3>2. CASE SetStatus(2)
      BY <3>2, SetStatusLemma DEF TypeOK
    <3> QED
      BY <1>1, <3>1, <3>2 DEF Mkcdrom
  <2>2. cd' \in {"none", "blank", "live", "bad", "suspended"}
    BY <1>1 DEF Mkcdrom, TypeOK
  <2> QED
    BY <1>1, <2>1, <2>2 DEF TypeOK, Mkcdrom, Command, observer, uploads
<1>2. CASE DownCd \/ DownHd
  BY <1>2 DEF TypeOK, DownCd, DownHd, Removed, Command, observer, props, devices, uploads
<1> QED
  BY <1>1, <1>2

LEMMA ScratchType == TypeOK /\ Scratch => TypeOK'
<1> SUFFICES ASSUME TypeOK, Scratch PROVE TypeOK'
  OBVIOUS
<1> USE DEF TypeOK
<1>1. UNCHANGED <<props, observer, svc, devices, shown, lun1>>
  BY DEF Scratch, Command, observer
<1>2. /\ images' \in Seq({"fresh", "exposed", "handed"})
      /\ lun1' \in 0 .. Len(images') /\ handoff' \in 0 .. Len(images')
  <2>1. CASE images' = Append(images, "fresh") /\ handoff' = Len(images')
    BY <1>1, <2>1
  <2>2. CASE UNCHANGED <<images, handoff>>
    BY <1>1, <2>2
  <2> QED
    BY <2>1, <2>2 DEF Scratch
<1> QED
  BY <1>1, <1>2 DEF props, observer, devices

\* Recording what became of an image.
LEMMA RecordLemma ==
    ASSUME NEW S, NEW s \in Seq(S), NEW i \in 1 .. Len(s), NEW x \in S
    PROVE  [s EXCEPT ![i] = x] \in Seq(S) /\ Len([s EXCEPT ![i] = x]) = Len(s)
OBVIOUS

LEMMA UploadType == TypeOK /\ (Publish \/ Reclaim \/ Handoff) => TypeOK'
<1> SUFFICES ASSUME TypeOK, Publish \/ Reclaim \/ Handoff PROVE TypeOK'
  OBVIOUS
<1>1. CASE Publish
  <2>1. UNCHANGED <<props, observer, svc, devices, handoff>>
    BY <1>1 DEF Publish, Command, observer
  <2>2. shown' \subseteq {"hd", "cd"}
    <3>1. PICK held \in SUBSET shown : shown' = held \cup Opens("hd", hd) \cup Opens("cd", cd)
      BY <1>1 DEF Publish
    <3>2. Opens("hd", hd) \subseteq {"hd"} /\ Opens("cd", cd) \subseteq {"cd"}
      BY DEF Opens
    <3> QED
      BY <3>1, <3>2 DEF TypeOK
  <2>3. /\ images' \in Seq({"fresh", "exposed", "handed"})
        /\ lun1' \in 0 .. Len(images') /\ Len(images') = Len(images)
    <3>1. CASE handoff # 0 /\ lun1' = handoff
               /\ images' = [images EXCEPT ![handoff] = "exposed"]
      <4>1. handoff \in 1 .. Len(images)
        BY <3>1 DEF TypeOK
      <4> QED
        BY <3>1, <4>1, RecordLemma DEF TypeOK
    <3>2. CASE UNCHANGED <<lun1, images>>
      BY <3>2 DEF TypeOK
    <3> QED
      BY <1>1, <3>1, <3>2 DEF Publish
  <2> QED
    BY <2>1, <2>2, <2>3 DEF TypeOK, props, observer, devices
<1>2. CASE Reclaim
  <2>1. status' = 3 /\ enable' = enable /\ queue' \in Seq(Rules)
    BY <1>2, SetStatusLemma DEF Reclaim
  <2> QED
    BY <1>2, <2>1 DEF TypeOK, Reclaim, Command, observer, devices
<1>3. CASE Handoff
  <2>1. UNCHANGED <<props, observer, svc, devices, shown, lun1>>
    BY <1>3 DEF Handoff, Command, observer
  <2>2. /\ images' \in Seq({"fresh", "exposed", "handed"})
        /\ handoff' \in 0 .. Len(images') /\ Len(images') = Len(images)
    <3>1. CASE handoff # 0 /\ handoff' = 0 /\ images' = [images EXCEPT ![handoff] = "handed"]
      <4>1. handoff \in 1 .. Len(images)
        BY <3>1 DEF TypeOK
      <4> QED
        BY <3>1, <4>1, RecordLemma DEF TypeOK
    <3>2. CASE UNCHANGED <<handoff, images>>
      BY <3>2 DEF TypeOK
    <3> QED
      BY <1>3, <3>1, <3>2 DEF Handoff
  <2> QED
    BY <2>1, <2>2 DEF TypeOK, props, observer, devices
<1> QED
  BY <1>1, <1>2, <1>3

LEMMA DequeueType == TypeOK /\ Dequeue => TypeOK'
<1> SUFFICES ASSUME TypeOK, Dequeue PROVE TypeOK'
  OBVIOUS
<1>1. queue' \in Seq(Rules)
  BY TailLemma DEF TypeOK, Dequeue
<1> QED
  BY <1>1 DEF TypeOK, Dequeue, observer, devices, uploads

LEMMA EnableType == TypeOK /\ SetEnable => TypeOK'
<1> SUFFICES ASSUME TypeOK, SetEnable PROVE TypeOK'
  OBVIOUS
<1>1. queue' \in Seq(Rules)
  BY EnqueueLemma DEF TypeOK, SetEnable
<1>2. sets' \in 0 .. MaxSets
  BY SyncAssumption DEF TypeOK, SetEnable
<1>3. flurry' \in 0 .. Flurry
  BY SyncAssumption DEF TypeOK, SetEnable
<1> QED
  BY <1>1, <1>2, <1>3 DEF TypeOK, SetEnable, devices, uploads

-----------------------------------------------------------------------------
(* IInv *)

LEMMA InitIInv == Init => IInv
<1> SUFFICES ASSUME Init PROVE IInv
  OBVIOUS
<1>1. TypeOK
  BY InitTypeOK
<1> QED
  BY <1>1 DEF Init, IInv, Todos, Triggered, StopsFirst, WaitsAbove

\* A command that neither starts nor stops the service.
LEMMA CommandIInv ==
    ASSUME IInv, TypeOK', NEW name, Command(name), svc' = svc,
           \/ /\ UNCHANGED props
              /\ name \notin {"start", "reclaim", "set0", "set1", "set2", "set3", "set4"}
           \/ \E n \in 0 .. 4 : SetStatus(n) /\ (n = 0 => name = "set0")
    PROVE  name # "stop" => IInv'
<1> SUFFICES ASSUME name # "stop" PROVE IInv'
  OBVIOUS
<1>1. todo \in Todos /\ TypeOK
  BY DEF IInv
<1>2. todo' \in Todos /\ todo' # <<"start">>
  BY <1>1, CommandTail
<1>3. StopsFirst'
  <2>1. todo' # <<"downhd", "set0">>
    BY <1>1, CommandTail
  <2>2. todo' = <<"set0">> => svc = "stopped"
    BY <1>1, CommandTail DEF IInv, StopsFirst
  <2> QED
    BY <2>1, <2>2 DEF StopsFirst
<1>4. CASE UNCHANGED props /\ name \notin {"start", "reclaim", "set0", "set1", "set2", "set3", "set4"}
  <2>1. todo' # <<>>
    BY <1>1, <1>4, CommandTail
  <2>2. Setting'
    BY <1>2, <2>1 DEF Setting
  <2>3. WaitsAbove'
    BY <1>4 DEF IInv, WaitsAbove, props
  <2> QED
    BY <1>2, <1>3, <2>2, <2>3 DEF IInv, Triggered
<1>5. CASE \E n \in 0 .. 4 : SetStatus(n) /\ (n = 0 => name = "set0")
  <2> PICK n \in 0 .. 4 : SetStatus(n) /\ (n = 0 => name = "set0")
    BY <1>5
  <2>1. status' = n /\ (<<status', enable'>> \in Rules => <<status', enable'>> \in Range(queue'))
    BY <1>1, SetStatusLemma
  <2>2. Triggered'
    BY <2>1 DEF Triggered
  <2>3. n = 0 => svc = "stopped"
    BY <1>1, CommandTail DEF IInv, StopsFirst
  <2>4. WaitsAbove'
    BY <2>1, <2>3 DEF WaitsAbove
  <2> QED
    BY <1>2, <1>3, <2>2, <2>4 DEF IInv
<1> QED
  BY <1>4, <1>5

LEMMA StartIInv == IInv /\ Start => IInv'
<1> SUFFICES ASSUME IInv, Start PROVE IInv'
  OBVIOUS
<1>1. TypeOK'
  BY ServiceType DEF IInv
<1>2. todo = <<"start">> /\ todo' = <<>> /\ UNCHANGED props
  <2>1. Command("start") /\ todo \in Todos
    BY DEF Start, IInv
  <2>2. todo = <<"start">>
    BY <2>1, CommandTail
  <2> QED
    BY <2>1, <2>2 DEF Command, Start
<1>3. Triggered'
  BY <1>2 DEF IInv, Triggered, Setting, props
<1>4. WaitsAbove'
  BY <1>2 DEF IInv, WaitsAbove, Start, props
<1>5. todo' \in Todos /\ StopsFirst'
  BY <1>2 DEF Todos, StopsFirst
<1> QED
  BY <1>1, <1>3, <1>4, <1>5 DEF IInv

LEMMA StopIInv == IInv /\ Stop => IInv'
<1> SUFFICES ASSUME IInv, Stop PROVE IInv'
  OBVIOUS
<1>1. TypeOK'
  BY ServiceType DEF IInv
<1>2. todo' = <<"downhd", "set0">>
  <2>1. Command("stop") /\ todo \in Todos
    BY DEF Stop, IInv
  <2> QED
    BY <2>1, CommandTail
<1>3. todo' \in Todos /\ Setting'
  BY <1>2 DEF Todos, Setting
<1>4. StopsFirst' /\ WaitsAbove'
  BY DEF Stop, StopsFirst, WaitsAbove
<1> QED
  BY <1>1, <1>3, <1>4 DEF IInv, Triggered

LEMMA ScriptIInv ==
    IInv /\ (Mkcdrom \/ Scratch \/ Publish \/ Reclaim \/ Handoff \/ DownCd \/ DownHd) => IInv'
<1> SUFFICES ASSUME IInv, Mkcdrom \/ Scratch \/ Publish \/ Reclaim \/ Handoff \/ DownCd \/ DownHd
             PROVE  IInv'
  OBVIOUS
<1>1. TypeOK'
  BY DeviceType, ScratchType, UploadType DEF IInv
<1>2. CASE Mkcdrom
  <2>1. Command("mkcdrom") /\ svc' = svc /\ (UNCHANGED props \/ SetStatus(2))
    BY <1>2 DEF Mkcdrom
  <2> QED
    BY <1>1, <2>1, CommandIInv
<1>3. CASE Scratch
  BY <1>1, <1>3, CommandIInv DEF Scratch
<1>4. CASE Publish
  BY <1>1, <1>4, CommandIInv DEF Publish
<1>5. CASE Reclaim
  BY <1>1, <1>5, CommandIInv DEF Reclaim
<1>6. CASE Handoff
  BY <1>1, <1>6, CommandIInv DEF Handoff
<1>7. CASE DownCd \/ DownHd
  BY <1>1, <1>7, CommandIInv DEF DownCd, DownHd
<1> QED
  BY <1>2, <1>3, <1>4, <1>5, <1>6, <1>7

LEMMA SetPropIInv == IInv /\ SetProp => IInv'
<1> SUFFICES ASSUME IInv, SetProp PROVE IInv'
  OBVIOUS
<1>1. TypeOK'
  BY SetPropType DEF IInv
<1>2. PICK n \in 0 .. 4 :
        /\ Command(<<"set0", "set1", "set2", "set3", "set4">>[n + 1])
        /\ SetStatus(n) /\ svc' = svc
  BY DEF SetProp
<1>3. PICK name \in {"set0", "set1", "set2", "set3", "set4"} :
        name = <<"set0", "set1", "set2", "set3", "set4">>[n + 1] /\ (n = 0 => name = "set0")
  OBVIOUS
<1> QED
  BY <1>1, <1>2, <1>3, CommandIInv

LEMMA MkfsIInv == IInv /\ Mkfs => IInv'
<1> SUFFICES ASSUME IInv, Mkfs PROVE IInv'
  OBVIOUS
<1>1. TypeOK'
  BY ServiceType DEF IInv
<1>2. CASE MkfsOpen
  BY <1>1, <1>2 DEF MkfsOpen, IInv, Triggered, Setting, StopsFirst, WaitsAbove, props, observer
<1>3. CASE MkfsDone
  <2>1. status' = 1 /\ (<<status', enable'>> \in Rules => <<status', enable'>> \in Range(queue'))
    BY <1>3, SetStatusLemma DEF MkfsDone, IInv
  <2>2. Triggered' /\ WaitsAbove'
    BY <2>1 DEF Triggered, WaitsAbove
  <2>3. todo' = todo /\ StopsFirst'
    BY <1>3 DEF MkfsDone, IInv, StopsFirst
  <2> QED
    BY <1>1, <2>2, <2>3 DEF IInv
<1> QED
  BY <1>2, <1>3 DEF Mkfs

LEMMA DequeueIInv == IInv /\ Dequeue => IInv'
<1> SUFFICES ASSUME IInv, Dequeue PROVE IInv'
  OBVIOUS
<1>1. TypeOK'
  BY DequeueType DEF IInv
<1>2. /\ queue \in Seq(Rules) /\ queue # <<>>
      /\ todo = <<>> /\ todo' = Commands(Head(queue)) /\ queue' = Tail(queue)
      /\ status' = status /\ enable' = enable /\ svc' = svc
  BY DEF Dequeue, IInv, TypeOK
<1>3. Head(queue) \in Rules
  BY <1>2, TailLemma
<1>4. todo' \in Todos
  BY <1>2, <1>3, CommandsType
<1>5. Triggered'
  <2> SUFFICES ASSUME <<status, enable>> \in Rules, status # 0, <<status, enable>> \notin Range(queue')
               PROVE  Setting'
    BY <1>2 DEF Triggered
  <2>1. <<status, enable>> = Head(queue)
    BY <1>2, TailLemma DEF IInv, Triggered, Setting
  <2>2. Head(queue)[1] # 0
    BY <2>1
  <2> QED
    BY <1>2, <1>3, <2>2, CommandsType DEF Setting
<1>6. StopsFirst'
  <2>1. \A r \in Rules : Commands(r) \notin {<<"downhd", "set0">>, <<"set0">>}
    <3> TAKE r \in Rules
    <3>1. r[1] \in {0, 1, 2, 3, 4} /\ (r[2] = 1 => r[1] # 4) /\ (r[2] # 1 => r[1] # 0)
      BY DEF Rules
    <3> QED
      BY <3>1 DEF Commands, Up, Down
  <2> QED
    BY <1>2, <1>3, <2>1 DEF StopsFirst
<1>7. WaitsAbove'
  BY <1>2 DEF IInv, WaitsAbove
<1> QED
  BY <1>1, <1>4, <1>5, <1>6, <1>7 DEF IInv

LEMMA EnableIInv == IInv /\ SetEnable => IInv'
<1> SUFFICES ASSUME IInv, SetEnable PROVE IInv'
  OBVIOUS
<1>1. TypeOK'
  BY EnableType DEF IInv
<1>2. /\ queue \in Seq(Rules) /\ queue' = Enqueue(queue, <<status, enable'>>)
      /\ status' = status /\ todo' = todo /\ svc' = svc
  BY DEF SetEnable, IInv, TypeOK
<1>3. Triggered'
  BY <1>2, EnqueueLemma DEF Triggered
<1> QED
  BY <1>1, <1>2, <1>3 DEF IInv, StopsFirst, WaitsAbove

LEMMA Inductive == IInv /\ [Next]_vars => IInv'
<1> SUFFICES ASSUME IInv, [Next]_vars PROVE IInv'
  OBVIOUS
<1>1. CASE UNCHANGED vars
  <2>1. /\ UNCHANGED <<status, enable, queue, sets, flurry, todo, svc>>
        /\ UNCHANGED <<hd, cd, shown, lun1, handoff, images>>
    BY <1>1 DEF vars, props, observer, devices, uploads
  <2> QED
    BY <2>1 DEF IInv, TypeOK, Triggered, Setting, StopsFirst, WaitsAbove
<1>2. CASE Next
  BY <1>2, DequeueIInv, SetPropIInv, StartIInv, StopIInv, ScriptIInv, MkfsIInv, EnableIInv
     DEF Next, InitStep
<1> QED
  BY <1>1, <1>2

\* The runlevels, the queue and the images stay in their types, whenever and
\* however often the observer sets enable.
THEOREM RunlevelsTypeCorrect == Spec => []TypeOK
<1>1. IInv => TypeOK
  BY DEF IInv
<1> QED
  BY <1>1, InitIInv, Inductive, PTL DEF Spec

\* Whenever and however often the observer sets enable, and whatever the tools
\* do, the runlevels only rest at 0 with the files released, or at 4, or where
\* an enabled system waits for a service that failed.
THEOREM RestsRightAlways == Spec => []RestsRight
<1>1. IInv => RestsRight
  <2> SUFFICES ASSUME IInv, AtRest PROVE RestsRight
    BY DEF RestsRight
  <2>1. queue = <<>> /\ ~Setting /\ svc \in {"stopped", "waiting"}
    BY DEF AtRest, Setting
  <2>2. <<status, enable>> \notin Range(queue)
    BY <2>1 DEF Range
  <2>3. status \in {0, 1, 2, 3, 4} /\ enable \in {0, 1} /\ (<<status, enable>> \in Rules => status = 0)
    BY <2>1, <2>2 DEF IInv, TypeOK, Triggered
  <2>4. (enable = 0 => status = 0) /\ (enable = 1 => status \in {0, 4})
    BY <2>3 DEF Rules
  <2>5. status = 0 => svc = "stopped"
    BY <2>1 DEF IInv, WaitsAbove
  <2> QED
    BY <2>4, <2>5 DEF RestsRight
<1> QED
  BY <1>1, InitIInv, Inductive, PTL DEF Spec
-----------------------------------------------------------------------------
(***************************************************************************)
(* A patient observer, who sets enable again only when everything is at    *)
(* rest (Flurry = 1).  Then one rule at a time waits, begins and ends, and *)
(* each runlevel finds in place what belongs to it.                        *)
(***************************************************************************)
InPlace(level) ==
    /\ svc = IF level = 0 THEN "stopped" ELSE "waiting"
    /\ hd = IF level = 0 THEN "none" ELSE "live"
    /\ cd = IF level \in {0, 1} THEN "none" ELSE "live"
    /\ shown = IF level = 4 THEN {"hd", "cd"} ELSE {}

Resting == /\ queue = <<>> /\ todo = <<>> /\ InPlace(status)
           /\ <<status, enable>> \in {<<0, 0>>, <<4, 1>>}

Awaits == /\ queue = << <<status, enable>> >> /\ todo = <<>> /\ InPlace(status)
          /\ <<status, enable>> \in Rules

Begins == /\ queue = <<>> /\ InPlace(status)
          /\ \/ status = 0 /\ enable = 1 /\ todo = <<"start">>
             \/ status = 1 /\ enable = 1 /\ todo = <<"mkcdrom", "set2">>
             \/ status = 2 /\ enable = 1 /\ todo = <<"scratch", "set3">>
             \/ status = 3 /\ enable = 1 /\ todo = <<"publish", "set4">>
             \/ status = 4 /\ enable = 0 /\ todo = <<"reclaim">>
             \/ status = 3 /\ enable = 0 /\ todo = <<"handoff", "set2">>
             \/ status = 2 /\ enable = 0 /\ todo = <<"downcd", "set1">>
             \/ status = 1 /\ enable = 0 /\ todo = <<"stop", "downhd", "set0">>

\* What belongs to the next runlevel is in place, the status is not set yet.
Ends == /\ queue = <<>>
        /\ \/ status = 2 /\ enable = 1 /\ todo = <<"set3">> /\ InPlace(3)
           \/ status = 3 /\ enable = 1 /\ todo = <<"set4">> /\ InPlace(4)
           \/ status = 3 /\ enable = 0 /\ todo = <<"set2">> /\ InPlace(2)
           \/ status = 2 /\ enable = 0 /\ todo = <<"set1">> /\ InPlace(1)
           \/ status = 1 /\ enable = 0 /\ todo = <<"set0">> /\ InPlace(0)

\* The script has set the status that the rule is about to set as well.
SetTwice == /\ queue = << <<2, 1>> >> /\ todo = <<"set2">> /\ InPlace(2)
            /\ status = 2 /\ enable = 1

\* The service is stopped and its device is still there.
Stopped == /\ queue = <<>> /\ todo = <<"downhd", "set0">>
           /\ status = 1 /\ enable = 0
           /\ svc = "stopped" /\ hd = "live" /\ cd = "none" /\ shown = {}

Indexes == /\ queue = <<>> /\ todo = <<>> /\ status = 0 /\ enable = 1
           /\ \/ svc = "indexing" /\ hd = "none"
              \/ svc = "loading" /\ hd = "blank"
           /\ cd = "none" /\ shown = {}

Stage == Resting \/ Awaits \/ Begins \/ Ends \/ SetTwice \/ Stopped \/ Indexes

\* The image the host has is the one to be handed off, and the host has none
\* but at runlevel 4.
Uploads ==
    /\ lun1 \in {0, handoff}
    /\ lun1 # 0 => status = 4 \/ todo = <<"set4">>
    /\ \A i \in DOMAIN images : images[i] = "handed" => i # handoff

\* An image the host may have written waits for the handoff.
Written == status = 4 \/ todo = <<"set4">> \/ (status = 3 /\ enable = 0 /\ todo # <<"set2">>)

HandedNext ==
    "handoff" \notin Flaky =>
        \A i \in DOMAIN images : images[i] = "exposed" => i = handoff /\ Written

PInv ==
    /\ TypeOK /\ Stage
    /\ (AtRest \/ flurry # 0)
    /\ Uploads /\ HandedNext

LEMMA EnqueueShort ==
    ASSUME NEW a
    PROVE  /\ a \in Rules => Enqueue(<<>>, a) = <<a>> /\ Enqueue(<<a>>, a) = <<a>>
           /\ a \notin Rules => Enqueue(<<>>, a) = <<>>
<1>1. Range(<<>>) = {}
  BY DEF Range
<1>2. a \in Range(<<a>>)
  <2>1. 1 \in DOMAIN <<a>> /\ <<a>>[1] = a
    OBVIOUS
  <2> QED
    BY <2>1 DEF Range
<1>3. Append(<<>>, a) = <<a>>
  OBVIOUS
<1> QED
  BY <1>1, <1>2, <1>3 DEF Enqueue

LEMMA RulesAre ==
    /\ <<0, 1>> \in Rules /\ <<1, 1>> \in Rules /\ <<2, 1>> \in Rules /\ <<3, 1>> \in Rules
    /\ <<1, 0>> \in Rules /\ <<2, 0>> \in Rules /\ <<3, 0>> \in Rules /\ <<4, 0>> \in Rules
    /\ <<0, 0>> \notin Rules /\ <<4, 1>> \notin Rules
BY DEF Rules

LEMMA CommandsAre ==
    /\ Commands(<<0, 1>>) = <<"start">>
    /\ Commands(<<1, 1>>) = <<"mkcdrom", "set2">>
    /\ Commands(<<2, 1>>) = <<"scratch", "set3">>
    /\ Commands(<<3, 1>>) = <<"publish", "set4">>
    /\ Commands(<<4, 0>>) = <<"reclaim">>
    /\ Commands(<<3, 0>>) = <<"handoff", "set2">>
    /\ Commands(<<2, 0>>) = <<"downcd", "set1">>
    /\ Commands(<<1, 0>>) = <<"stop", "downhd", "set0">>
BY DEF Commands, Up, Down

\* The command that ends tells the stage.
LEMMA CommandAt ==
    ASSUME Stage, NEW name, Command(name)
    PROVE  \/ /\ Begins
              /\ \/ status = 0 /\ enable = 1 /\ name = "start" /\ todo' = <<>>
                 \/ status = 1 /\ enable = 1 /\ name = "mkcdrom" /\ todo' = <<"set2">>
                 \/ status = 2 /\ enable = 1 /\ name = "scratch" /\ todo' = <<"set3">>
                 \/ status = 3 /\ enable = 1 /\ name = "publish" /\ todo' = <<"set4">>
                 \/ status = 4 /\ enable = 0 /\ name = "reclaim" /\ todo' = <<>>
                 \/ status = 3 /\ enable = 0 /\ name = "handoff" /\ todo' = <<"set2">>
                 \/ status = 2 /\ enable = 0 /\ name = "downcd" /\ todo' = <<"set1">>
                 \/ status = 1 /\ enable = 0 /\ name = "stop" /\ todo' = <<"downhd", "set0">>
           \/ Stopped /\ name = "downhd" /\ todo' = <<"set0">>
           \/ SetTwice /\ name = "set2" /\ todo' = <<>>
           \/ /\ Ends /\ todo' = <<>>
              /\ \/ status = 2 /\ enable = 1 /\ name = "set3" /\ InPlace(3)
                 \/ status = 3 /\ enable = 1 /\ name = "set4" /\ InPlace(4)
                 \/ status = 3 /\ enable = 0 /\ name = "set2" /\ InPlace(2)
                 \/ status = 2 /\ enable = 0 /\ name = "set1" /\ InPlace(1)
                 \/ status = 1 /\ enable = 0 /\ name = "set0" /\ InPlace(0)
<1>1. todo # <<>> /\ Head(todo) = name /\ todo' = Tail(todo)
  BY DEF Command
<1>2. CASE Begins
  <2>1. CASE status = 0 /\ enable = 1 /\ todo = <<"start">>
    BY <1>1, <1>2, <2>1
  <2>2. CASE status = 1 /\ enable = 1 /\ todo = <<"mkcdrom", "set2">>
    BY <1>1, <1>2, <2>2
  <2>3. CASE status = 2 /\ enable = 1 /\ todo = <<"scratch", "set3">>
    BY <1>1, <1>2, <2>3
  <2>4. CASE status = 3 /\ enable = 1 /\ todo = <<"publish", "set4">>
    BY <1>1, <1>2, <2>4
  <2>5. CASE status = 4 /\ enable = 0 /\ todo = <<"reclaim">>
    BY <1>1, <1>2, <2>5
  <2>6. CASE status = 3 /\ enable = 0 /\ todo = <<"handoff", "set2">>
    BY <1>1, <1>2, <2>6
  <2>7. CASE status = 2 /\ enable = 0 /\ todo = <<"downcd", "set1">>
    BY <1>1, <1>2, <2>7
  <2>8. CASE status = 1 /\ enable = 0 /\ todo = <<"stop", "downhd", "set0">>
    BY <1>1, <1>2, <2>8
  <2> QED
    BY <1>2, <2>1, <2>2, <2>3, <2>4, <2>5, <2>6, <2>7, <2>8 DEF Begins
<1>3. CASE Stopped
  <2>1. todo = <<"downhd", "set0">>
    BY <1>3 DEF Stopped
  <2> QED
    BY <1>1, <1>3, <2>1
<1>4. CASE SetTwice
  <2>1. todo = <<"set2">>
    BY <1>4 DEF SetTwice
  <2> QED
    BY <1>1, <1>4, <2>1
<1>5. CASE Ends
  <2>1. CASE status = 2 /\ enable = 1 /\ todo = <<"set3">> /\ InPlace(3)
    BY <1>1, <1>5, <2>1
  <2>2. CASE status = 3 /\ enable = 1 /\ todo = <<"set4">> /\ InPlace(4)
    BY <1>1, <1>5, <2>2
  <2>3. CASE status = 3 /\ enable = 0 /\ todo = <<"set2">> /\ InPlace(2)
    BY <1>1, <1>5, <2>3
  <2>4. CASE status = 2 /\ enable = 0 /\ todo = <<"set1">> /\ InPlace(1)
    BY <1>1, <1>5, <2>4
  <2>5. CASE status = 1 /\ enable = 0 /\ todo = <<"set0">> /\ InPlace(0)
    BY <1>1, <1>5, <2>5
  <2> QED
    BY <1>5, <2>1, <2>2, <2>3, <2>4, <2>5 DEF Ends
<1>6. ~Resting /\ ~Awaits /\ ~Indexes
  BY <1>1 DEF Resting, Awaits, Indexes
<1> QED
  BY <1>2, <1>3, <1>4, <1>5, <1>6 DEF Stage

\* A stage other than Resting is not at rest.
LEMMA OnlyRestingRests == Stage /\ AtRest => Resting
<1> SUFFICES ASSUME Stage, AtRest PROVE Resting
  OBVIOUS
<1>1. queue = <<>> /\ todo = <<>> /\ svc \in {"stopped", "waiting"}
  BY DEF AtRest
<1>2. ~Awaits /\ ~Begins /\ ~Ends /\ ~SetTwice /\ ~Stopped /\ ~Indexes
  BY <1>1 DEF Awaits, Begins, Ends, SetTwice, Stopped, Indexes
<1> QED
  BY <1>2 DEF Stage

LEMMA DequeuePInv == PInv /\ Dequeue => PInv'
<1> SUFFICES ASSUME PInv, Dequeue PROVE PInv'
  OBVIOUS
<1>1. /\ todo = <<>> /\ queue # <<>>
      /\ todo' = Commands(Head(queue)) /\ queue' = Tail(queue)
      /\ UNCHANGED <<status, enable, flurry, svc, hd, cd, shown, lun1, handoff, images>>
  BY DEF Dequeue, observer, devices, uploads
<1>2. Awaits /\ ~AtRest
  BY <1>1 DEF PInv, Stage, Resting, Begins, Ends, SetTwice, Stopped, Indexes, AtRest
<1>3. queue' = <<>> /\ todo' = Commands(<<status, enable>>)
  BY <1>1, <1>2 DEF Awaits
<1>4. InPlace(status)'
  BY <1>1, <1>2 DEF Awaits, InPlace
<1>5. status \in {0, 1, 2, 3, 4} /\ enable \in {0, 1}
  BY DEF PInv, TypeOK
<1>6. Begins'
  <2>1. CASE enable = 1
    <3>1. status # 4
      BY <1>2, <2>1, RulesAre DEF Awaits
    <3> QED
      BY <1>1, <1>3, <1>4, <1>5, <2>1, <3>1, CommandsAre DEF Begins
  <2>2. CASE enable = 0
    <3>1. status # 0
      BY <1>2, <2>2, RulesAre DEF Awaits
    <3> QED
      BY <1>1, <1>3, <1>4, <1>5, <2>2, <3>1, CommandsAre DEF Begins
  <2> QED
    BY <1>5, <2>1, <2>2
<1>7. TypeOK'
  BY DequeueType DEF PInv
<1>8. todo' # <<"set2">>
  BY <1>6 DEF Begins
<1>9. Uploads' /\ HandedNext'
  BY <1>1, <1>8 DEF PInv, Uploads, HandedNext, Written
<1> QED
  BY <1>1, <1>2, <1>6, <1>7, <1>9 DEF PInv, Stage

\* init sets the status: the rule of the new runlevel waits, or none is left.
LEMMA SetStatusPatient ==
    ASSUME NEW n \in 0 .. 4, SetStatus(n), enable \in {0, 1},
           \/ queue = <<>> \/ queue = << <<n, enable>> >>, todo' = <<>>, InPlace(n)', n # 0 \/ enable = 0,
           queue = <<>> \/ <<n, enable>> \in Rules
    PROVE  Resting' \/ Awaits'
<1>1. status' = n /\ enable' = enable /\ queue' = Enqueue(queue, <<n, enable>>)
  BY DEF SetStatus
<1>2. CASE <<n, enable>> \in Rules
  <2>1. queue' = << <<n, enable>> >>
    BY <1>1, <1>2, EnqueueShort
  <2> QED
    BY <1>1, <1>2, <2>1 DEF Awaits
<1>3. CASE <<n, enable>> \notin Rules
  <2>1. queue' = <<>>
    BY <1>1, <1>3, EnqueueShort
  <2>2. n \in {0, 1, 2, 3, 4}
    OBVIOUS
  <2>3. <<n, enable>> \in {<<0, 0>>, <<4, 1>>}
    BY <1>3, <2>2, RulesAre
  <2> QED
    BY <1>1, <2>1, <2>3 DEF Resting
<1> QED
  BY <1>2, <1>3

LEMMA SetPropPInv == PInv /\ SetProp => PInv' /\ status' \in {status - 1, status, status + 1}
<1> SUFFICES ASSUME PInv, SetProp
             PROVE  PInv' /\ status' \in {status - 1, status, status + 1}
  OBVIOUS
<1>1. PICK n \in 0 .. 4 :
        /\ Command(<<"set0", "set1", "set2", "set3", "set4">>[n + 1])
        /\ SetStatus(n)
        /\ UNCHANGED <<svc, devices, shown, uploads>>
  BY DEF SetProp
<1>2. PICK name \in {"set0", "set1", "set2", "set3", "set4"} :
          /\ name = <<"set0", "set1", "set2", "set3", "set4">>[n + 1]
          /\ (n = 0) <=> (name = "set0")
          /\ (n = 1) <=> (name = "set1")
          /\ (n = 2) <=> (name = "set2")
          /\ (n = 3) <=> (name = "set3")
          /\ (n = 4) <=> (name = "set4")
  <2>1. n \in {0, 1, 2, 3, 4}
    OBVIOUS
  <2> QED
    BY <2>1
<1>4. Command(name) /\ todo # <<>>
  BY <1>1, <1>2 DEF Command
<1>5. \/ SetTwice /\ n = 2 /\ todo' = <<>>
      \/ /\ Ends /\ todo' = <<>>
         /\ \/ status = 2 /\ enable = 1 /\ n = 3 /\ InPlace(3)
            \/ status = 3 /\ enable = 1 /\ n = 4 /\ InPlace(4)
            \/ status = 3 /\ enable = 0 /\ n = 2 /\ InPlace(2)
            \/ status = 2 /\ enable = 0 /\ n = 1 /\ InPlace(1)
            \/ status = 1 /\ enable = 0 /\ n = 0 /\ InPlace(0)
  BY <1>2, <1>4, CommandAt DEF PInv
<1>6. /\ status' = n /\ enable' = enable
      /\ UNCHANGED <<svc, hd, cd, shown, lun1, handoff, images, flurry>>
  BY <1>1 DEF SetStatus, devices, uploads, Command, observer
<1>7. todo' = <<>> /\ InPlace(n)' /\ (queue = <<>> \/ (queue = << <<n, enable>> >> /\ n = 2 /\ enable = 1))
  BY <1>5, <1>6 DEF SetTwice, Ends, InPlace
<1>8. Resting' \/ Awaits'
  <2>1. n # 0 \/ enable = 0
    BY <1>5
  <2>2. queue = <<>> \/ <<n, enable>> \in Rules
    BY <1>7, RulesAre
  <2>3. enable \in {0, 1}
    BY DEF PInv, TypeOK
  <2>4. queue = <<>> \/ queue = << <<n, enable>> >>
    BY <1>7
  <2> QED
    BY <1>1, <1>7, <2>1, <2>2, <2>3, <2>4, SetStatusPatient
<1>9. TypeOK'
  BY SetPropType DEF PInv
<1>10. flurry' # 0
  BY <1>4, <1>6 DEF PInv, AtRest
<1>11. Uploads' /\ HandedNext'
  <2>1. CASE n = 4
    BY <1>6, <2>1 DEF PInv, Uploads, HandedNext, Written
  <2>2. CASE n # 4
    <3>1. lun1 = 0 /\ ~Written
      <4>1. CASE SetTwice
        <5>1. status = 2 /\ todo = <<"set2">>
          BY <4>1 DEF SetTwice
        <5> QED
          BY <5>1 DEF PInv, Uploads, Written
      <4>2. CASE Ends
        <5>1. /\ status \in {1, 2, 3}
              /\ todo \in {<<"set3">>, <<"set2">>, <<"set1">>, <<"set0">>}
              /\ status = 3 => todo = <<"set2">>
          BY <1>5, <2>2, <4>2 DEF Ends, SetTwice
        <5> QED
          BY <5>1 DEF PInv, Uploads, Written
      <4> QED
        BY <1>5, <4>1, <4>2
    <3> QED
      BY <1>6, <3>1 DEF PInv, Uploads, HandedNext
  <2> QED
    BY <2>1, <2>2
<1>12. status' \in {status - 1, status, status + 1}
  BY <1>5, <1>6 DEF SetTwice
<1> QED
  BY <1>8, <1>9, <1>10, <1>11, <1>12 DEF PInv, Stage

LEMMA StartPInv == PInv /\ Start => PInv'
<1> SUFFICES ASSUME PInv, Start PROVE PInv'
  OBVIOUS
<1>1. /\ Command("start") /\ todo # <<>>
      /\ svc' = IF svc = "stopped" THEN "indexing" ELSE svc
      /\ UNCHANGED <<status, enable, queue, flurry, hd, cd, shown, lun1, handoff, images>>
  BY DEF Start, props, devices, uploads, Command, observer
<1>2. Begins /\ status = 0 /\ enable = 1 /\ todo' = <<>>
  BY <1>1, CommandAt DEF PInv
<1>3. Indexes'
  BY <1>1, <1>2 DEF Begins, InPlace, Indexes
<1>4. TypeOK'
  BY ServiceType DEF PInv
<1>5. flurry' # 0
  BY <1>1 DEF PInv, AtRest
<1>6. todo # <<"set4">>
  BY <1>2 DEF Begins
<1>7. Uploads' /\ HandedNext'
  BY <1>1, <1>2, <1>6 DEF PInv, Uploads, HandedNext, Written
<1> QED
  BY <1>3, <1>4, <1>5, <1>7 DEF PInv, Stage

LEMMA StopPInv == PInv /\ Stop => PInv'
<1> SUFFICES ASSUME PInv, Stop PROVE PInv'
  OBVIOUS
<1>1. /\ Command("stop") /\ todo # <<>> /\ svc' = "stopped"
      /\ UNCHANGED <<status, enable, queue, flurry, hd, cd, shown, lun1, handoff, images>>
  BY DEF Stop, props, devices, uploads, Command, observer
<1>2. Begins /\ status = 1 /\ enable = 0 /\ todo' = <<"downhd", "set0">>
  BY <1>1, CommandAt DEF PInv
<1>3. Stopped'
  BY <1>1, <1>2 DEF Begins, InPlace, Stopped
<1>4. TypeOK'
  BY ServiceType DEF PInv
<1>5. flurry' # 0
  BY <1>1 DEF PInv, AtRest
<1>6. todo # <<"set4">>
  BY <1>2 DEF Begins
<1>7. Uploads' /\ HandedNext'
  BY <1>1, <1>2, <1>6 DEF PInv, Uploads, HandedNext, Written
<1> QED
  BY <1>3, <1>4, <1>5, <1>7 DEF PInv, Stage

LEMMA DownPInv == PInv /\ (DownCd \/ DownHd) => PInv'
<1> SUFFICES ASSUME PInv, DownCd \/ DownHd PROVE PInv'
  OBVIOUS
<1>1. /\ todo # <<>>
      /\ UNCHANGED <<status, enable, queue, flurry, svc, shown, lun1, handoff, images>>
  BY DEF DownCd, DownHd, props, uploads, Command, observer
<1>2. Stage' /\ status \in {1, 2} /\ todo # <<"set4">>
  <2>1. CASE DownCd
    <3>1. Begins /\ status = 2 /\ enable = 0 /\ todo' = <<"set1">>
      BY <2>1, CommandAt DEF PInv, DownCd
    <3>2. cd' = "none" /\ hd' = hd
      BY <2>1, <3>1 DEF Begins, InPlace, DownCd, Removed, CdOpen
    <3>3. Ends'
      BY <1>1, <3>1, <3>2 DEF Begins, InPlace, Ends
    <3>4. todo # <<"set4">>
      BY <3>1 DEF Begins
    <3> QED
      BY <3>1, <3>3, <3>4 DEF Stage
  <2>2. CASE DownHd
    <3>1. Stopped /\ status = 1 /\ enable = 0 /\ todo' = <<"set0">>
      BY <2>2, CommandAt DEF PInv, DownHd, Stopped
    <3>2. hd' = "none" /\ cd' = cd
      BY <2>2, <3>1 DEF Stopped, DownHd, Removed, HdOpen, Mirrors
    <3>3. Ends'
      BY <1>1, <3>1, <3>2 DEF Stopped, InPlace, Ends
    <3>4. todo # <<"set4">>
      BY <3>1 DEF Stopped
    <3> QED
      BY <3>1, <3>3, <3>4 DEF Stage
  <2> QED
    BY <2>1, <2>2
<1>3. TypeOK'
  BY DeviceType DEF PInv
<1>4. flurry' # 0
  BY <1>1 DEF PInv, AtRest
<1>5. Uploads' /\ HandedNext'
  BY <1>1, <1>2 DEF PInv, Uploads, HandedNext, Written
<1> QED
  BY <1>2, <1>3, <1>4, <1>5 DEF PInv

LEMMA MkcdromPInv == PInv /\ Mkcdrom => PInv' /\ status' \in {status, status + 1}
<1> SUFFICES ASSUME PInv, Mkcdrom PROVE PInv' /\ status' \in {status, status + 1}
  OBVIOUS
<1>1. /\ Command("mkcdrom") /\ todo # <<>>
      /\ UNCHANGED <<flurry, svc, hd, shown, lun1, handoff, images>>
  BY DEF Mkcdrom, uploads, Command, observer
<1>2. Begins /\ status = 1 /\ enable = 1 /\ todo' = <<"set2">>
  BY <1>1, CommandAt DEF PInv
<1>3. InPlace(1) /\ queue = <<>>
  BY <1>2 DEF Begins
<1>4. cd' = "live" /\ SetStatus(2)
  BY <1>3 DEF Mkcdrom, InPlace, CdOpen
<1>5. status' = 2 /\ enable' = 1 /\ queue' = << <<2, 1>> >>
  BY <1>2, <1>3, <1>4, EnqueueShort, RulesAre DEF SetStatus
<1>6. SetTwice'
  BY <1>1, <1>2, <1>3, <1>4, <1>5 DEF SetTwice, InPlace
<1>7. TypeOK'
  BY DeviceType DEF PInv
<1>8. flurry' # 0
  BY <1>1 DEF PInv, AtRest
<1>9. todo # <<"set4">>
  BY <1>2 DEF Begins
<1>10. Uploads' /\ HandedNext'
  BY <1>1, <1>2, <1>5, <1>9 DEF PInv, Uploads, HandedNext, Written
<1> QED
  BY <1>2, <1>5, <1>6, <1>7, <1>8, <1>10 DEF PInv, Stage

LEMMA MkfsPInv == PInv /\ Mkfs => PInv' /\ status' \in {status, status + 1}
<1> SUFFICES ASSUME PInv, Mkfs PROVE PInv' /\ status' \in {status, status + 1}
  OBVIOUS
<1>1. svc \in {"indexing", "loading"} /\ UNCHANGED <<todo, flurry, cd, shown, lun1, handoff, images>>
  BY DEF Mkfs, MkfsOpen, MkfsDone, observer, uploads
<1>2. ~Resting /\ ~Awaits /\ ~Begins /\ ~SetTwice /\ ~Stopped /\ ~Ends
  BY <1>1 DEF Resting, Awaits, Begins, SetTwice, Stopped, Ends, InPlace
<1>3. Indexes
  BY <1>2 DEF PInv, Stage
<1>4. Stage' /\ status' \in {0, 1}
  <2>1. CASE MkfsOpen
    <3>1. svc = "indexing" /\ ~HdOpen /\ UNCHANGED <<status, enable, queue>>
      BY <1>3, <2>1 DEF MkfsOpen, Indexes, HdOpen, Mirrors, props
    <3>2. svc' = "loading" /\ hd' = "blank"
      BY <2>1, <3>1 DEF MkfsOpen
    <3>3. Indexes'
      BY <1>1, <1>3, <3>1, <3>2 DEF Indexes
    <3> QED
      BY <1>3, <3>1, <3>3 DEF Stage, Indexes
  <2>2. CASE MkfsDone
    <3>1. hd' = "live" /\ svc' = "waiting" /\ SetStatus(1)
      BY <2>2 DEF MkfsDone
    <3>2. status' = 1 /\ enable' = 1 /\ queue' = << <<1, 1>> >>
      BY <1>3, <3>1, EnqueueShort, RulesAre DEF SetStatus, Indexes
    <3>3. Awaits'
      BY <1>1, <1>3, <3>1, <3>2, RulesAre DEF Indexes, Awaits, InPlace
    <3> QED
      BY <3>2, <3>3 DEF Stage
  <2> QED
    BY <2>1, <2>2 DEF Mkfs
<1>5. TypeOK'
  BY ServiceType DEF PInv
<1>6. flurry' # 0
  BY <1>1 DEF PInv, AtRest
<1>7. status = 0 /\ todo = <<>>
  BY <1>3 DEF Indexes
<1>8. Uploads' /\ HandedNext'
  BY <1>1, <1>7 DEF PInv, Uploads, HandedNext, Written
<1> QED
  BY <1>4, <1>5, <1>6, <1>7, <1>8 DEF PInv

LEMMA ScratchPInv == PInv /\ Scratch => PInv'
<1> SUFFICES ASSUME PInv, Scratch PROVE PInv'
  OBVIOUS
<1>1. /\ Command("scratch") /\ todo # <<>>
      /\ UNCHANGED <<status, enable, queue, flurry, svc, hd, cd, shown, lun1>>
  BY DEF Scratch, props, devices, Command, observer
<1>2. Begins /\ status = 2 /\ enable = 1 /\ todo' = <<"set3">>
  BY <1>1, CommandAt DEF PInv
<1>3. Ends'
  BY <1>1, <1>2 DEF Begins, InPlace, Ends
<1>4. TypeOK'
  BY ScratchType DEF PInv
<1>5. flurry' # 0
  BY <1>1 DEF PInv, AtRest
<1>6. todo # <<"set4">>
  BY <1>2 DEF Begins
<1>7. lun1 = 0 /\ ~Written
  BY <1>2, <1>6 DEF PInv, Uploads, Written
<1>8. Uploads' /\ HandedNext'
  <2>1. CASE UNCHANGED <<images, handoff>>
    BY <1>1, <1>7, <2>1 DEF PInv, Uploads, HandedNext
  <2>2. CASE images' = Append(images, "fresh") /\ handoff' = Len(images')
    <3>1. images \in Seq({"fresh", "exposed", "handed"})
      BY DEF PInv, TypeOK
    <3>2. \A i \in DOMAIN images' :
              \/ images'[i] = "fresh" /\ i = handoff'
              \/ i \in DOMAIN images /\ images'[i] = images[i] /\ i # handoff'
      BY <2>2, <3>1
    <3> QED
      BY <1>1, <1>7, <3>2 DEF PInv, Uploads, HandedNext
  <2> QED
    BY <2>1, <2>2 DEF Scratch
<1> QED
  BY <1>3, <1>4, <1>5, <1>8 DEF PInv, Stage

LEMMA PublishPInv == PInv /\ Publish => PInv'
<1> SUFFICES ASSUME PInv, Publish PROVE PInv'
  OBVIOUS
<1>1. /\ Command("publish") /\ todo # <<>>
      /\ UNCHANGED <<status, enable, queue, flurry, svc, hd, cd, handoff>>
  BY DEF Publish, props, devices, Command, observer
<1>2. Begins /\ status = 3 /\ enable = 1 /\ todo' = <<"set4">>
  BY <1>1, CommandAt DEF PInv
<1>3. InPlace(3) /\ queue = <<>>
  BY <1>2 DEF Begins
<1>4. shown' = {"hd", "cd"}
  BY <1>3 DEF Publish, InPlace, Opens
<1>5. Ends'
  BY <1>1, <1>2, <1>3, <1>4 DEF Ends, InPlace
<1>6. TypeOK'
  BY UploadType DEF PInv
<1>7. flurry' # 0
  BY <1>1 DEF PInv, AtRest
<1>8. todo # <<"set4">>
  BY <1>2 DEF Begins
<1>9. lun1 = 0 /\ ~Written
  BY <1>2, <1>8 DEF PInv, Uploads, Written
<1>10. Written'
  BY <1>2 DEF Written
<1>11. images \in Seq({"fresh", "exposed", "handed"})
  BY DEF PInv, TypeOK
<1>12. Uploads' /\ HandedNext'
  <2>1. CASE handoff # 0 /\ lun1' = handoff /\ images' = [images EXCEPT ![handoff] = "exposed"]
    <3>1. \A i \in DOMAIN images' :
              i \in DOMAIN images /\ images'[i] = IF i = handoff THEN "exposed" ELSE images[i]
      BY <2>1, <1>11
    <3> QED
      BY <1>1, <1>2, <1>9, <1>10, <2>1, <3>1 DEF PInv, Uploads, HandedNext
  <2>2. CASE (handoff = 0 \/ lun1 # 0) /\ UNCHANGED <<lun1, images>>
    BY <1>1, <1>9, <2>2 DEF PInv, Uploads, HandedNext
  <2> QED
    BY <2>1, <2>2 DEF Publish
<1> QED
  BY <1>5, <1>6, <1>7, <1>12 DEF PInv, Stage

LEMMA ReclaimPInv == PInv /\ Reclaim => PInv' /\ status' \in {status - 1, status}
<1> SUFFICES ASSUME PInv, Reclaim PROVE PInv' /\ status' \in {status - 1, status}
  OBVIOUS
<1>1. /\ Command("reclaim") /\ todo # <<>> /\ shown' = {} /\ lun1' = 0 /\ SetStatus(3)
      /\ UNCHANGED <<flurry, svc, hd, cd, handoff, images>>
  BY DEF Reclaim, devices, Command, observer
<1>2. Begins /\ status = 4 /\ enable = 0 /\ todo' = <<>>
  BY <1>1, CommandAt DEF PInv
<1>3. InPlace(4) /\ queue = <<>>
  BY <1>2 DEF Begins
<1>4. status' = 3 /\ enable' = 0 /\ queue' = << <<3, 0>> >>
  BY <1>1, <1>2, <1>3, EnqueueShort, RulesAre DEF SetStatus
<1>5. Awaits'
  BY <1>1, <1>2, <1>3, <1>4, RulesAre DEF Awaits, InPlace
<1>6. TypeOK'
  BY UploadType DEF PInv
<1>7. flurry' # 0
  BY <1>1 DEF PInv, AtRest
<1>8. Written'
  BY <1>2, <1>4 DEF Written
<1>9. Uploads' /\ HandedNext'
  BY <1>1, <1>8 DEF PInv, Uploads, HandedNext
<1> QED
  BY <1>2, <1>4, <1>5, <1>6, <1>7, <1>9 DEF PInv, Stage

LEMMA HandoffPInv == PInv /\ Handoff => PInv'
<1> SUFFICES ASSUME PInv, Handoff PROVE PInv'
  OBVIOUS
<1>1. /\ Command("handoff") /\ todo # <<>>
      /\ UNCHANGED <<status, enable, queue, flurry, svc, hd, cd, shown, lun1>>
  BY DEF Handoff, props, devices, Command, observer
<1>2. Begins /\ status = 3 /\ enable = 0 /\ todo' = <<"set2">>
  BY <1>1, CommandAt DEF PInv
<1>3. Ends'
  BY <1>1, <1>2 DEF Begins, InPlace, Ends
<1>4. TypeOK'
  BY UploadType DEF PInv
<1>5. flurry' # 0
  BY <1>1 DEF PInv, AtRest
<1>6. todo # <<"set4">>
  BY <1>2 DEF Begins
<1>7. lun1 = 0
  BY <1>2, <1>6 DEF PInv, Uploads
<1>8. images \in Seq({"fresh", "exposed", "handed"})
  BY DEF PInv, TypeOK
<1>9. Uploads' /\ HandedNext'
  <2>1. CASE handoff # 0 /\ images' = [images EXCEPT ![handoff] = "handed"] /\ handoff' = 0
    <3>1. \A i \in DOMAIN images' :
              /\ i \in DOMAIN images /\ i # 0
              /\ images'[i] = IF i = handoff THEN "handed" ELSE images[i]
      BY <2>1, <1>8
    <3>2. "handoff" \notin Flaky => \A i \in DOMAIN images' : images'[i] # "exposed"
      BY <3>1 DEF PInv, HandedNext
    <3> QED
      BY <1>1, <1>7, <2>1, <3>1, <3>2 DEF Uploads, HandedNext
  <2>2. CASE (handoff = 0 \/ "handoff" \in Flaky) /\ UNCHANGED <<handoff, images>>
    <3>1. "handoff" \notin Flaky => \A i \in DOMAIN images' : images'[i] # "exposed"
      <4> SUFFICES ASSUME "handoff" \notin Flaky, NEW i \in DOMAIN images, images[i] = "exposed"
                   PROVE  FALSE
        BY <2>2
      <4>1. i = handoff /\ handoff = 0
        BY <2>2 DEF PInv, HandedNext
      <4> QED
        BY <1>8, <4>1
    <3> QED
      BY <1>1, <1>7, <2>2, <3>1 DEF PInv, Uploads, HandedNext
  <2> QED
    BY <2>1, <2>2 DEF Handoff
<1> QED
  BY <1>3, <1>4, <1>5, <1>9 DEF PInv, Stage

LEMMA SetEnablePInv == Flurry = 1 /\ PInv /\ SetEnable => PInv'
<1> SUFFICES ASSUME Flurry = 1, PInv, SetEnable PROVE PInv'
  OBVIOUS
<1>1. AtRest
  BY DEF SetEnable, PInv, TypeOK
<1>2. Resting
  BY <1>1, OnlyRestingRests DEF PInv
<1>3. /\ enable' \in {0, 1} /\ queue' = Enqueue(queue, <<status, enable'>>) /\ flurry' = 1
      /\ UNCHANGED <<status, todo, svc, hd, cd, shown, lun1, handoff, images>>
  BY <1>1 DEF SetEnable, devices, uploads
<1>4. status \in {0, 4} /\ queue = <<>> /\ todo = <<>> /\ InPlace(status)
  BY <1>2 DEF Resting
<1>5. InPlace(status)'
  BY <1>3, <1>4 DEF InPlace
<1>6. Resting' \/ Awaits'
  <2>1. CASE <<status, enable'>> \in Rules
    <3>1. queue' = << <<status, enable'>> >>
      BY <1>3, <1>4, <2>1, EnqueueShort
    <3> QED
      BY <1>3, <1>4, <1>5, <2>1, <3>1 DEF Awaits
  <2>2. CASE <<status, enable'>> \notin Rules
    <3>1. queue' = <<>>
      BY <1>3, <1>4, <2>2, EnqueueShort
    <3>2. <<status, enable'>> \in {<<0, 0>>, <<4, 1>>}
      BY <1>3, <1>4, <2>2, RulesAre
    <3> QED
      BY <1>3, <1>4, <1>5, <3>1, <3>2 DEF Resting
  <2> QED
    BY <2>1, <2>2
<1>7. TypeOK'
  BY EnableType DEF PInv
<1>8. Uploads' /\ HandedNext'
  BY <1>3, <1>4 DEF PInv, Uploads, HandedNext, Written
<1> QED
  BY <1>3, <1>6, <1>7, <1>8 DEF PInv, Stage

LEMMA InitPInv == Init => PInv
<1> SUFFICES ASSUME Init PROVE PInv
  OBVIOUS
<1>1. TypeOK
  BY InitTypeOK
<1>2. Resting
  BY DEF Init, Resting, InPlace
<1>3. AtRest /\ DOMAIN images = {}
  BY DEF Init, AtRest
<1>4. Uploads /\ HandedNext
  BY <1>3 DEF Init, Uploads, HandedNext
<1> QED
  BY <1>1, <1>2, <1>3, <1>4 DEF PInv, Stage

LEMMA PatientStep ==
    Flurry = 1 /\ PInv /\ [Next]_vars => PInv' /\ status' \in {status - 1, status, status + 1}
<1> SUFFICES ASSUME Flurry = 1, PInv, [Next]_vars
             PROVE  PInv' /\ status' \in {status - 1, status, status + 1}
  OBVIOUS
<1>1. CASE UNCHANGED vars
  <2>1. /\ UNCHANGED <<status, enable, queue, sets, flurry, todo, svc>>
        /\ UNCHANGED <<hd, cd, shown, lun1, handoff, images>>
    BY <1>1 DEF vars, props, observer, devices, uploads
  <2>2. TypeOK' /\ Stage'
    BY <2>1 DEF PInv, TypeOK, Stage, Resting, Awaits, Begins, Ends, SetTwice, Stopped, Indexes,
                InPlace
  <2>3. (AtRest \/ flurry # 0)' /\ Uploads' /\ HandedNext'
    BY <2>1 DEF PInv, AtRest, Uploads, HandedNext, Written
  <2> QED
    BY <2>1, <2>2, <2>3 DEF PInv
<1>2. CASE Dequeue \/ Start \/ Stop \/ Scratch \/ Publish \/ Handoff \/ DownCd \/ DownHd
           \/ SetEnable
  <2>1. status' = status
    BY <1>2 DEF Dequeue, Start, Stop, Scratch, Publish, Handoff, DownCd, DownHd, SetEnable, props
  <2> QED
    BY <1>2, <2>1, DequeuePInv, StartPInv, StopPInv, ScratchPInv, PublishPInv, HandoffPInv,
       DownPInv, SetEnablePInv
<1>3. CASE SetProp \/ Mkcdrom \/ Reclaim \/ Mkfs
  BY <1>3, SetPropPInv, MkcdromPInv, ReclaimPInv, MkfsPInv
<1> QED
  BY <1>1, <1>2, <1>3 DEF Next, InitStep

LEMMA Patient == ASSUME Flurry = 1 PROVE Spec => []PInv
<1>1. PInv /\ [Next]_vars => PInv'
  BY PatientStep
<1> QED
  BY <1>1, InitPInv, PTL DEF Spec

\* While the observer waits for rest, an image that went to the handoff
\* service is not with the host any more, whatever tools fail (3 -> 2).
THEOREM HandoffFreeWhenPatient == ASSUME Flurry = 1 PROVE Spec => []HandoffFree
<1>1. PInv => HandoffFree
  <2> SUFFICES ASSUME PInv, NEW i \in DOMAIN images, images[i] = "handed", lun1 = i PROVE FALSE
    BY DEF HandoffFree
  <2>1. i # 0
    BY DEF PInv, TypeOK
  <2> QED
    BY <2>1 DEF PInv, Uploads
<1> QED
  BY <1>1, Patient, PTL

\* While the observer waits for rest and the handoff service can be started,
\* every image the host has had gets to it, however many there were.
THEOREM NothingLostWhenPatient ==
    ASSUME Flurry = 1, "handoff" \notin Flaky
    PROVE  Spec => []NothingLost
<1>1. PInv => NothingLost
  BY DEF PInv, HandedNext, NothingLost
<1> QED
  BY <1>1, Patient, PTL

\* While the observer waits for rest, the files are retained until the device
\* that maps their blocks is gone (1 -> 0).
THEOREM ReleasedWhenPatient == ASSUME Flurry = 1 PROVE Spec => []Released
<1>1. PInv => Released
  <2> SUFFICES ASSUME PInv, status = 0, svc = "stopped" PROVE hd = "none"
    BY DEF Released
  <2>1. ~Ends /\ ~SetTwice /\ ~Stopped /\ ~Indexes
    BY DEF Ends, SetTwice, Stopped, Indexes
  <2> QED
    BY <2>1 DEF PInv, Stage, Resting, Awaits, Begins, InPlace
<1> QED
  BY <1>1, Patient, PTL

\* While the observer waits for rest, what the gadget shows is loaded and its
\* files are retained.
THEOREM BackedWhenPatient == ASSUME Flurry = 1 PROVE Spec => []Backed
<1>1. PInv => Backed
  BY DEF PInv, Stage, Resting, Awaits, Begins, Ends, SetTwice, Stopped, Indexes, InPlace, Backed
<1> QED
  BY <1>1, Patient, PTL

\* While the observer waits for rest, no runlevel is skipped.
THEOREM OneAtATimeWhenPatient == ASSUME Flurry = 1 PROVE Spec => OneAtATime
<1>1. PInv /\ [Next]_vars => [status' \in {status - 1, status, status + 1}]_vars
  BY PatientStep
<1> QED
  BY <1>1, Patient, PTL DEF Spec, OneAtATime
-----------------------------------------------------------------------------
(***************************************************************************)
(* The observer.                                                           *)
(***************************************************************************)
Fresh == mail # <<>> => mail = <<gadget>>

Counted == instance + Len(mail) <= changes + 1

ObsIInv == ObsTypeOK /\ Fresh /\ Counted /\ NotStuckOn

LEMMA PostedFinite == ObsTypeOK => IsFiniteSet(posted) /\ Cardinality(posted) \in Nat
<1> SUFFICES ASSUME ObsTypeOK PROVE IsFiniteSet(posted)
  BY FS_CardinalityType
<1>1. instance \in Nat /\ posted \subseteq 1 .. instance
  BY ObserverAssumption DEF ObsTypeOK
<1>2. IsFiniteSet(1 .. instance)
  BY <1>1, FS_Interval
<1> QED
  BY <1>1, <1>2, FS_Subset

LEMMA MailLength == ObsTypeOK => Len(mail) \in {0, 1} /\ (mail # <<>> <=> Len(mail) = 1)
BY DEF ObsTypeOK, Gadgets

LEMMA ObsInitIInv == ObsInit => ObsIInv
<1> SUFFICES ASSUME ObsInit PROVE ObsIInv
  OBVIOUS
<1>1. Cardinality({}) = 0
  BY FS_EmptySet
<1>2. ObsTypeOK
  BY <1>1, ObserverAssumption DEF ObsInit, ObsTypeOK
<1>3. Fresh /\ NotStuckOn /\ Counted
  BY DEF ObsInit, Fresh, NotStuckOn, Counted
<1> QED
  BY <1>2, <1>3 DEF ObsIInv

LEMMA ChangeObsIInv == ObsIInv /\ Change => ObsIInv'
<1> SUFFICES ASSUME ObsIInv, Change PROVE ObsIInv'
  OBVIOUS
<1> USE DEF ObsIInv, Change
<1>1. ObsTypeOK'
  BY ObserverAssumption DEF ObsTypeOK
<1>2. Fresh' /\ NotStuckOn'
  BY DEF Fresh, NotStuckOn
<1>3. Counted'
  <2>1. Len(mail') = 1 /\ instance' = instance /\ changes' = changes + 1
    OBVIOUS
  <2>2. instance \in Nat /\ changes \in Nat /\ instance <= changes + 1
    BY ObserverAssumption DEF ObsTypeOK
  <2> QED
    BY <2>1, <2>2 DEF Counted
<1> QED
  BY <1>1, <1>2, <1>3

\* What the three cases of onReceive have in common.
LEMMA ReceiveStep ==
    ASSUME ObsIInv, Receive
    PROVE  /\ mail[1] = gadget /\ mail[1] \in Gadgets
           /\ instance \in Nat /\ instance' = instance + 1
           /\ instance' \notin posted /\ posted \subseteq 1 .. instance'
           /\ Fresh' /\ Counted'
           /\ gadget' \in Gadgets /\ changes' \in 0 .. MaxChanges
           /\ mail' = <<>> /\ instance' \in 0 .. changes' + 1
<1>1. /\ mail # <<>> /\ mail' = <<>> /\ instance' = instance + 1
      /\ gadget' = gadget /\ changes' = changes
  BY DEF Receive
<1>2. mail = <<gadget>> /\ gadget \in Gadgets
  BY <1>1 DEF ObsIInv, Fresh, ObsTypeOK
<1>3. instance \in Nat /\ changes \in 0 .. MaxChanges /\ posted \subseteq 1 .. instance
  BY ObserverAssumption DEF ObsIInv, ObsTypeOK
<1>4. instance + 1 <= changes + 1
  BY <1>2 DEF ObsIInv, Counted
<1>5. Counted' /\ instance' \in 0 .. changes' + 1
  BY <1>1, <1>3, <1>4, ObserverAssumption DEF Counted
<1>6. instance' \notin posted /\ posted \subseteq 1 .. instance'
  BY <1>1, <1>3
<1> QED
  BY <1>1, <1>2, <1>3, <1>5, <1>6 DEF Fresh

LEMMA OnUpObsIInv == ObsIInv /\ OnUp => ObsIInv'
<1> SUFFICES ASSUME ObsIInv, OnUp PROVE ObsIInv'
  OBVIOUS
<1>1. Receive
  BY DEF OnUp
<1>2. posted' = posted /\ enable' = 1 /\ sets' = sets + 1 /\ Serving(mail[1])
  BY <1>1, ReceiveStep DEF OnUp, StopCutOff, Enable
<1>3. sets' \in Nat /\ sets' + Cardinality(posted') <= instance'
  BY <1>1, <1>2, ReceiveStep, PostedFinite DEF ObsIInv, ObsTypeOK
<1>4. ObsTypeOK'
  BY <1>1, <1>2, <1>3, ReceiveStep DEF ObsTypeOK
<1>5. NotStuckOn'
  BY <1>1, <1>2, ReceiveStep DEF NotStuckOn, Receive
<1> QED
  BY <1>1, <1>4, <1>5, ReceiveStep DEF ObsIInv

LEMMA OnDownObsIInv == ObsIInv /\ OnDown => ObsIInv'
<1> SUFFICES ASSUME ObsIInv, OnDown PROVE ObsIInv'
  OBVIOUS
<1>1. Receive
  BY DEF OnDown
<1>2. CASE Lingers
  <2>1. posted' = posted \cup {instance'} /\ enable' = enable /\ sets' = sets
    BY <1>2 DEF OnDown
  <2>2. Cardinality(posted') = Cardinality(posted) + 1
    BY <1>1, <2>1, ReceiveStep, PostedFinite, FS_AddElement DEF ObsIInv
  <2>3. sets' \in Nat /\ sets' + Cardinality(posted') <= instance'
    BY <1>1, <2>1, <2>2, ReceiveStep, PostedFinite DEF ObsIInv, ObsTypeOK
  <2>4. posted' \subseteq 1 .. instance'
    BY <1>1, <2>1, ReceiveStep
  <2>5. ObsTypeOK'
    BY <1>1, <2>1, <2>3, <2>4, ReceiveStep DEF ObsIInv, ObsTypeOK
  <2>6. NotStuckOn'
    BY <2>1 DEF NotStuckOn
  <2> QED
    BY <1>1, <2>5, <2>6, ReceiveStep DEF ObsIInv
<1>3. CASE ~Lingers
  <2>1. posted' = posted /\ enable' = 0 /\ sets' = sets + 1
    BY <1>3 DEF OnDown, Enable
  <2>2. sets' \in Nat /\ sets' + Cardinality(posted') <= instance'
    BY <1>1, <2>1, ReceiveStep, PostedFinite DEF ObsIInv, ObsTypeOK
  <2>3. ObsTypeOK'
    BY <1>1, <2>1, <2>2, ReceiveStep DEF ObsTypeOK
  <2> QED
    BY <1>1, <2>1, <2>3, ReceiveStep DEF ObsIInv, NotStuckOn
<1> QED
  BY <1>2, <1>3

LEMMA OnModeObsIInv == ObsIInv /\ OnMode => ObsIInv'
<1> SUFFICES ASSUME ObsIInv, OnMode PROVE ObsIInv'
  OBVIOUS
<1>1. Receive
  BY DEF OnMode
<1>2. posted' = posted /\ enable' = 0 /\ sets' = sets + 1
  BY <1>1, ReceiveStep DEF OnMode, StopCutOff, Enable
<1>3. sets' \in Nat /\ sets' + Cardinality(posted') <= instance'
  BY <1>1, <1>2, ReceiveStep, PostedFinite DEF ObsIInv, ObsTypeOK
<1>4. ObsTypeOK'
  BY <1>1, <1>2, <1>3, ReceiveStep DEF ObsTypeOK
<1> QED
  BY <1>1, <1>2, <1>4, ReceiveStep DEF ObsIInv, NotStuckOn

LEMMA CutOffObsIInv == ObsIInv /\ CutOff => ObsIInv'
<1> SUFFICES ASSUME ObsIInv, NEW i \in posted,
                    posted' = posted \ {i}, Enable(0),
                    UNCHANGED <<gadget, changes, mail, instance>>
             PROVE  ObsIInv'
  BY DEF CutOff
<1>1. Cardinality(posted') = Cardinality(posted) - 1
  BY PostedFinite, FS_RemoveElement DEF ObsIInv
<1>2. sets' \in Nat /\ sets' + Cardinality(posted') <= instance'
  BY <1>1, PostedFinite DEF ObsIInv, ObsTypeOK, Enable
<1>3. ObsTypeOK'
  BY <1>2 DEF ObsIInv, ObsTypeOK, Enable
<1> QED
  BY <1>3 DEF ObsIInv, Fresh, Counted, NotStuckOn, Enable

LEMMA ObsInductive == ObsIInv /\ [ObsNext]_obsVars => ObsIInv'
<1> SUFFICES ASSUME ObsIInv, [ObsNext]_obsVars PROVE ObsIInv'
  OBVIOUS
<1>1. CASE UNCHANGED obsVars
  BY <1>1 DEF obsVars, receiver, ObsIInv, ObsTypeOK, Fresh, Counted, NotStuckOn
<1>2. CASE ObsNext
  BY <1>2, ChangeObsIInv, OnUpObsIInv, OnDownObsIInv, OnModeObsIInv, CutOffObsIInv DEF ObsNext, OnReceive
<1> QED
  BY <1>1, <1>2

\* Every broadcast, in every order with the callbacks, leaves the variables in
\* their ranges and sets the property once at most.
THEOREM ObsTypeCorrect == ObsSpec => []ObsTypeOK
<1>1. ObsIInv => ObsTypeOK
  BY DEF ObsIInv
<1> QED
  BY <1>1, ObsInitIInv, ObsInductive, PTL DEF ObsSpec

\* However often the gadget changes, and with a linger or without, the property
\* is never left on for a gadget that does not serve.
THEOREM NotStuckOnAlways == ObsSpec => []NotStuckOn
<1>1. ObsIInv => NotStuckOn
  BY DEF ObsIInv
<1> QED
  BY <1>1, ObsInitIInv, ObsInductive, PTL DEF ObsSpec
-----------------------------------------------------------------------------
LEMMA ObserverStep == ObserveBy(ObsNext) => [Next]_vars
BY DEF ObserveBy, Next

\* Driven by the observer, the runlevels behave as the module SyncRunlevels
\* says.
THEOREM ObserverDrives == UsbSpec => Spec
<1>1. UsbInit => Init
  BY DEF UsbInit
<1>2. [UsbNext]_usbVars => [Next]_vars
  <2>1. CASE UsbNext
    BY <2>1, ObserverStep DEF UsbNext, Next
  <2>2. CASE UNCHANGED usbVars
    BY <2>2 DEF usbVars
  <2> QED
    BY <2>1, <2>2
<1> QED
  BY <1>1, <1>2, PTL DEF UsbSpec, Spec

\* So they rest where they should for any sequence of broadcasts, any linger
\* and any interleaving with init and the service.
THEOREM UsbRestsRight == UsbSpec => []RestsRight
BY ObserverDrives, RestsRightAlways, PTL

\* What init and the service do leaves the observer alone.
LEMMA RunlevelsStayOut == InitStep \/ Mkfs => UNCHANGED <<enable, sets>>
BY DEF InitStep, Mkfs, MkfsOpen, MkfsDone, Dequeue, SetProp, Start, Stop, Mkcdrom, Scratch,
       Publish, Reclaim, Handoff, DownCd, DownHd, Command, SetStatus, props, observer

\* Driving the runlevels, the observer leaves the property on no more than it
\* does alone.
THEOREM UsbNotStuckOn == UsbSpec => []NotStuckOn
<1>1. UsbInit => ObsIInv
  BY ObsInitIInv DEF UsbInit
<1>2. ObsIInv /\ [UsbNext]_usbVars => ObsIInv'
  <2> SUFFICES ASSUME ObsIInv, [UsbNext]_usbVars PROVE ObsIInv'
    OBVIOUS
  <2>1. CASE ObserveBy(ObsNext)
    BY <2>1, ObsInductive DEF ObserveBy
  <2>2. CASE (InitStep \/ Mkfs) /\ UNCHANGED others
    BY <2>2, RunlevelsStayOut, ObsInductive DEF others, obsVars, receiver
  <2>3. CASE UNCHANGED usbVars
    BY <2>3, ObsInductive DEF usbVars, vars, props, observer, others, obsVars, receiver
  <2> QED
    BY <2>1, <2>2, <2>3 DEF UsbNext
<1>3. ObsIInv => NotStuckOn
  BY DEF ObsIInv
<1> QED
  BY <1>1, <1>2, <1>3, PTL DEF UsbSpec
==============================================================================
