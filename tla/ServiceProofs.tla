---------------------------- MODULE ServiceProofs ----------------------------
(***************************************************************************)
(* Proofs about Service for every set of devices and every size of the     *)
(* ring buffer: what the listeners believe agrees with the cameras.        *)
(***************************************************************************)
EXTENDS EndToEnd, DaemonProofs, SequenceTheorems

LEMMA OneDetector ==
  Vb2 \in Detectors /\ Outputs = {1} /\ DBus \in Outputs /\ NumOutputs = 1
BY Vb2Assumption DEF Outputs, DBus

-----------------------------------------------------------------------------
(* Types                                                                   *)

(* The service starts well typed.                                          *)
LEMMA ServiceTypeInit == ServiceInit => ServiceTypeOK
<1> SUFFICES ASSUME ServiceInit PROVE ServiceTypeOK
  OBVIOUS
<1>1. TypeOK
  BY TypeInit DEF ServiceInit
<1>2. detPc[Vb2] = "starting" /\ notPc[DBus] = "connecting"
  BY OneDetector DEF ServiceInit, Init
<1>3. ring \in Seq(RingEvents) /\ Len(ring) <= RingCap
  BY Vb2Assumption DEF ServiceInit
<1> QED
  BY <1>1, <1>2, <1>3 DEF ServiceInit, ServiceTypeOK

(* A new process begins as Daemon does, whatever the old one left behind.  *)
LEMMA ResetInit == TypeOK /\ Reset => Init'
<1> SUFFICES ASSUME TypeOK, Reset PROVE Init'
  OBVIOUS
<1>1. node' \in [Devices -> NodeKinds]
  BY DEF Reset, TypeOK, C!TypeOK
<1>2. C!Init'
  BY <1>1 DEF Reset, C!Init, Outputs, C!Outputs
<1> QED
  BY <1>2 DEF Reset, Init

LEMMA ResetType == TypeOK /\ Reset => TypeOK'
BY ResetInit, TypeInit, PTL

(* The detector reads an event of its own: one of the probes' two types.   *)
LEMMA ReadsReport ==
  ASSUME ring \in Seq(RingEvents), ring # <<>>
  PROVE  Head(ring) \in RingEvents /\ Oldest \in Reports(Vb2)
<1>1. Head(ring) \in RingEvents
  BY EmptySeq, HeadTailProperties
<1>2. Oldest \in C!Events /\ Oldest.det = Vb2 /\ Oldest.type \in {C!On, C!Off}
  BY <1>1, OneDetector DEF Oldest, RingEvents, C!Events
<1> QED
  BY <1>1, <1>2 DEF Reports

(* The steps of one life of the process are steps of Daemon, those of the  *)
(* cameras and of systemd leave it alone, and only Reset starts it afresh. *)
LEMMA ServiceSteps ==
  ASSUME ServiceTypeOK, [ServiceNext]_vars
  PROVE  [Next]_daemonVars \/ Reset
<1>1. CASE \E d \in Devices : CameraOn(d) \/ CameraOff(d)
  BY <1>1 DEF CameraOn, CameraOff
<1>2. CASE Attach \/ Restart \/ Start
  BY <1>2 DEF Attach, Restart, Start, Boot
<1>3. CASE Ready \/ PassOn \/ DetectorEnds
  BY <1>3, OneDetector DEF Ready, PassOn, DetectorEnds, Within, Next, DetectorStep
<1>4. CASE Read
  BY <1>4, OneDetector, ReadsReport DEF Read, ServiceTypeOK, Next, DetectorStep
<1>5. CASE Coordinate \/ ConnectBus \/ Terminate \/ WindUp
  BY <1>5 DEF Coordinate, ConnectBus, Terminate, WindUp, Within, Next
<1>6. CASE TakeMessage \/ Emit \/ EmitFails \/ StopNotifier
  BY <1>6, OneDetector DEF TakeMessage, Emit, EmitFails, StopNotifier, Within, Next,
     NotifierStep
<1>7. CASE Crash \/ Finish
  BY <1>7 DEF Crash, Finish
<1>8. CASE \E d \in Devices, kind \in NodeKinds :
             Replug(d, kind) /\ UNCHANGED <<svc, probeVars, busVars, worldVars>>
  BY <1>8 DEF Next
<1>9. CASE UNCHANGED vars
  BY <1>9 DEF vars
<1> QED
  BY <1>1, <1>2, <1>3, <1>4, <1>5, <1>6, <1>7, <1>8, <1>9
     DEF ServiceNext, DetectorSteps, CoordinatorSteps, NotifierSteps, EndSteps

(* Every step of the service keeps the types.                              *)
LEMMA ServiceTypeStep == ServiceTypeOK /\ [ServiceNext]_vars => ServiceTypeOK'
<1> SUFFICES ASSUME ServiceTypeOK, [ServiceNext]_vars PROVE ServiceTypeOK'
  OBVIOUS
<1>1. TypeOK'
  BY ServiceSteps, TypeStep, ResetType DEF ServiceTypeOK
<1> DEFINE
  RingOK == ring \in Seq(RingEvents) /\ Len(ring) <= RingCap
  LinksOK == /\ links \in {"none", "on", "all"}
             /\ links = "all" \/ detPc[Vb2] \in {"starting", "done"}
  EmittingOK == /\ emitting \in C!Messages \cup {NoEvent}
                /\ emitting # NoEvent <=> notPc[DBus] = "handling"
  WorldOK == /\ streaming \subseteq Devices /\ heard \subseteq Devices
             /\ unsent \subseteq Devices /\ stale \subseteq Devices
  OwnOK == RingOK /\ LinksOK /\ EmittingOK /\ WorldOK /\ svc \in {"up", "restarting", "down"}
<1>2. OwnOK
  BY DEF ServiceTypeOK
<1>3. SUFFICES OwnOK'
  BY <1>1 DEF ServiceTypeOK
<1> HIDE DEF RingOK
<1>4. ASSUME NEW d \in Devices, CameraOn(d) \/ CameraOff(d)
      PROVE  OwnOK'
  <2>1. RingOK'
    <3>1. ASSUME NEW type \in {C!On, C!Off}, Report(type, d), HasRoom PROVE RingOK'
      <4>1. [type |-> type, dev |-> d] \in RingEvents
        BY DEF RingEvents
      <4> QED
        BY <1>2, <3>1, <4>1, Vb2Assumption, AppendProperties DEF Report, HasRoom, RingOK
    <3>2. CASE Miss(d)
      BY <1>2, <3>2 DEF Miss, RingOK
    <3> QED
      BY <1>4, <3>1, <3>2 DEF CameraOn, CameraOff
  <2> QED
    BY <1>2, <1>4, <2>1 DEF CameraOn, CameraOff, Miss, Report, daemonVars, procVars, busVars
<1>5. CASE Attach
  BY <1>2, <1>5 DEF Attach, RingOK, daemonVars, procVars, busVars, worldVars
<1>6. CASE Ready \/ PassOn
  BY <1>2, <1>6, OneDetector
     DEF Ready, PassOn, Within, DetectorReady, Pass, RingOK, probeVars, busVars, worldVars,
         TypeOK, ServiceTypeOK
<1>7. CASE Read
  <2>1. RingOK'
    BY <1>2, <1>7, Vb2Assumption, EmptySeq, HeadTailProperties DEF Read, RingOK
  <2> QED
    BY <1>2, <1>7, <2>1 DEF Read, Detect, busVars, worldVars, TypeOK, ServiceTypeOK
<1>8. CASE DetectorEnds
  BY <1>2, <1>8, Vb2Assumption, OneDetector
     DEF DetectorEnds, DetectorFails, DetectorStops, RingOK, busVars, worldVars, TypeOK,
         ServiceTypeOK
<1>9. CASE Coordinate
  <2>1. Skips => cur.dev \in Devices
    BY DEF Skips, ServiceTypeOK, TypeOK, C!TypeOK, C!Events
  <2> QED
    BY <1>2, <1>9, <2>1
       DEF Coordinate, RunCoordinator, RingOK, probeVars, busVars, procVars
<1>10. CASE TakeMessage
  <2>1. Head(chans[DBus]) \in C!Messages
    <3>1. chans[DBus] \in Seq(C!Messages) /\ chans[DBus] # <<>>
      BY <1>10, OneDetector
         DEF TakeMessage, Take, C!Consume, ServiceTypeOK, TypeOK, C!TypeOK, C!Outputs, Outputs
    <3> QED
      BY <3>1, EmptySeq, HeadTailProperties
  <2> QED
    BY <1>2, <1>10, <2>1, NoMessageAssumption, OneDetector
       DEF TakeMessage, Take, Notifier, RingOK, probeVars, worldVars, detVars, TypeOK,
           ServiceTypeOK
<1>11. CASE Emit \/ EmitFails
  <2>1. emitting \in C!Messages
    BY <1>2, <1>11 DEF Emit, EmitFails, Handled, Notifier
  <2>2. emitting.dev \in Devices
    BY <2>1 DEF C!Messages
  <2> QED
    BY <1>2, <1>11, <2>2, OneDetector
       DEF Emit, EmitFails, Handled, Notifier, C!Deliver, RingOK, probeVars, worldVars, detVars,
           TypeOK, ServiceTypeOK
<1>12. CASE StopNotifier \/ ConnectBus
  BY <1>2, <1>12, OneDetector
     DEF StopNotifier, ConnectBus, Within, NotifierStops, Connect, ConnectFails, Notifier,
         RingOK, probeVars, busVars, worldVars, detVars, TypeOK, ServiceTypeOK
<1>13. CASE WindUp \/ Terminate
  BY <1>2, <1>13
     DEF WindUp, Terminate, Within, CloseAllEvents, CloseNotifierChannel, Exit, Signal,
         RingOK, probeVars, busVars, worldVars, detVars, procVars
<1>14. CASE Crash \/ Finish
  <2>1. Reset /\ svc' \in {"restarting", "down"}
    BY <1>14 DEF Crash, Finish
  <2>2. RingOK'
    BY <2>1, Vb2Assumption DEF Reset, RingOK
  <2>3. LinksOK' /\ EmittingOK'
    BY <2>1, OneDetector DEF Reset
  <2>4. WorldOK'
    BY <1>2, <2>1 DEF Reset, worldVars
  <2> QED
    BY <2>1, <2>2, <2>3, <2>4
<1>15. CASE Restart \/ Start
  BY <1>2, <1>15 DEF Restart, Start, Boot, RingOK, daemonVars, procVars, probeVars
<1>16. ASSUME NEW d \in Devices, NEW kind \in NodeKinds, Replug(d, kind),
              UNCHANGED <<svc, probeVars, busVars, worldVars>>
       PROVE  OwnOK'
  BY <1>2, <1>16 DEF Replug, RingOK, procVars, probeVars, busVars, worldVars
<1>17. CASE UNCHANGED vars
  BY <1>2, <1>17 DEF vars, daemonVars, procVars, RingOK
<1> QED
  BY <1>4, <1>5, <1>6, <1>7, <1>8, <1>9, <1>10, <1>11, <1>12, <1>13, <1>14, <1>15, <1>16, <1>17
     DEF ServiceNext, DetectorSteps, CoordinatorSteps, NotifierSteps, EndSteps

(* Every reachable state of the service is of the declared type.           *)
THEOREM ServiceTypeCorrect == ServiceSpec => []ServiceTypeOK
BY ServiceTypeInit, ServiceTypeStep, PTL DEF ServiceSpec


-----------------------------------------------------------------------------
(* One life after the other                                                *)

(* Every step of the service is a step of Daemon, leaves the process alone,*)
(* or puts a process in its place that begins as Daemon does.              *)
EveryLifeIsADaemon == [][Next \/ UNCHANGED daemonVars \/ Init']_vars

THEOREM LivesAreDaemons == ServiceSpec => EveryLifeIsADaemon
<1>1. ServiceTypeOK /\ [ServiceNext]_vars
        => [Next \/ UNCHANGED daemonVars \/ Init']_vars
  BY ServiceSteps, ResetInit DEF ServiceTypeOK
<1> QED
  BY <1>1, ServiceTypeCorrect, PTL DEF ServiceSpec, EveryLifeIsADaemon

(* The invariant of one life holds in all of them.                         *)
LEMMA ResetLife == TypeOK /\ Reset => LifeInv'
BY ResetInit, LifeInit, PTL

LEMMA LivesInvariant == ServiceSpec => []LifeInv
<1>1. ServiceInit => LifeInv
  BY LifeInit DEF ServiceInit
<1>2. ServiceTypeOK /\ LifeInv /\ [ServiceNext]_vars => LifeInv'
  BY ServiceSteps, LifeStep, ResetLife DEF ServiceTypeOK
<1> QED
  BY <1>1, <1>2, ServiceTypeCorrect, PTL DEF ServiceSpec

(* Whenever it crashed and however often it was started: the process never *)
(* sends on a closed channel, nobody in it waits in a circle, closing its  *)
(* channels drops nothing, and its notifier misses no change of the        *)
(* coordinator's map.                                                      *)
THEOREM EveryLifeIsSafe ==
  ServiceSpec => [](NoSendOnClosed /\ NoDeadlock /\ DrainedBeforeEnd /\ C!FeedInv)
<1>1. LifeInv => C!FeedInv
  BY DEF LifeInv
<1> QED
  BY <1>1, LivesInvariant, NeverSendsOnClosed, NobodyWaitsInACircle, DrainsAll, PTL

(* Until it is told to stop the DBus notifier takes no message that repeats*)
(* what it was sent before.                                                *)
EmitsNews == [][~ctxDone /\ TakeMessage => views'[DBus] # views[DBus]]_vars

(* In one life: only a new process repeats what the one before it has said,*)
(* because its views and its map begin empty.                              *)
THEOREM OnlyNewLivesRepeat == ServiceSpec => EmitsNews
<1>1. LifeInv => (~ctxDone /\ TakeMessage => views'[DBus] # views[DBus])
  BY TakesNews, OneDetector DEF TakeMessage
<1> QED
  BY <1>1, LivesInvariant, PTL DEF EmitsNews

-----------------------------------------------------------------------------
(* What is under way between a camera and the listeners                    *)

NoneFor(d, q) == \A i \in 1 .. Len(q) : q[i].dev # d
LastIsOn(d, q) ==
  \E i \in 1 .. Len(q) :
    /\ q[i].dev = d /\ q[i].type = C!On
    /\ \A j \in 1 .. Len(q) : j > i => q[j].dev # d
SomeOn(d, q) == \E i \in 1 .. Len(q) : q[i].dev = d /\ q[i].type = C!On

InHeld(d) == held[Vb2] # NoEvent /\ held[Vb2].dev = d
InQuery(d) == pc = "query" /\ cur.dev = d

(* Whether d is on in the coordinator once it has handled every event      *)
(* under way, the last one deciding.                                       *)
FinallyOn(d) ==
  IF ~NoneFor(d, ring) THEN LastIsOn(d, ring)
  ELSE IF InHeld(d) THEN held[Vb2].type = C!On
  ELSE IF InQuery(d) THEN cur.type = C!On
  ELSE active[d] # {}

OnUnderWay(d) ==
  \/ SomeOn(d, ring)
  \/ InHeld(d) /\ held[Vb2].type = C!On
  \/ InQuery(d) /\ cur.type = C!On

InCast(d) == pc = "broadcast" /\ nextOut = 1 /\ cur.dev = d
InChan(d) == chans[DBus] # <<>> /\ Head(chans[DBus]).dev = d
InEmit(d) == emitting # NoEvent /\ emitting.dev = d

(* Whether the listeners believe d on once every message under way is out. *)
FinallyHeard(d) ==
  IF InCast(d) THEN cur.type = C!On
  ELSE IF InChan(d) THEN Head(chans[DBus]).type = C!On
  ELSE IF InEmit(d) THEN emitting.type = C!On
  ELSE d \in heard

(* The process has no reason to end yet.                                   *)
Alive == ~ctxDone /\ detPc[Vb2] # "done" /\ notPc[DBus] \notin {"failed", "done"}

(* Only reports of the probes are handled.                                 *)
QueueInv ==
  /\ held[Vb2] # NoEvent => held[Vb2] \in Reports(Vb2)
  /\ pc \in {"query", "broadcast"} => cur \in Reports(Vb2)

(* A process that does not run holds nothing.                              *)
DownInv ==
  svc # "up" =>
    /\ links = "none" /\ ring = <<>> /\ held[Vb2] = NoEvent /\ pc = "new"
    /\ chans[DBus] = <<>> /\ emitting = NoEvent /\ \A d \in Devices : active[d] = {}

(* The events under way lead the coordinator to what the camera does.      *)
FinalInv(d) == svc = "up" /\ d \notin stale => (d \in streaming <=> FinallyOn(d))

(* A message under way says what the coordinator's on-set says.            *)
MsgInv(d) == InCast(d) \/ InChan(d) \/ InEmit(d) => (FinallyHeard(d) <=> active[d] # {})

(* The listeners will agree with the coordinator's on-set; of a device     *)
(* that is off in it they do once nothing stale or to come concerns it.    *)
HeardInv(d) ==
  svc = "up" /\ d \notin unsent =>
    /\ active[d] # {} => FinallyHeard(d)
    /\ active[d] = {} /\ d \notin stale /\ ~OnUnderWay(d) => ~FinallyHeard(d)

DeviceInv(d) == FinalInv(d) /\ MsgInv(d) /\ HeardInv(d)
ServiceInv == QueueInv /\ DownInv /\ (Alive => \A d \in Devices : DeviceInv(d))

(* An event that goes into the ring buffer is the last for its device.     *)
LEMMA AppendRing ==
  ASSUME NEW d, NEW q \in Seq(RingEvents), NEW e \in RingEvents
  PROVE  /\ NoneFor(d, Append(q, e)) <=> e.dev # d /\ NoneFor(d, q)
         /\ LastIsOn(d, Append(q, e)) <=> IF e.dev = d THEN e.type = C!On ELSE LastIsOn(d, q)
         /\ SomeOn(d, Append(q, e)) <=> SomeOn(d, q) \/ (e.dev = d /\ e.type = C!On)
<1> DEFINE n == Len(q)
           r == Append(q, e)
<1>1. n \in Nat /\ Len(r) = n + 1 /\ r[n + 1] = e /\ \A i \in 1 .. n : r[i] = q[i]
  BY AppendProperties
<1>2. \A i \in 1 .. n + 1 : i \in 1 .. n \/ i = n + 1
  BY <1>1
<1>3. 1 .. n \subseteq 1 .. n + 1 /\ n + 1 \in 1 .. n + 1
  BY <1>1
<1> HIDE DEF r
<1>4. NoneFor(d, r) <=> e.dev # d /\ NoneFor(d, q)
  BY <1>1, <1>2, <1>3 DEF NoneFor
<1>5. SomeOn(d, r) <=> SomeOn(d, q) \/ (e.dev = d /\ e.type = C!On)
  BY <1>1, <1>2, <1>3 DEF SomeOn
<1>6. CASE e.dev = d
  <2>1. \A i \in 1 .. n : ~(\A j \in 1 .. n + 1 : j > i => r[j].dev # d)
    BY <1>1, <1>3, <1>6
  <2>2. LastIsOn(d, r) => e.type = C!On
    BY <1>1, <1>2, <2>1 DEF LastIsOn
  <2>3. e.type = C!On => LastIsOn(d, r)
    BY <1>1, <1>6 DEF LastIsOn
  <2> QED
    BY <1>4, <1>5, <1>6, <2>2, <2>3 DEF r
<1>7. CASE e.dev # d
  <2>1. ASSUME LastIsOn(d, r) PROVE LastIsOn(d, q)
    BY <1>1, <1>2, <1>3, <1>7, <2>1 DEF LastIsOn
  <2>2. ASSUME LastIsOn(d, q) PROVE LastIsOn(d, r)
    <3>1. PICK i \in 1 .. n : /\ q[i].dev = d /\ q[i].type = C!On
                              /\ \A j \in 1 .. n : j > i => q[j].dev # d
      BY <2>2 DEF LastIsOn
    <3>2. \A j \in 1 .. n + 1 : j > i => r[j].dev # d
      BY <1>1, <1>2, <1>7, <3>1
    <3> QED
      BY <1>1, <1>3, <3>1, <3>2 DEF LastIsOn
  <2> QED
    BY <1>4, <1>5, <1>7, <2>1, <2>2 DEF r
<1> QED
  BY <1>6, <1>7

(* The oldest event decides for its device if no other is in the buffer.   *)
LEMMA TailRing ==
  ASSUME NEW d, NEW q \in Seq(RingEvents), q # <<>>
  PROVE  /\ NoneFor(d, q) <=> Head(q).dev # d /\ NoneFor(d, Tail(q))
         /\ ~NoneFor(d, Tail(q)) => (LastIsOn(d, q) <=> LastIsOn(d, Tail(q)))
         /\ NoneFor(d, Tail(q)) /\ Head(q).dev = d => (LastIsOn(d, q) <=> Head(q).type = C!On)
         /\ SomeOn(d, q) <=> SomeOn(d, Tail(q)) \/ (Head(q).dev = d /\ Head(q).type = C!On)
<1> DEFINE n == Len(q)
           r == Tail(q)
<1>1. n \in Nat /\ n >= 1 /\ Head(q) = q[1]
  BY EmptySeq, HeadTailProperties
<1>2. Len(r) = n - 1 /\ \A i \in 1 .. n - 1 : r[i] = q[i + 1]
  BY <1>1, HeadTailProperties
<1>3. \A i \in 1 .. n : i = 1 \/ (i - 1 \in 1 .. n - 1 /\ q[i] = r[i - 1])
  BY <1>1, <1>2
<1>4. \A i \in 1 .. n - 1 : i + 1 \in 1 .. n
  BY <1>1
<1>5. 1 \in 1 .. n
  BY <1>1
<1> HIDE DEF r
<1>6. NoneFor(d, q) <=> Head(q).dev # d /\ NoneFor(d, r)
  BY <1>1, <1>2, <1>3, <1>4, <1>5 DEF NoneFor
<1>7. SomeOn(d, q) <=> SomeOn(d, r) \/ (Head(q).dev = d /\ Head(q).type = C!On)
  BY <1>1, <1>2, <1>3, <1>4, <1>5 DEF SomeOn
<1>8. ASSUME LastIsOn(d, r) PROVE LastIsOn(d, q)
  <2>1. PICK i \in 1 .. n - 1 : /\ r[i].dev = d /\ r[i].type = C!On
                                /\ \A j \in 1 .. n - 1 : j > i => r[j].dev # d
    BY <1>2, <1>8 DEF LastIsOn
  <2>2. \A j \in 1 .. n : j > i + 1 => q[j].dev # d
    <3> TAKE j \in 1 .. n
    <3> HAVE j > i + 1
    <3>1. j - 1 \in 1 .. n - 1 /\ j - 1 > i /\ q[j] = r[j - 1]
      BY <1>1, <1>3
    <3> QED
      BY <2>1, <3>1
  <2> QED
    BY <1>2, <1>4, <2>1, <2>2 DEF LastIsOn
<1>9. ASSUME LastIsOn(d, q), ~NoneFor(d, r) PROVE LastIsOn(d, r)
  <2>1. PICK i \in 1 .. n : /\ q[i].dev = d /\ q[i].type = C!On
                            /\ \A j \in 1 .. n : j > i => q[j].dev # d
    BY <1>9 DEF LastIsOn
  <2>2. PICK k \in 1 .. n - 1 : r[k].dev = d
    BY <1>2, <1>9 DEF NoneFor
  <2>3. i # 1
    BY <1>1, <1>2, <1>4, <2>1, <2>2
  <2>4. i - 1 \in 1 .. n - 1 /\ q[i] = r[i - 1]
    BY <1>3, <2>3
  <2>5. \A j \in 1 .. n - 1 : j > i - 1 => r[j].dev # d
    <3> TAKE j \in 1 .. n - 1
    <3> HAVE j > i - 1
    <3>1. j + 1 \in 1 .. n /\ j + 1 > i /\ r[j] = q[j + 1]
      BY <1>1, <1>2
    <3> QED
      BY <2>1, <3>1
  <2> QED
    BY <1>2, <2>1, <2>4, <2>5 DEF LastIsOn
<1>10. ASSUME NoneFor(d, r), Head(q).dev = d PROVE LastIsOn(d, q) <=> Head(q).type = C!On
  <2>1. \A j \in 1 .. n : j > 1 => q[j].dev # d
    BY <1>1, <1>2, <1>3, <1>10 DEF NoneFor
  <2> QED
    BY <1>1, <1>5, <1>10, <2>1 DEF LastIsOn
<1> QED
  BY <1>6, <1>7, <1>8, <1>9, <1>10 DEF r

(* Nothing is in an empty ring buffer.                                     *)
LEMMA EmptyRing ==
  ASSUME NEW d
  PROVE  NoneFor(d, <<>>) /\ ~SomeOn(d, <<>>)
BY DEF NoneFor, SomeOn

-----------------------------------------------------------------------------
(* The steps                                                               *)

(* What the types say of the one detector and the one channel.             *)
LEMMA Shape ==
  ASSUME ServiceTypeOK
  PROVE  /\ active \in [Devices -> SUBSET {Vb2}]
         /\ chans[DBus] \in Seq(C!Messages) /\ Len(chans[DBus]) <= 1
         /\ nextOut \in 1 .. 2 /\ (pc # "broadcast" => nextOut = 1)
         /\ held[Vb2] # NoEvent <=> detPc[Vb2] = "sending"
         /\ emitting # NoEvent <=> notPc[DBus] = "handling"
<1>1. active \in [Devices -> SUBSET {Vb2}]
  BY Vb2Assumption DEF ServiceTypeOK, TypeOK, C!TypeOK
<1>2. chans[DBus] \in Seq(C!Messages) /\ Len(chans[DBus]) <= 1
  BY OneDetector DEF ServiceTypeOK, TypeOK, C!TypeOK, C!Outputs, Outputs, DBus
<1>3. nextOut \in 1 .. 2 /\ (pc # "broadcast" => nextOut = 1)
  BY Vb2Assumption DEF ServiceTypeOK, TypeOK, C!TypeOK
<1> QED
  BY <1>1, <1>2, <1>3, OneDetector DEF ServiceTypeOK, TypeOK

(* Every step handles only reports of the probes.                          *)
LEMMA QueueStep == ServiceTypeOK /\ QueueInv /\ [ServiceNext]_vars => QueueInv'
<1> SUFFICES ASSUME ServiceTypeOK, QueueInv, [ServiceNext]_vars PROVE QueueInv'
  OBVIOUS
<1> USE DEF QueueInv
<1>1. CASE UNCHANGED <<held, pc, cur>>
  BY <1>1
<1>2. CASE Read
  BY <1>2, OneDetector, ReadsReport DEF Read, Detect, coordVars, ServiceTypeOK, TypeOK
<1>3. CASE PassOn
  BY <1>3, OneDetector DEF PassOn, Within, Pass, C!Receive, ServiceTypeOK, TypeOK
<1>4. CASE DetectorEnds
  BY <1>4, OneDetector
     DEF DetectorEnds, DetectorFails, DetectorStops, coordVars, ServiceTypeOK, TypeOK
<1>5. CASE Coordinate
  <2>1. UNCHANGED held
    BY <1>5 DEF Coordinate, RunCoordinator, procVars
  <2>2. pc' \in {"query", "broadcast"} => pc \in {"query", "broadcast"} /\ cur' = cur
    BY <1>5
       DEF Coordinate, RunCoordinator, C!Start, C!ReturnOnDone, C!ReturnOnClosed, C!Handle,
           C!Skip, C!DuplicateOn, C!FirstOn, C!StrayOff, C!MatchingOff, C!UnknownType,
           C!Handling, C!ForwardIf, C!BackToSelect, C!Broadcast, C!Send, C!Handoff,
           C!AbortBroadcast, C!EndBroadcast, C!Broadcasting
  <2> QED
    BY <2>1, <2>2
<1>6. CASE Crash \/ Finish
  BY <1>6, OneDetector DEF Crash, Finish, Reset
<1>7. CASE Attach \/ Ready \/ TakeMessage \/ Emit \/ EmitFails \/ StopNotifier
  BY <1>1, <1>7
     DEF Attach, Ready, DetectorReady, TakeMessage, Take, Emit, EmitFails, Handled,
         StopNotifier, NotifierStops, Within, Notifier, C!Consume, daemonVars, coordVars,
         procVars, detVars
<1>8. CASE ConnectBus \/ Terminate \/ WindUp
  BY <1>1, <1>8
     DEF ConnectBus, Connect, ConnectFails, Notifier, Terminate, Signal, C!Cancel, WindUp,
         CloseAllEvents, C!CloseEvents, CloseNotifierChannel, Exit, Within, coordVars,
         procVars, detVars
<1>9. CASE \/ \E d \in Devices : CameraOn(d) \/ CameraOff(d)
           \/ Restart \/ Start
           \/ \E d \in Devices, kind \in NodeKinds :
                Replug(d, kind) /\ UNCHANGED <<svc, probeVars, busVars, worldVars>>
           \/ UNCHANGED vars
  BY <1>1, <1>9
     DEF CameraOn, CameraOff, Restart, Start, Boot, Replug, C!Replug, vars, daemonVars,
         coordVars, procVars
<1> QED
  BY <1>2, <1>3, <1>4, <1>5, <1>6, <1>7, <1>8, <1>9
     DEF ServiceNext, DetectorSteps, CoordinatorSteps, NotifierSteps, EndSteps

(* A process that is not up is a fresh one, and stays so until it boots.   *)
LEMMA DownStep == DownInv /\ [ServiceNext]_vars => DownInv'
<1> SUFFICES ASSUME DownInv, [ServiceNext]_vars, svc' # "up" PROVE DownInv'
  BY DEF DownInv
<1>1. CASE svc = "up"
  <2>1. Reset
    BY <1>1
       DEF ServiceNext, CameraOn, CameraOff, DetectorSteps, Attach, Ready, Read, PassOn, Within,
           CoordinatorSteps, Coordinate, NotifierSteps, TakeMessage, Emit, EmitFails,
           StopNotifier, EndSteps, WindUp, DetectorEnds, ConnectBus, Terminate, Crash, Finish,
           Restart, Start, Boot, vars
  <2> QED
    BY <2>1, OneDetector DEF Reset, DownInv
<1>2. CASE svc # "up"
  <2>1. \/ \E d \in Devices : CameraOn(d) \/ CameraOff(d)
        \/ \E d \in Devices, kind \in NodeKinds :
             Replug(d, kind) /\ UNCHANGED <<probeVars, busVars>>
        \/ UNCHANGED vars
    BY <1>2
       DEF ServiceNext, DetectorSteps, CoordinatorSteps, NotifierSteps, EndSteps, Crash, Finish,
           Restart, Start, Boot
  <2>2. UNCHANGED <<links, held, pc, chans, emitting, active>>
    BY <2>1
       DEF CameraOn, CameraOff, Replug, C!Replug, vars, daemonVars, coordVars, procVars,
           probeVars, busVars, C!outVars
  <2>3. UNCHANGED ring
    BY <1>2, <2>1
       DEF DownInv, CameraOn, CameraOff, Miss, Replug, vars, probeVars
  <2> QED
    BY <1>2, <2>2, <2>3 DEF DownInv
<1> QED
  BY <1>1, <1>2

(* A new process begins by agreeing with what is not stale.                *)
LEMMA BootDevice ==
  ASSUME DownInv, Restart \/ Start, NEW d \in Devices
  PROVE  DeviceInv(d)'
<1>1. svc # "up" /\ stale' = stale \cup streaming \cup heard
      /\ UNCHANGED <<daemonVars, streaming, ring, emitting, heard>>
  BY DEF Restart, Start, Boot, probeVars
<1>2. /\ pc' = "new" /\ held'[Vb2] = NoEvent /\ active'[d] = {} /\ ring' = <<>>
      /\ chans'[DBus] = <<>> /\ emitting' = NoEvent
  BY <1>1 DEF DownInv, daemonVars, coordVars, procVars
<1>3. ~FinallyOn(d)'
  BY <1>2, EmptyRing DEF FinallyOn, InHeld, InQuery
<1>4. ~InCast(d)' /\ ~InChan(d)' /\ ~InEmit(d)'
  BY <1>2 DEF InCast, InChan, InEmit
<1>5. FinallyHeard(d)' <=> d \in heard
  BY <1>1, <1>4 DEF FinallyHeard
<1> QED
  BY <1>1, <1>2, <1>3, <1>4, <1>5 DEF DeviceInv, FinalInv, MsgInv, HeardInv

(* Of the end of a process nothing is required: no message survives it.    *)
LEMMA ResetDevice ==
  ASSUME Reset, svc' # "up", NEW d \in Devices
  PROVE  DeviceInv(d)'
<1>1. ~InCast(d)' /\ ~InChan(d)' /\ ~InEmit(d)'
  BY OneDetector DEF Reset, InCast, InChan, InEmit
<1> QED
  BY <1>1 DEF DeviceInv, FinalInv, MsgInv, HeardInv

(* A change is reported as the last event of its camera, or is missed.     *)
LEMMA CameraDevice ==
  ASSUME ServiceTypeOK, NEW c \in Devices, CameraOn(c) \/ CameraOff(c), NEW d \in Devices,
         DeviceInv(d)
  PROVE  DeviceInv(d)'
<1>1. UNCHANGED <<pc, cur, nextOut, active, chans, held, svc, emitting, heard, unsent>>
  BY DEF CameraOn, CameraOff, daemonVars, coordVars, procVars, busVars
<1>2. /\ InHeld(d)' <=> InHeld(d)
      /\ InQuery(d)' <=> InQuery(d)
      /\ InCast(d)' <=> InCast(d)
      /\ InChan(d)' <=> InChan(d)
      /\ InEmit(d)' <=> InEmit(d)
  BY <1>1 DEF InHeld, InQuery, InCast, InChan, InEmit
<1>3. FinallyHeard(d)' <=> FinallyHeard(d)
  BY <1>1, <1>2 DEF FinallyHeard
<1>4. MsgInv(d)'
  BY <1>1, <1>2, <1>3 DEF DeviceInv, MsgInv
<1>5. ASSUME Miss(c), streaming' \in {streaming \cup {c}, streaming \ {c}}
      PROVE  FinalInv(d)' /\ HeardInv(d)'
  <2>1. ring' = ring /\ (d \notin stale' => d # c /\ d \notin stale)
    BY <1>5 DEF Miss
  <2>2. FinallyOn(d)' <=> FinallyOn(d)
    BY <1>1, <1>2, <2>1 DEF FinallyOn
  <2>3. OnUnderWay(d)' <=> OnUnderWay(d)
    BY <1>1, <1>2, <2>1 DEF OnUnderWay
  <2> QED
    BY <1>1, <1>3, <1>5, <2>1, <2>2, <2>3 DEF DeviceInv, FinalInv, HeardInv
<1>6. ASSUME NEW type \in {C!On, C!Off}, Report(type, c),
             IF type = C!On THEN streaming' = streaming \cup {c} /\ stale' = stale \ {c}
             ELSE streaming' = streaming \ {c} /\ stale' = stale
      PROVE  FinalInv(d)' /\ HeardInv(d)'
  <2> DEFINE e == [type |-> type, dev |-> c]
  <2>1. e \in RingEvents /\ ring \in Seq(RingEvents) /\ ring' = Append(ring, e)
    BY <1>6 DEF RingEvents, Report, ServiceTypeOK
  <2>2. e.dev = c /\ e.type = type
    OBVIOUS
  <2>3. /\ NoneFor(d, ring') <=> c # d /\ NoneFor(d, ring)
        /\ LastIsOn(d, ring') <=> IF c = d THEN type = C!On ELSE LastIsOn(d, ring)
        /\ SomeOn(d, ring') <=> SomeOn(d, ring) \/ (c = d /\ type = C!On)
    <3> HIDE DEF e
    <3> QED
      BY <2>1, <2>2, AppendRing
  <2>4. CASE d = c
    <3>1. FinallyOn(d)' <=> type = C!On
      BY <2>3, <2>4 DEF FinallyOn
    <3>2. OnUnderWay(d)' <=> OnUnderWay(d) \/ type = C!On
      BY <1>1, <1>2, <2>3, <2>4 DEF OnUnderWay
    <3> QED
      BY <1>1, <1>3, <1>6, <2>4, <3>1, <3>2 DEF DeviceInv, FinalInv, HeardInv, C!On, C!Off
  <2>5. CASE d # c
    <3>1. FinallyOn(d)' <=> FinallyOn(d)
      BY <1>1, <1>2, <2>3, <2>5 DEF FinallyOn
    <3>2. OnUnderWay(d)' <=> OnUnderWay(d)
      BY <1>1, <1>2, <2>3, <2>5 DEF OnUnderWay
    <3> QED
      BY <1>1, <1>3, <1>6, <2>5, <3>1, <3>2 DEF DeviceInv, FinalInv, HeardInv
  <2> QED
    BY <2>4, <2>5
<1>7. FinalInv(d)' /\ HeardInv(d)'
  BY <1>5, <1>6 DEF CameraOn, CameraOff, C!On, C!Off
<1> QED
  BY <1>4, <1>7 DEF DeviceInv

(* An event read from the ring buffer is held in its place.                *)
LEMMA ReadDevice ==
  ASSUME ServiceTypeOK, Read, NEW d \in Devices, DeviceInv(d)
  PROVE  DeviceInv(d)'
<1>1. ring \in Seq(RingEvents) /\ ring # <<>> /\ ring' = Tail(ring)
  BY DEF Read, ServiceTypeOK
<1>2. UNCHANGED <<pc, cur, nextOut, active, chans, svc, emitting, heard, unsent, streaming, stale>>
  BY DEF Read, Detect, coordVars, busVars, worldVars
<1>3. held[Vb2] = NoEvent
  BY Shape DEF Read, Detect
<1>4. held'[Vb2] = Oldest /\ Oldest # NoEvent
  BY <1>1, OneDetector, ReadsReport, DaemonAssumption
     DEF Read, Detect, Reports, ServiceTypeOK, TypeOK
<1>5. held'[Vb2].dev = Head(ring).dev /\ held'[Vb2].type = Head(ring).type
  BY <1>4 DEF Oldest
<1>6. ~InHeld(d) /\ (InHeld(d)' <=> Head(ring).dev = d)
  BY <1>3, <1>4, <1>5 DEF InHeld
<1>7. /\ InQuery(d)' <=> InQuery(d)
      /\ InCast(d)' <=> InCast(d)
      /\ InChan(d)' <=> InChan(d)
      /\ InEmit(d)' <=> InEmit(d)
  BY <1>2 DEF InQuery, InCast, InChan, InEmit
<1>8. FinallyHeard(d)' <=> FinallyHeard(d)
  BY <1>2, <1>7 DEF FinallyHeard
<1>9. /\ NoneFor(d, ring) <=> Head(ring).dev # d /\ NoneFor(d, ring')
      /\ ~NoneFor(d, ring') => (LastIsOn(d, ring) <=> LastIsOn(d, ring'))
      /\ NoneFor(d, ring') /\ Head(ring).dev = d
           => (LastIsOn(d, ring) <=> Head(ring).type = C!On)
      /\ SomeOn(d, ring) <=> SomeOn(d, ring') \/ (Head(ring).dev = d /\ Head(ring).type = C!On)
  BY <1>1, TailRing
<1>10. FinallyOn(d)' <=> FinallyOn(d)
  BY <1>2, <1>5, <1>6, <1>7, <1>9 DEF FinallyOn
<1>11. OnUnderWay(d)' <=> OnUnderWay(d)
  BY <1>2, <1>5, <1>6, <1>7, <1>9 DEF OnUnderWay
<1> QED
  BY <1>2, <1>7, <1>8, <1>10, <1>11 DEF DeviceInv, FinalInv, MsgInv, HeardInv

(* The coordinator receives the event that was held.                       *)
LEMMA PassDevice ==
  ASSUME ServiceTypeOK, PassOn, NEW d \in Devices, DeviceInv(d)
  PROVE  DeviceInv(d)'
<1>1. /\ pc = "select" /\ pc' = "query" /\ cur' = held[Vb2] /\ held'[Vb2] = NoEvent
      /\ held[Vb2] # NoEvent
  BY OneDetector, Shape DEF PassOn, Within, Pass, C!Receive, ServiceTypeOK, TypeOK
<1>2. UNCHANGED <<nextOut, active, chans, svc, emitting, heard, unsent, streaming, stale, ring>>
  BY DEF PassOn, Within, Pass, C!Receive, C!outVars, probeVars, busVars, worldVars
<1>3. /\ ~InHeld(d)' /\ ~InQuery(d) /\ (InQuery(d)' <=> InHeld(d))
      /\ ~InCast(d) /\ ~InCast(d)'
      /\ InChan(d)' <=> InChan(d)
      /\ InEmit(d)' <=> InEmit(d)
  BY <1>1, <1>2 DEF InHeld, InQuery, InCast, InChan, InEmit
<1>4. FinallyHeard(d)' <=> FinallyHeard(d)
  BY <1>2, <1>3 DEF FinallyHeard
<1>5. FinallyOn(d)' <=> FinallyOn(d)
  BY <1>1, <1>2, <1>3 DEF FinallyOn
<1>6. OnUnderWay(d)' <=> OnUnderWay(d)
  BY <1>1, <1>2, <1>3 DEF OnUnderWay
<1> QED
  BY <1>2, <1>3, <1>4, <1>5, <1>6 DEF DeviceInv, FinalInv, MsgInv, HeardInv

(* Whatever leaves the way from camera to listeners alone changes nothing. *)
LEMMA SameDevice ==
  ASSUME UNCHANGED <<pc, cur, nextOut, active, chans, held, ring, svc, emitting, heard, unsent,
                     streaming, stale>>,
         NEW d \in Devices, DeviceInv(d)
  PROVE  DeviceInv(d)'
BY DEF DeviceInv, FinalInv, MsgInv, HeardInv, FinallyOn, FinallyHeard, OnUnderWay, InHeld,
       InQuery, InCast, InChan, InEmit

(* The event handled takes effect on the on-set as it stops being under    *)
(* way, and a change of the on-set puts the message that says so under way.*)
LEMMA HandleDevice ==
  ASSUME ServiceTypeOK, QueueInv, Coordinate, C!Handle, NEW d \in Devices, DeviceInv(d)
  PROVE  DeviceInv(d)'
<1>1. UNCHANGED <<held, ring, svc, emitting, heard, unsent, streaming, chans>>
  BY DEF Coordinate, RunCoordinator, procVars, probeVars, busVars, C!Handle, C!Skip,
     C!DuplicateOn, C!FirstOn, C!StrayOff, C!MatchingOff, C!UnknownType, C!outVars
<1>2. pc = "query" /\ pc' \in {"select", "broadcast"}
  BY DEF C!Handle, C!Skip, C!DuplicateOn, C!FirstOn, C!StrayOff, C!MatchingOff,
     C!UnknownType, C!Handling, C!ForwardIf, C!BackToSelect
<1>3. nextOut = 1 /\ active \in [Devices -> SUBSET {Vb2}]
  BY <1>2, Shape
<1>4. cur.dev \in Devices /\ cur.det = Vb2 /\ cur.type \in {C!On, C!Off}
  BY <1>2 DEF QueueInv, Reports, C!Events
<1>5. /\ InHeld(d)' <=> InHeld(d)
      /\ InQuery(d) <=> cur.dev = d
      /\ ~InQuery(d)' /\ ~InCast(d)
      /\ InChan(d)' <=> InChan(d)
      /\ InEmit(d)' <=> InEmit(d)
  BY <1>1, <1>2 DEF InHeld, InQuery, InCast, InChan, InEmit
<1> DEFINE Skipped == cur.dev = d /\ C!Skip
<1>6. CASE Skipped
  <2>1. d \in stale' /\ pc' = "select" /\ active' = active
    BY <1>6 DEF Coordinate, Skips, C!Skip, C!BackToSelect
  <2>2. ~InCast(d)'
    BY <2>1 DEF InCast
  <2>3. FinallyHeard(d)' <=> FinallyHeard(d)
    BY <1>1, <1>5, <2>2 DEF FinallyHeard
  <2> QED
    BY <1>1, <1>5, <2>1, <2>2, <2>3 DEF DeviceInv, FinalInv, MsgInv, HeardInv
<1>7. CASE cur.dev # d
  <2>1. active'[d] = active[d] /\ (d \in stale' <=> d \in stale)
    BY <1>3, <1>4, <1>7
       DEF Coordinate, C!Handle, C!Skip, C!DuplicateOn, C!FirstOn, C!StrayOff, C!MatchingOff,
           C!UnknownType
  <2>2. pc' = "broadcast" => cur' = cur
    BY DEF C!Handle, C!Skip, C!DuplicateOn, C!FirstOn, C!StrayOff, C!MatchingOff,
       C!UnknownType, C!ForwardIf, C!BackToSelect
  <2>3. ~InCast(d)' /\ ~InQuery(d)
    BY <1>7, <2>2 DEF InCast, InQuery
  <2>4. FinallyHeard(d)' <=> FinallyHeard(d)
    BY <1>1, <1>5, <2>3 DEF FinallyHeard
  <2>5. FinallyOn(d)' <=> FinallyOn(d)
    BY <1>1, <1>5, <2>1, <2>3 DEF FinallyOn
  <2>6. OnUnderWay(d)' <=> OnUnderWay(d)
    BY <1>1, <1>5, <2>3 DEF OnUnderWay
  <2> QED
    BY <1>1, <1>5, <2>1, <2>3, <2>4, <2>5, <2>6 DEF DeviceInv, FinalInv, MsgInv, HeardInv
<1>8. CASE cur.dev = d /\ ~C!Skip
  <2>1. UNCHANGED stale
    BY <1>8
       DEF Coordinate, Skips, C!Handle, C!Skip, C!DuplicateOn, C!FirstOn, C!StrayOff,
           C!MatchingOff, C!UnknownType, C!Handling
  <2>2. OnUnderWay(d)' \/ cur.type = C!On <=> OnUnderWay(d)
    BY <1>1, <1>5, <1>8 DEF OnUnderWay
  <2>3. (active'[d] # {} <=> cur.type = C!On) => (FinallyOn(d)' <=> FinallyOn(d))
    BY <1>1, <1>5, <1>8 DEF FinallyOn
  <2>4. CASE C!DuplicateOn \/ C!StrayOff
    <3>1. pc' = "select" /\ active' = active /\ (active[d] # {} <=> cur.type = C!On)
      BY <1>3, <1>4, <1>8, <2>4
         DEF C!DuplicateOn, C!StrayOff, C!BackToSelect, C!Outstanding, C!Handling, C!On, C!Off
    <3>2. ~InCast(d)'
      BY <3>1 DEF InCast
    <3>3. FinallyHeard(d)' <=> FinallyHeard(d)
      BY <1>1, <1>5, <3>2 DEF FinallyHeard
    <3> QED
      BY <1>1, <1>5, <2>1, <2>2, <2>3, <3>1, <3>2, <3>3
         DEF DeviceInv, FinalInv, MsgInv, HeardInv
  <2>5. CASE C!FirstOn \/ C!MatchingOff
    <3>1. pc' = "broadcast" /\ cur' = cur /\ nextOut' = 1
      BY <1>3, <1>4, <1>8, <2>5
         DEF C!FirstOn, C!MatchingOff, C!ForwardIf, C!Outstanding, C!WasEmpty, C!LastActive
    <3>2. active'[d] # {} <=> cur.type = C!On
      BY <1>3, <1>4, <1>8, <2>5
         DEF C!FirstOn, C!MatchingOff, C!Handling, C!Outstanding, C!On, C!Off
    <3>3. InCast(d)' /\ (FinallyHeard(d)' <=> cur.type = C!On)
      BY <1>8, <3>1 DEF InCast, FinallyHeard
    <3> QED
      BY <1>1, <2>1, <2>3, <3>2, <3>3 DEF DeviceInv, FinalInv, MsgInv, HeardInv
  <2>6. ~C!UnknownType
    BY <1>4 DEF C!UnknownType, C!Handling, C!On, C!Off, C!Unknown
  <2> QED
    BY <1>8, <2>4, <2>5, <2>6 DEF C!Handle
<1> QED
  BY <1>6, <1>7, <1>8

(* The other steps of the coordinator put the message into the channel,    *)
(* which is then empty, or have none to send.                              *)
LEMMA CoordinateDevice ==
  ASSUME ServiceTypeOK, QueueInv, Coordinate, ~ctxDone, NEW d \in Devices, DeviceInv(d)
  PROVE  DeviceInv(d)'
<1>1. CASE C!Handle
  BY <1>1, HandleDevice
<1> SUFFICES ASSUME ~C!Handle PROVE DeviceInv(d)'
  BY <1>1
<1>2. C!Start \/ C!ReturnOnDone \/ C!ReturnOnClosed \/ C!Broadcast
  BY DEF Coordinate, RunCoordinator
<1>3. pc # "query" /\ pc' # "query"
  BY <1>2 DEF C!Start, C!ReturnOnDone, C!ReturnOnClosed, C!Broadcast, C!Send, C!Handoff,
     C!AbortBroadcast, C!EndBroadcast, C!Broadcasting, C!BackToSelect
<1>4. UNCHANGED <<held, ring, svc, emitting, heard, unsent, streaming, stale, active>>
  BY <1>2, <1>3
     DEF Coordinate, RunCoordinator, Skips, procVars, probeVars, busVars, C!Start,
         C!ReturnOnDone, C!ReturnOnClosed, C!Broadcast, C!Send, C!Handoff, C!AbortBroadcast,
         C!EndBroadcast
<1>5. /\ InHeld(d)' <=> InHeld(d)
      /\ ~InQuery(d) /\ ~InQuery(d)'
      /\ InEmit(d)' <=> InEmit(d)
  BY <1>3, <1>4 DEF InHeld, InQuery, InEmit
<1>6. (FinallyOn(d)' <=> FinallyOn(d)) /\ (OnUnderWay(d)' <=> OnUnderWay(d))
  BY <1>4, <1>5 DEF FinallyOn, OnUnderWay
<1>7. CASE C!Send
  <2>1. nextOut = 1
    BY <1>7, Vb2Assumption, Shape DEF C!Send, C!Broadcasting
  <2>2. chans[DBus] = <<>>
    BY <1>7, <2>1, Vb2Assumption, Shape, EmptySeq DEF C!Send, C!HasRoom, DBus
  <2>3. chans'[DBus] = <<[type |-> cur.type, dev |-> cur.dev]>>
    <3>1. chans'[DBus] = Append(chans[DBus], [type |-> cur.type, dev |-> cur.dev])
      BY <1>7, <2>1, OneDetector
         DEF C!Send, C!Message, DBus, ServiceTypeOK, TypeOK, C!TypeOK, C!Outputs, Outputs
    <3> QED
      BY <2>2, <3>1
  <2>4. nextOut' = 2 /\ pc = "broadcast"
    BY <1>7, <2>1 DEF C!Send, C!Broadcasting
  <2>5. ~InCast(d)' /\ ~InChan(d) /\ (InCast(d) <=> cur.dev = d)
    BY <2>1, <2>2, <2>4 DEF InCast, InChan
  <2>6. InChan(d)' <=> cur.dev = d
    BY <2>3 DEF InChan
  <2>7. Head(chans'[DBus]).type = cur.type
    BY <2>3
  <2>8. FinallyHeard(d)' <=> FinallyHeard(d)
    BY <1>4, <1>5, <2>5, <2>6, <2>7 DEF FinallyHeard
  <2> QED
    BY <1>4, <1>5, <1>6, <2>5, <2>6, <2>8 DEF DeviceInv, FinalInv, MsgInv, HeardInv
<1>8. CASE ~C!Send
  <2>1. UNCHANGED chans /\ pc' # "broadcast" /\ (pc # "broadcast" \/ nextOut # 1)
    <3>1. ~C!Handoff
      BY Vb2Assumption, Shape DEF C!Handoff, C!Broadcasting
    <3>2. ~C!AbortBroadcast
      BY DEF C!AbortBroadcast
    <3> QED
      BY <1>2, <1>8, <3>1, <3>2, Vb2Assumption
         DEF C!Start, C!ReturnOnDone, C!ReturnOnClosed, C!Broadcast, C!EndBroadcast,
             C!BackToSelect, C!outVars
  <2>2. ~InCast(d) /\ ~InCast(d)' /\ (InChan(d)' <=> InChan(d))
    BY <2>1 DEF InCast, InChan
  <2>3. FinallyHeard(d)' <=> FinallyHeard(d)
    BY <1>4, <1>5, <2>1, <2>2 DEF FinallyHeard
  <2> QED
    BY <1>4, <1>5, <1>6, <2>2, <2>3 DEF DeviceInv, FinalInv, MsgInv, HeardInv
<1> QED
  BY <1>7, <1>8

(* A message taken from the channel is emitted in its place.               *)
LEMMA TakeDevice ==
  ASSUME ServiceTypeOK, TakeMessage, NEW d \in Devices, DeviceInv(d)
  PROVE  DeviceInv(d)'
<1>1. UNCHANGED <<pc, cur, nextOut, active, held, ring, svc, heard, unsent, streaming, stale>>
  BY DEF TakeMessage, Take, Notifier, C!Consume, C!envVars, detVars, probeVars, worldVars
<1>2. chans[DBus] # <<>> /\ emitting' = Head(chans[DBus])
  BY DEF TakeMessage, Take, C!Consume
<1>3. chans'[DBus] = <<>>
  <2>1. chans'[DBus] = Tail(chans[DBus])
    BY OneDetector
       DEF TakeMessage, Take, C!Consume, ServiceTypeOK, TypeOK, C!TypeOK, C!Outputs, Outputs
  <2> QED
    BY <1>2, <2>1, Shape, EmptySeq, HeadTailProperties
<1>4. emitting' # NoEvent
  BY <1>2, Shape, EmptySeq, HeadTailProperties, NoMessageAssumption
<1>5. emitting = NoEvent
  BY Shape DEF TakeMessage, Take, Notifier
<1>6. /\ InHeld(d)' <=> InHeld(d)
      /\ InQuery(d)' <=> InQuery(d)
      /\ InCast(d)' <=> InCast(d)
      /\ ~InChan(d)' /\ ~InEmit(d) /\ (InEmit(d)' <=> InChan(d))
  BY <1>1, <1>2, <1>3, <1>4, <1>5 DEF InHeld, InQuery, InCast, InChan, InEmit
<1>7. (FinallyOn(d)' <=> FinallyOn(d)) /\ (OnUnderWay(d)' <=> OnUnderWay(d))
  BY <1>1, <1>6 DEF FinallyOn, OnUnderWay
<1>8. FinallyHeard(d)' <=> FinallyHeard(d)
  BY <1>1, <1>2, <1>6 DEF FinallyHeard
<1> QED
  BY <1>1, <1>6, <1>7, <1>8 DEF DeviceInv, FinalInv, MsgInv, HeardInv

(* The listeners take over the last message, or it is known to be lost.    *)
LEMMA EmitDevice ==
  ASSUME ServiceTypeOK, Emit \/ EmitFails, NEW d \in Devices, DeviceInv(d)
  PROVE  DeviceInv(d)'
<1>1. UNCHANGED <<pc, cur, nextOut, active, chans, held, ring, svc, streaming, stale>>
  BY DEF Emit, EmitFails, Handled, Notifier, coordVars, detVars, probeVars, worldVars
<1>2. emitting # NoEvent /\ emitting \in C!Messages /\ emitting' = NoEvent
  BY Shape DEF Emit, EmitFails, Handled, Notifier, ServiceTypeOK
<1>3. /\ InHeld(d)' <=> InHeld(d)
      /\ InQuery(d)' <=> InQuery(d)
      /\ InCast(d)' <=> InCast(d)
      /\ InChan(d)' <=> InChan(d)
      /\ ~InEmit(d)' /\ (InEmit(d) <=> emitting.dev = d)
  BY <1>1, <1>2 DEF InHeld, InQuery, InCast, InChan, InEmit
<1>4. (FinallyOn(d)' <=> FinallyOn(d)) /\ (OnUnderWay(d)' <=> OnUnderWay(d))
  BY <1>1, <1>3 DEF FinallyOn, OnUnderWay
<1>5. InCast(d) \/ InChan(d) => (FinallyHeard(d)' <=> FinallyHeard(d))
  BY <1>1, <1>3 DEF FinallyHeard
<1>6. CASE Emit
  <2>1. d \in heard' <=> IF InEmit(d) THEN emitting.type = C!On ELSE d \in heard
    BY <1>2, <1>3, <1>6 DEF Emit, C!Deliver, C!Messages, C!On, C!Off
  <2>2. FinallyHeard(d)' <=> FinallyHeard(d)
    BY <1>1, <1>3, <2>1 DEF FinallyHeard
  <2>3. d \notin unsent' => d \notin unsent \/ InEmit(d)
    BY <1>3, <1>6 DEF Emit
  <2> QED
    BY <1>1, <1>3, <1>4, <2>2, <2>3 DEF DeviceInv, FinalInv, MsgInv, HeardInv
<1>7. CASE EmitFails
  <2>1. ~InEmit(d) => (FinallyHeard(d)' <=> FinallyHeard(d)) /\ (d \in unsent' <=> d \in unsent)
    BY <1>1, <1>3, <1>7 DEF EmitFails, FinallyHeard
  <2>2. InEmit(d) => d \in unsent'
    BY <1>3, <1>7 DEF EmitFails
  <2> QED
    BY <1>1, <1>3, <1>4, <1>5, <2>1, <2>2 DEF DeviceInv, FinalInv, MsgInv, HeardInv
<1> QED
  BY <1>6, <1>7

(* Every step that leaves the process alive keeps the agreement.           *)
LEMMA DeviceStep ==
  ASSUME ServiceTypeOK, ServiceInv, [ServiceNext]_vars, Alive', NEW d \in Devices
  PROVE  DeviceInv(d)'
<1>1. CASE Restart \/ Start
  BY <1>1, BootDevice DEF ServiceInv
<1>2. CASE Crash \/ Finish
  BY <1>2, ResetDevice DEF Crash, Finish
<1> SUFFICES ASSUME ~(Restart \/ Start), ~(Crash \/ Finish) PROVE DeviceInv(d)'
  BY <1>1, <1>2
<1>3. ~DetectorEnds
  BY OneDetector
     DEF DetectorEnds, DetectorFails, DetectorStops, Alive, ServiceTypeOK, TypeOK
<1>4. ~StopNotifier
  BY OneDetector DEF StopNotifier, Within, NotifierStops, Notifier, Alive, ServiceTypeOK, TypeOK
<1>5. ~Terminate
  BY DEF Terminate, Within, Signal, C!Cancel, Alive
<1>6. CASE UNCHANGED <<ctxDone, detPc, notPc>>
  <2>1. QueueInv /\ ~ctxDone /\ DeviceInv(d)
    BY <1>6 DEF Alive, ServiceInv
  <2>2. ASSUME NEW c \in Devices, CameraOn(c) \/ CameraOff(c) PROVE DeviceInv(d)'
    BY <2>1, <2>2, CameraDevice
  <2>3. CASE Coordinate
    BY <2>1, <2>3, CoordinateDevice
  <2>4. CASE Attach \/ WindUp \/ UNCHANGED vars
    BY <2>1, <2>4, SameDevice
       DEF Attach, WindUp, CloseAllEvents, C!CloseEvents, CloseNotifierChannel, Exit, Within,
           vars, daemonVars, coordVars, procVars, detVars, probeVars, busVars, worldVars,
           C!outVars
  <2>5. ASSUME NEW c \in Devices, NEW kind \in NodeKinds, Replug(c, kind),
               UNCHANGED <<svc, probeVars, busVars, worldVars>>
        PROVE  DeviceInv(d)'
    BY <2>1, <2>5, SameDevice DEF Replug, C!Replug, procVars, probeVars, busVars, worldVars,
       C!outVars
  <2>6. ~(Ready \/ Read \/ PassOn)
    BY <1>6, OneDetector
       DEF Ready, DetectorReady, Read, Detect, PassOn, Within, Pass, ServiceTypeOK, TypeOK
  <2>7. ~(TakeMessage \/ Emit \/ EmitFails \/ ConnectBus)
    BY <1>6, OneDetector
       DEF TakeMessage, Take, Emit, EmitFails, Handled, ConnectBus, Connect, ConnectFails,
           Within, Notifier, ServiceTypeOK, TypeOK
  <2> QED
    BY <1>3, <1>4, <1>5, <2>2, <2>3, <2>4, <2>5, <2>6, <2>7
       DEF ServiceNext, DetectorSteps, CoordinatorSteps, NotifierSteps, EndSteps
<1>7. CASE Ready \/ Read \/ PassOn
  <2>1. Alive
    BY <1>7, OneDetector
       DEF Alive, Ready, DetectorReady, Read, Detect, PassOn, Within, Pass, C!Receive,
           C!envVars, coordVars
  <2>2. DeviceInv(d)
    BY <2>1 DEF ServiceInv
  <2>3. CASE Ready
    BY <2>2, <2>3, SameDevice
       DEF Ready, DetectorReady, coordVars, probeVars, busVars, worldVars
  <2> QED
    BY <1>7, <2>2, <2>3, ReadDevice, PassDevice
<1>8. CASE TakeMessage \/ Emit \/ EmitFails \/ ConnectBus
  <2>1. Alive
    BY <1>8, OneDetector
       DEF Alive, TakeMessage, Take, Emit, EmitFails, Handled, ConnectBus, Connect,
           ConnectFails, Within, Notifier, C!Consume, C!envVars, coordVars, detVars
  <2>2. DeviceInv(d)
    BY <2>1 DEF ServiceInv
  <2>3. CASE ConnectBus
    BY <2>2, <2>3, SameDevice
       DEF ConnectBus, Connect, ConnectFails, Within, Notifier, coordVars, detVars, probeVars,
           busVars, worldVars
  <2> QED
    BY <1>8, <2>2, <2>3, TakeDevice, EmitDevice
<1>9. ASSUME NEW c \in Devices, CameraOn(c) \/ CameraOff(c)
      PROVE  UNCHANGED <<ctxDone, detPc, notPc>>
  BY <1>9 DEF CameraOn, CameraOff, daemonVars, coordVars, procVars
<1>10. CASE Attach \/ WindUp \/ Coordinate \/ UNCHANGED vars
  <2>1. UNCHANGED <<ctxDone, detPc, notPc>>
    BY <1>10
       DEF Attach, WindUp, CloseAllEvents, C!CloseEvents, CloseNotifierChannel, Exit, Within,
           Coordinate, RunCoordinator, C!Start, C!ReturnOnDone, C!ReturnOnClosed, C!Handle,
           C!Skip, C!DuplicateOn, C!FirstOn, C!StrayOff, C!MatchingOff, C!UnknownType,
           C!Broadcast, C!Send, C!Handoff, C!AbortBroadcast, C!EndBroadcast, C!envVars,
           vars, daemonVars, coordVars, procVars, detVars
  <2> QED
    BY <1>6, <2>1
<1>11. ASSUME NEW c \in Devices, NEW kind \in NodeKinds, Replug(c, kind)
       PROVE  UNCHANGED <<ctxDone, detPc, notPc>>
  BY <1>11 DEF Replug, C!Replug, procVars
<1> QED
  BY <1>3, <1>4, <1>5, <1>6, <1>7, <1>8, <1>9, <1>10, <1>11
     DEF ServiceNext, DetectorSteps, CoordinatorSteps, NotifierSteps, EndSteps

(* Once nothing is under way, the listeners and the cameras agree.         *)
LEMMA SettledAgrees ==
  ASSUME ServiceTypeOK, ServiceInv
  PROVE  ListenersTrackCameras
<1> SUFFICES ASSUME Settled, NEW d \in Devices, d \notin stale, d \notin unsent
             PROVE  d \in heard <=> d \in streaming
  BY DEF ListenersTrackCameras, Uncertain
<1>1. /\ svc = "up" /\ pc = "select" /\ ring = <<>> /\ chans[DBus] = <<>>
      /\ held[Vb2] = NoEvent /\ emitting = NoEvent
  BY Shape DEF Settled
<1>2. DeviceInv(d)
  BY DEF ServiceInv, Settled, Alive
<1>3. (FinallyOn(d) <=> active[d] # {}) /\ ~OnUnderWay(d)
  BY <1>1, EmptyRing DEF FinallyOn, OnUnderWay, InHeld, InQuery
<1>4. FinallyHeard(d) <=> d \in heard
  BY <1>1 DEF FinallyHeard, InCast, InChan, InEmit
<1> QED
  BY <1>1, <1>2, <1>3, <1>4 DEF DeviceInv, FinalInv, HeardInv

(* Over any number of crashes and restarts, whenever nothing is under way  *)
(* the listeners believe on exactly the cameras that stream, those apart   *)
(* whose last change the daemon missed or lost or could not announce.      *)
THEOREM ListenersCorrect == ServiceSpec => []ListenersTrackCameras
<1>1. ServiceInit => ServiceInv
  <2> SUFFICES ASSUME ServiceInit PROVE ServiceInv
    OBVIOUS
  <2>1. /\ held[Vb2] = NoEvent /\ pc = "new" /\ svc = "up" /\ ring = <<>> /\ emitting = NoEvent
        /\ heard = {} /\ stale = streaming
    BY OneDetector DEF ServiceInit, Init, C!Init
  <2>2. chans[DBus] = <<>> /\ \A d \in Devices : active[d] = {}
    BY OneDetector DEF ServiceInit, Init, C!Init, C!Outputs, Outputs
  <2>3. ASSUME NEW d \in Devices PROVE DeviceInv(d)
    BY <2>1, <2>2, EmptyRing
       DEF DeviceInv, FinalInv, MsgInv, HeardInv, FinallyOn, FinallyHeard, InHeld, InQuery,
           InCast, InChan, InEmit
  <2> QED
    BY <2>1, <2>3 DEF ServiceInv, QueueInv, DownInv
<1>2. ServiceTypeOK /\ ServiceInv /\ [ServiceNext]_vars => ServiceInv'
  <2> SUFFICES ASSUME ServiceTypeOK, ServiceInv, [ServiceNext]_vars PROVE ServiceInv'
    OBVIOUS
  <2>1. QueueInv' /\ DownInv'
    BY QueueStep, DownStep DEF ServiceInv
  <2>2. ASSUME Alive', NEW d \in Devices PROVE DeviceInv(d)'
    BY <2>2, DeviceStep
  <2> QED
    BY <2>1, <2>2 DEF ServiceInv
<1>3. ServiceTypeOK /\ ServiceInv => ListenersTrackCameras
  BY SettledAgrees
<1> QED
  BY <1>1, <1>2, <1>3, ServiceTypeCorrect, PTL DEF ServiceSpec

-----------------------------------------------------------------------------
(* With autolight listening                                                *)

(* EndToEnd adds autolight to the service and takes nothing from it.       *)
LEMMA EndToEndIsService == EndToEndSpec => ServiceSpec
<1>1. EndToEndInit => ServiceInit
  BY DEF EndToEndInit
<1>2. [EndToEndNext]_endVars => [ServiceNext]_vars
  BY DEF EndToEndNext, Announce, ServiceAlone, AutolightAlone, endVars, ServiceNext,
     NotifierSteps
<1> QED
  BY <1>1, <1>2, PTL DEF EndToEndSpec, ServiceSpec

(* Whatever the service does by itself the listeners do not notice.        *)
LEMMA Unnoticed == ServiceAlone => UNCHANGED heard
<1> SUFFICES ASSUME ServiceAlone PROVE UNCHANGED heard
  OBVIOUS
<1> USE DEF busVars, Within
<1>1. CASE \E d \in Devices : CameraOn(d) \/ CameraOff(d)
  BY <1>1 DEF CameraOn, CameraOff
<1>2. CASE DetectorSteps \/ CoordinatorSteps \/ EndSteps
  BY <1>2 DEF DetectorSteps, Attach, Ready, Read, PassOn, CoordinatorSteps, Coordinate,
     EndSteps, WindUp, Finish, Reset
<1>3. CASE TakeMessage \/ EmitFails \/ StopNotifier \/ DetectorEnds \/ ConnectBus \/ Terminate
  BY <1>3 DEF TakeMessage, EmitFails, StopNotifier, DetectorEnds, ConnectBus, Terminate
<1>4. CASE Crash \/ Restart \/ Start
  BY <1>4 DEF Crash, Reset, Restart, Start, Boot
<1> QED
  BY <1>1, <1>2, <1>3, <1>4 DEF ServiceAlone

(* What the DBus notifier emits is a signal autolight understands.         *)
LEMMA EmittedSignal ==
  ASSUME ServiceTypeOK, Emit
  PROVE  emitting.type \in {A!Recording, A!Stopped} /\ emitting.dev \in Devices
<1>1. emitting \in C!Messages
  BY OneDetector DEF Emit, Handled, Notifier, ServiceTypeOK, TypeOK
<1> QED
  BY <1>1 DEF C!Messages, C!On, C!Off, A!Recording, A!Stopped

(* Autolight runs as Autolight says for any daemon, also for one that is   *)
(* started again and again and begins with an empty map: what the service  *)
(* emits is always a signal it knows, about a camera.                      *)
THEOREM AutolightListens == EndToEndSpec => A!Spec
<1>1. EndToEndInit => A!Init
  BY DEF EndToEndInit
<1>2. ServiceTypeOK /\ [EndToEndNext]_endVars => [A!Next]_(A!vars)
  <2> SUFFICES ASSUME ServiceTypeOK, [EndToEndNext]_endVars PROVE [A!Next]_(A!vars)
    OBVIOUS
  <2>1. CASE Announce
    BY <2>1, EmittedSignal DEF Announce, A!Next
  <2>2. CASE ServiceAlone
    BY <2>2, Unnoticed DEF ServiceAlone, autolightVars, A!vars, A!lockVars, A!appVars,
       A!busVars, A!lightVars
  <2>3. CASE AutolightAlone
    BY <2>3 DEF AutolightAlone, A!Next
  <2>4. CASE UNCHANGED endVars
    BY <2>4 DEF endVars, vars, autolightVars, A!vars, A!lockVars, A!appVars, A!busVars,
       A!lightVars
  <2> QED
    BY <2>1, <2>2, <2>3, <2>4 DEF EndToEndNext
<1> QED
  BY <1>1, <1>2, EndToEndIsService, ServiceTypeCorrect, PTL DEF EndToEndSpec, A!Spec

-----------------------------------------------------------------------------
(* From the cameras to the lights                                          *)

AP == INSTANCE AutolightProofs WITH Cameras <- Devices, camsOn <- heard, ctxDone <- quit

(* The Autolight of the proofs and the one that listens are the same.      *)
LEMMA SameAutolight ==
  /\ A!Init <=> AP!Init
  /\ [A!Next]_(A!vars) <=> [AP!Next]_(AP!vars)
  /\ A!LightsFollow <=> AP!LightsFollow
<1> USE DEF A!Recording, A!Stopped, A!Other, A!Signals, A!Clicks, A!Goroutines, A!appVars,
            A!busVars, A!lightVars, A!lockVars, A!Free, A!Listening, A!Locked, A!Wish,
            A!Drift, A!LeaveLights, A!WithoutCamera, AP!Recording, AP!Stopped, AP!Other,
            AP!Signals, AP!Clicks, AP!Goroutines, AP!appVars, AP!busVars, AP!lightVars,
            AP!lockVars, AP!Free, AP!Listening, AP!Locked, AP!Wish, AP!Drift,
            AP!LeaveLights, AP!WithoutCamera
<1>1. A!Init <=> AP!Init
  BY DEF A!Init, AP!Init
<1>2. A!vars = AP!vars /\ A!vars' = AP!vars'
  BY DEF A!vars, AP!vars
<1>3. A!RunStep <=> AP!RunStep
  BY DEF A!RunStep, A!SignalOn, A!SignalOff, A!SignalIgnored, A!HandleSignal,
         A!HandleCamera, A!SetLights, AP!RunStep, AP!SignalOn, AP!SignalOff,
         AP!SignalIgnored, AP!HandleSignal, AP!HandleCamera, AP!SetLights
<1>4. /\ A!RunEnd <=> AP!RunEnd
      /\ A!Quit <=> AP!Quit
      /\ A!LoseBus <=> AP!LoseBus
  BY DEF A!RunEnd, A!ReturnOnDone, A!ReturnOnClosed, A!Connect, A!ConnectFails,
         A!Connected, A!Quit, A!LoseBus, AP!RunEnd, AP!ReturnOnDone, AP!ReturnOnClosed,
         AP!Connect, AP!ConnectFails, AP!Connected, AP!Quit, AP!LoseBus
<1>5. \A t \in A!Goroutines : A!LightStep(t) <=> AP!LightStep(t)
  BY DEF A!LightStep, A!Unlock, A!Done, A!WriteLight, A!WriteFails, A!Written,
         AP!LightStep, AP!Unlock, AP!Done, AP!WriteLight, AP!WriteFails, AP!Written
<1>6. \A c \in Clickers :
        /\ A!ClickStep(c) <=> AP!ClickStep(c)
        /\ \A op \in A!Clicks : A!Click(c, op) <=> AP!Click(c, op)
  BY DEF A!ClickStep, A!OnToggleLightClicked, A!OnEnableClicked, A!OnAdjustClicked,
         A!Enter, A!SetLights, A!Click, AP!ClickStep, AP!OnToggleLightClicked,
         AP!OnEnableClicked, AP!OnAdjustClicked, AP!Enter, AP!SetLights, AP!Click
<1>7. \A sig \in A!Signals : A!LateArrival(sig) <=> AP!LateArrival(sig)
  BY DEF A!LateArrival, AP!LateArrival
<1>8. \A d \in Devices, type \in {A!Recording, A!Stopped} :
        /\ A!Announce(type, d) <=> AP!Announce(type, d)
        /\ A!Unheard(type, d) <=> AP!Unheard(type, d)
  <2>1. \A sig : (A!CanQueue(sig) <=> AP!CanQueue(sig)) /\ (A!Queue(sig) <=> AP!Queue(sig))
    BY DEF A!CanQueue, A!Queue, A!Cardinality, A!IsFiniteSet, AP!CanQueue, AP!Queue,
       AP!Cardinality, AP!IsFiniteSet
  <2>2. \A type, d : /\ A!Change(type, d) <=> AP!Change(type, d)
                     /\ A!Overtake(d) <=> AP!Overtake(d)
    BY DEF A!Change, A!Overtake, AP!Change, AP!Overtake
  <2> QED
    BY <2>1, <2>2 DEF A!Announce, A!Unheard, AP!Announce, AP!Unheard
<1>9. \A d \in Devices : A!OddSignal(d) <=> AP!OddSignal(d)
  BY DEF A!OddSignal, AP!OddSignal
<1>10. \A l \in Lights :
         /\ A!Press(l) <=> AP!Press(l)
         /\ A!PlugIn(l) <=> AP!PlugIn(l)
         /\ A!Unplug(l) <=> AP!Unplug(l)
  BY DEF A!Press, A!PlugIn, A!Unplug, AP!Press, AP!PlugIn, AP!Unplug
<1>11. A!Next <=> AP!Next
  BY <1>3, <1>4, <1>5, <1>6, <1>7, <1>8, <1>9, <1>10 DEF A!Next, AP!Next
<1>12. A!LightsFollow <=> AP!LightsFollow
  BY DEF A!LightsFollow, A!Settled, AP!LightsFollow, AP!Settled
<1> QED
  BY <1>1, <1>2, <1>11, <1>12

(* Once nothing is under way any more, the lights show what the cameras    *)
(* do, apart from the cameras whose part in them is not certain: for any   *)
(* number of cameras, lights and clicks, any ring buffer and channel,      *)
(* whatever crashed and was started again and whatever was held back.      *)
THEOREM LightsFollowCameras ==
  ASSUME SigCap \in Nat \ {0}, LateCap \in Nat, "run" \notin Clickers, "free" \notin Clickers
  PROVE  EndToEndSpec => []LightsShowCameras
<1>1. AP!Spec => []AP!LightsFollow
  BY AP!FollowCorrect
<1>2. A!Spec => AP!Spec
  BY SameAutolight, PTL DEF A!Spec, AP!Spec
<1>3. ServiceTypeOK /\ ListenersTrackCameras /\ A!LightsFollow => LightsShowCameras
  <2> SUFFICES ASSUME ServiceTypeOK, ListenersTrackCameras, A!LightsFollow, AtRest,
                      NEW l \in plugged \ drifted
               PROVE  /\ (streaming \cap announced) \ Unsure # {} => l \in shining
                      /\ l \in shining => (streaming \cup Unsure) \cap announced # {}
    BY DEF LightsShowCameras
  <2>1. /\ (heard \cap announced) \ overtaken # {} => l \in shining
        /\ l \in shining => (heard \cup overtaken) \cap announced # {}
    BY DEF A!LightsFollow, AtRest
  <2>2. streaming \subseteq Devices /\ heard \subseteq Devices
    BY DEF ServiceTypeOK
  <2>3. \A d \in Devices \ Uncertain : d \in heard <=> d \in streaming
    BY DEF ListenersTrackCameras, AtRest
  <2> QED
    BY <2>1, <2>2, <2>3 DEF Unsure
<1> QED
  BY <1>1, <1>2, <1>3, SameAutolight, AutolightListens, EndToEndIsService, ListenersCorrect,
     ServiceTypeCorrect, PTL

=============================================================================
