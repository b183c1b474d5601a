---------------------------- MODULE DaemonProofs ----------------------------
(***************************************************************************)
(* Proofs about Daemon for every set of detectors and devices and every    *)
(* number of notifiers.  What CameraCoordinatorProofs shows of the         *)
(* coordinator alone is carried over to the coordinator in the process.    *)
(***************************************************************************)
EXTENDS Daemon, TLAPS

CP == INSTANCE CameraCoordinatorProofs WITH ChanCap <- [o \in 1 .. NumOutputs |-> 1]

(* The coordinator's own assumptions hold of the one in the process.       *)
LEMMA CoordinatorAssumptions ==
  /\ NumOutputs \in Nat /\ [o \in 1 .. NumOutputs |-> 1] \in [CP!Outputs -> Nat]
  /\ NodeKinds \subseteq CP!AllNodeKinds
  /\ NoEvent \notin CP!Events
<1>1. NumOutputs \in Nat /\ [o \in 1 .. NumOutputs |-> 1] \in [CP!Outputs -> Nat]
  BY DaemonAssumption DEF CP!Outputs
<1>2. NodeKinds \subseteq CP!AllNodeKinds
  BY DaemonAssumption DEF CP!AllNodeKinds, C!AllNodeKinds
<1>3. NoEvent \notin CP!Events
  BY DaemonAssumption DEF CP!Events, C!Events, CP!On, CP!Off, CP!Unknown,
     C!On, C!Off, C!Unknown
<1> QED
  BY <1>1, <1>2, <1>3

(* TypeOK without the coordinator's part.                                  *)
OwnTypeOK ==
  /\ detPc \in [Detectors -> {"starting", "reading", "sending", "done"}]
  /\ held \in [Detectors -> C!Events \cup {NoEvent}]
  /\ \A t \in Detectors : held[t] # NoEvent <=> detPc[t] = "sending"
  /\ notPc \in [Outputs -> {"connecting", "waiting", "handling", "done", "failed"}]
  /\ nextClose \in 1 .. NumOutputs + 1
  /\ exited \in BOOLEAN

(* The goroutines around the coordinator keep to their types.              *)
LEMMA OwnTypeInit == Init => OwnTypeOK
<1> SUFFICES ASSUME Init PROVE OwnTypeOK
  OBVIOUS
<1>1. notPc \in [Outputs -> {"connecting", "waiting", "handling", "done", "failed"}]
  BY DEF Init
<1>2. nextClose \in 1 .. NumOutputs + 1
  BY DaemonAssumption DEF Init
<1> QED
  BY <1>1, <1>2 DEF Init, OwnTypeOK

LEMMA OwnTypeStep == OwnTypeOK /\ [Next]_daemonVars => OwnTypeOK'
<1> SUFFICES ASSUME OwnTypeOK, [Next]_daemonVars PROVE OwnTypeOK'
  OBVIOUS
<1> USE DaemonAssumption DEF OwnTypeOK
<1>1. ASSUME NEW t \in Detectors, DetectorReady(t) \/ DetectorFails(t) PROVE OwnTypeOK'
  BY <1>1 DEF DetectorReady, DetectorFails
<1>2. ASSUME NEW t \in Detectors, Pass(t) \/ DetectorStops(t) PROVE OwnTypeOK'
  BY <1>2 DEF Pass, DetectorStops
<1>3. ASSUME NEW t \in Detectors, NEW e \in Reports(t), Detect(t, e) PROVE OwnTypeOK'
  BY <1>3 DEF Detect, Reports
<1>4. CASE CloseAllEvents \/ RunCoordinator \/ Signal
  BY <1>4 DEF CloseAllEvents, RunCoordinator, Signal, procVars
<1>5. CASE CloseNotifierChannel
  BY <1>5 DEF CloseNotifierChannel, detVars
<1>6. CASE Connect \/ ConnectFails
  BY <1>6 DEF Connect, ConnectFails, Notifier, detVars
<1>7. ASSUME NEW o \in Outputs, NotifierStep(o) PROVE OwnTypeOK'
  BY <1>7 DEF NotifierStep, Take, Handled, NotifierStops, Notifier, detVars
<1>8. CASE Exit
  BY <1>8 DEF Exit, detVars
<1>9. ASSUME NEW d \in Devices, NEW kind \in NodeKinds, Replug(d, kind) PROVE OwnTypeOK'
  BY <1>9 DEF Replug, procVars
<1>10. CASE UNCHANGED daemonVars
  BY <1>10 DEF daemonVars, procVars
<1> QED
  BY <1>1, <1>2, <1>3, <1>4, <1>5, <1>6, <1>7, <1>8, <1>9, <1>10 DEF Next, DetectorStep

LEMMA OwnTypeCorrect == Spec => []OwnTypeOK
BY OwnTypeInit, OwnTypeStep, PTL DEF Spec

-----------------------------------------------------------------------------
(* Every step of the process is a step of the coordinator's specification  *)
(* or leaves the coordinator alone.                                        *)
LEMMA StepMaps == OwnTypeOK /\ [Next]_daemonVars => [C!Next]_(C!vars)
<1> SUFFICES ASSUME OwnTypeOK, [Next]_daemonVars PROVE [C!Next]_(C!vars)
  OBVIOUS
<1>1. UNCHANGED coordVars => UNCHANGED C!vars
  BY DEF coordVars, C!vars
<1>2. ASSUME NEW t \in Detectors, DetectorStep(t) PROVE [C!Next]_(C!vars)
  <2>1. CASE Pass(t)
    <3>1. held[t] \in C!Events /\ C!Receive(held[t])
      BY <2>1 DEF Pass, OwnTypeOK
    <3> QED
      BY <3>1 DEF C!Next
  <2>2. CASE ~Pass(t)
    BY <1>1, <1>2, <2>2 DEF DetectorStep, DetectorReady, DetectorFails, DetectorStops, Detect
  <2> QED
    BY <2>1, <2>2
<1>3. CASE CloseAllEvents \/ RunCoordinator \/ Signal
  BY <1>3 DEF CloseAllEvents, RunCoordinator, Signal, C!Next
<1>4. CASE CloseNotifierChannel \/ Connect \/ ConnectFails \/ Exit
  BY <1>1, <1>4 DEF CloseNotifierChannel, Connect, ConnectFails, Exit
<1>5. ASSUME NEW o \in Outputs, NotifierStep(o) PROVE [C!Next]_(C!vars)
  <2>1. CASE Take(o)
    BY <2>1 DEF Take, C!Next, Outputs, C!Outputs
  <2>2. CASE Handled(o) \/ NotifierStops(o)
    BY <1>1, <2>2 DEF Handled, NotifierStops
  <2> QED
    BY <1>5, <2>1, <2>2 DEF NotifierStep
<1>6. ASSUME NEW d \in Devices, NEW kind \in NodeKinds, Replug(d, kind)
      PROVE [C!Next]_(C!vars)
  BY <1>6 DEF Replug, C!Next
<1>7. CASE UNCHANGED daemonVars
  BY <1>1, <1>7 DEF daemonVars
<1> QED
  BY <1>2, <1>3, <1>4, <1>5, <1>6, <1>7 DEF Next

(* What is proved of the coordinator by itself therefore holds of it here. *)
LEMMA CoordinatorInside == Spec => C!Spec
<1>1. Init => C!Init
  BY DEF Init
<1> QED
  BY <1>1, StepMaps, OwnTypeCorrect, PTL DEF Spec, C!Spec

LEMMA SameType == CP!TypeOK' => C!TypeOK'
BY DEF C!On, C!Off, C!Unknown, C!Outputs, C!Events, C!Messages, C!TypeOK,
       CP!On, CP!Off, CP!Unknown, CP!Outputs, CP!Events, CP!Messages, CP!TypeOK

LEMMA SameFeed == CP!FeedInv' => C!FeedInv'
BY DEF C!On, C!Off, C!Unknown, C!Outputs, C!OnDevices, C!Message, C!FeedInv, C!Bridges,
       C!Explains, C!Switches, C!InFlight, CP!On, CP!Off, CP!Unknown, CP!Outputs,
       CP!OnDevices, CP!Message, CP!FeedInv, CP!Bridges, CP!Explains, CP!Switches,
       CP!InFlight

(* The coordinator of Daemon and that of the proofs are the same.          *)
LEMMA SameCoordinator ==
  /\ C!Init <=> CP!Init
  /\ [C!Next]_(C!vars) <=> [CP!Next]_(CP!vars)
  /\ C!TypeOK <=> CP!TypeOK
  /\ C!FeedInv <=> CP!FeedInv
<1> USE DEF C!On, C!Off, C!Unknown, C!Outputs, C!Events, C!Messages, C!OnDevices, C!Message,
            CP!On, CP!Off, CP!Unknown, CP!Outputs, CP!Events, CP!Messages, CP!OnDevices,
            CP!Message
<1>1. C!Init <=> CP!Init
  BY DEF C!Init, CP!Init
<1>2. C!TypeOK <=> CP!TypeOK
  BY DEF C!TypeOK, CP!TypeOK
<1>3. C!FeedInv <=> CP!FeedInv
  BY DEF C!FeedInv, C!Bridges, C!Explains, C!Switches, C!InFlight,
         CP!FeedInv, CP!Bridges, CP!Explains, CP!Switches, CP!InFlight
<1>4. C!vars = CP!vars /\ C!vars' = CP!vars'
  BY DEF C!vars, CP!vars
<1> USE DEF C!outVars, C!envVars, CP!outVars, CP!envVars, C!BackToSelect, CP!BackToSelect
<1>5. C!Handle <=> CP!Handle
  BY DEF C!Handle, C!Skip, C!DuplicateOn, C!FirstOn, C!StrayOff, C!MatchingOff,
         C!UnknownType, C!Handling, C!ForwardIf, C!Outstanding, C!WasEmpty, C!LastActive,
         CP!Handle, CP!Skip, CP!DuplicateOn, CP!FirstOn, CP!StrayOff, CP!MatchingOff,
         CP!UnknownType, CP!Handling, CP!ForwardIf, CP!Outstanding, CP!WasEmpty, CP!LastActive
<1>6. C!Broadcast <=> CP!Broadcast
  BY DEF C!Broadcast, C!Send, C!Handoff, C!AbortBroadcast, C!EndBroadcast, C!Broadcasting,
         C!HasRoom, C!Deliver, CP!Broadcast, CP!Send, CP!Handoff, CP!AbortBroadcast,
         CP!EndBroadcast, CP!Broadcasting, CP!HasRoom, CP!Deliver
<1>7. C!Next <=> CP!Next
  BY <1>5, <1>6 DEF C!Next, C!Start, C!ReturnOnDone, C!ReturnOnClosed, C!Receive, C!Consume,
         C!Deliver, C!Cancel, C!CloseEvents, C!Replug, CP!Next, CP!Start, CP!ReturnOnDone,
         CP!ReturnOnClosed, CP!Receive, CP!Consume, CP!Deliver, CP!Cancel, CP!CloseEvents,
         CP!Replug
<1> QED
  BY <1>1, <1>2, <1>3, <1>4, <1>7

(* So the invariants proved of the coordinator hold in the process.        *)
LEMMA CoordinatorInvariants == Spec => [](C!TypeOK /\ C!FeedInv)
<1>1. CP!Spec => []CP!TypeOK
  BY CoordinatorAssumptions, CP!TypeCorrect
<1>2. CP!Spec => []CP!FeedInv
  BY CoordinatorAssumptions, CP!FeedCorrect
<1>3. C!Spec => CP!Spec
  BY SameCoordinator, PTL DEF C!Spec, CP!Spec
<1> QED
  BY <1>1, <1>2, <1>3, SameCoordinator, CoordinatorInside, PTL

(* The type of the whole process holds initially and is kept by each step. *)
LEMMA TypeInit == Init => TypeOK
<1>1. Init => C!Init
  BY DEF Init
<1>2. C!Init => C!TypeOK
  BY CoordinatorAssumptions, SameCoordinator, CP!InitType
<1> QED
  BY <1>1, <1>2, OwnTypeInit DEF OwnTypeOK, TypeOK

LEMMA TypeStep == TypeOK /\ [Next]_daemonVars => TypeOK'
<1> SUFFICES ASSUME TypeOK, [Next]_daemonVars PROVE TypeOK'
  OBVIOUS
<1>1. OwnTypeOK /\ C!TypeOK
  BY DEF TypeOK, OwnTypeOK
<1>2. OwnTypeOK'
  BY <1>1, OwnTypeStep
<1>3. CP!TypeOK /\ [CP!Next]_(CP!vars)
  BY <1>1, StepMaps, SameCoordinator
<1>4. CP!TypeOK'
  BY <1>3, CoordinatorAssumptions, CP!TypeStep
<1>5. C!TypeOK'
  BY <1>4, SameType
<1> QED
  BY <1>2, <1>5 DEF TypeOK, OwnTypeOK

(* Every reachable state of the process is of the declared type.           *)
THEOREM TypeCorrect == Spec => []TypeOK
<1>1. OwnTypeOK /\ C!TypeOK => TypeOK
  BY DEF OwnTypeOK, TypeOK
<1> QED
  BY <1>1, OwnTypeCorrect, CoordinatorInvariants, PTL

-----------------------------------------------------------------------------
(* Channels are closed in order: allEvents once no detector can send again,*)
(* the notifier channels once the coordinator has returned for good.       *)
CloseInv ==
  /\ eventsClosed => DetectorsDone
  /\ nextClose > 1 => pc = "returned"

(* They hold at first and are kept by every step.                          *)
LEMMA CloseInit == Init => CloseInv
BY DEF Init, C!Init, CloseInv

LEMMA CloseStep == OwnTypeOK /\ CloseInv /\ [Next]_daemonVars => CloseInv'
<1> SUFFICES ASSUME OwnTypeOK, CloseInv, [Next]_daemonVars PROVE CloseInv'
  OBVIOUS
<1> USE DEF CloseInv, DetectorsDone, coordVars
<1>1. ASSUME NEW t \in Detectors, DetectorStep(t) PROVE CloseInv'
  <2>1. CASE Pass(t)
    BY <1>1, <2>1 DEF Pass, C!Receive, C!envVars
  <2>2. CASE DetectorReady(t) \/ DetectorFails(t) \/ DetectorStops(t)
    BY <2>2 DEF DetectorReady, DetectorFails, DetectorStops, OwnTypeOK
  <2>3. ASSUME NEW e \in Reports(t), Detect(t, e) PROVE CloseInv'
    BY <2>3 DEF Detect
  <2> QED
    BY <1>1, <2>1, <2>2, <2>3 DEF DetectorStep
<1>2. CASE CloseAllEvents
  BY <1>2 DEF CloseAllEvents, C!CloseEvents, procVars
<1>3. CASE RunCoordinator
  <2>1. pc # "returned" /\ UNCHANGED eventsClosed
    BY <1>3 DEF RunCoordinator, C!Start, C!ReturnOnDone, C!ReturnOnClosed, C!Handle,
       C!Skip, C!DuplicateOn, C!FirstOn, C!StrayOff, C!MatchingOff, C!UnknownType,
       C!Handling, C!Broadcast, C!Send, C!Handoff, C!AbortBroadcast, C!EndBroadcast,
       C!Broadcasting, C!envVars
  <2> QED
    BY <1>3, <2>1 DEF RunCoordinator, procVars
<1>4. CASE CloseNotifierChannel
  BY <1>4 DEF CloseNotifierChannel, detVars
<1>5. CASE Connect \/ ConnectFails \/ Exit
  BY <1>5 DEF Connect, ConnectFails, Exit, Notifier, detVars
<1>6. ASSUME NEW o \in Outputs, NotifierStep(o) PROVE CloseInv'
  BY <1>6 DEF NotifierStep, Take, Handled, NotifierStops, Notifier, C!Consume,
     C!envVars, detVars
<1>7. CASE Signal
  BY <1>7 DEF Signal, C!Cancel, procVars
<1>8. ASSUME NEW d \in Devices, NEW kind \in NodeKinds, Replug(d, kind) PROVE CloseInv'
  BY <1>8 DEF Replug, C!Replug, procVars
<1>9. CASE UNCHANGED daemonVars
  BY <1>9 DEF daemonVars, procVars
<1> QED
  BY <1>1, <1>2, <1>3, <1>4, <1>5, <1>6, <1>7, <1>8, <1>9 DEF Next

-----------------------------------------------------------------------------
(* A notifier that ended by itself has nothing left to take, from a        *)
(* coordinator that will not send again.                                   *)
DrainInv ==
  \A o \in Outputs : notPc[o] = "done" /\ ~ctxDone =>
    pc = "returned" /\ chans[o] = <<>> /\ views[o] = C!OnDevices

(* With nothing in flight a consumer has the coordinator's on-set.         *)
LEMMA NothingInFlight ==
  ASSUME NEW o \in Outputs, C!FeedInv, ~ctxDone, pc = "returned", chans[o] = <<>>
  PROVE  views[o] = C!OnDevices
<1>1. C!Bridges(views[o], <<>>, C!OnDevices)
  BY DEF C!FeedInv, C!InFlight, Outputs, C!Outputs
<1>2. Len(<<>>) = 0
  OBVIOUS
<1> QED
  BY <1>1, <1>2 DEF C!Bridges, C!Explains

(* No step leaves an ended notifier with something to take.                *)
LEMMA DrainInit == Init => DrainInv
BY DEF Init, DrainInv

LEMMA DrainStep ==
  OwnTypeOK /\ C!TypeOK /\ C!FeedInv /\ CloseInv /\ DrainInv /\ [Next]_daemonVars
    => DrainInv'
<1> SUFFICES ASSUME OwnTypeOK, C!TypeOK, C!FeedInv, CloseInv, DrainInv, [Next]_daemonVars
             PROVE  DrainInv'
  OBVIOUS
<1> USE DEF DrainInv, coordVars, C!OnDevices, C!outVars, C!envVars
<1>1. ASSUME NEW t \in Detectors, DetectorStep(t) PROVE DrainInv'
  <2>1. CASE Pass(t)
    BY <2>1 DEF Pass, C!Receive
  <2>2. CASE ~Pass(t)
    BY <1>1, <2>2 DEF DetectorStep, DetectorReady, DetectorFails, DetectorStops, Detect
  <2> QED
    BY <2>1, <2>2
<1>2. CASE CloseAllEvents
  BY <1>2 DEF CloseAllEvents, C!CloseEvents, procVars
<1>3. CASE RunCoordinator
  <2>1. pc # "returned" /\ UNCHANGED <<ctxDone, notPc>>
    BY <1>3 DEF RunCoordinator, C!Start, C!ReturnOnDone, C!ReturnOnClosed, C!Handle,
       C!Skip, C!DuplicateOn, C!FirstOn, C!StrayOff, C!MatchingOff, C!UnknownType,
       C!Handling, C!Broadcast, C!Send, C!Handoff, C!AbortBroadcast, C!EndBroadcast,
       C!Broadcasting, procVars
  <2> QED
    BY <2>1
<1>4. CASE CloseNotifierChannel \/ Exit
  BY <1>4 DEF CloseNotifierChannel, Exit
<1>5. CASE Connect \/ ConnectFails
  BY <1>5 DEF Connect, ConnectFails, Notifier, OwnTypeOK
<1>6. ASSUME NEW o \in Outputs, NotifierStops(o) PROVE DrainInv'
  <2>1. ~ctxDone => pc = "returned" /\ chans[o] = <<>>
    BY <1>6, DaemonAssumption DEF NotifierStops, CanEnd, Closed, CloseInv, OwnTypeOK, Outputs
  <2>2. ~ctxDone => views[o] = {d \in Devices : active[d] # {}}
    BY <2>1, NothingInFlight
  <2> QED
    BY <1>6, <2>1, <2>2 DEF NotifierStops, Notifier, OwnTypeOK
<1>7. ASSUME NEW o \in Outputs, Take(o) PROVE DrainInv'
  BY <1>7 DEF Take, Notifier, C!Consume, C!TypeOK, OwnTypeOK, Outputs, C!Outputs
<1>8. ASSUME NEW o \in Outputs, Handled(o) PROVE DrainInv'
  BY <1>8 DEF Handled, Notifier, OwnTypeOK
<1>9. CASE Signal
  BY <1>9 DEF Signal, C!Cancel
<1>10. ASSUME NEW d \in Devices, NEW kind \in NodeKinds, Replug(d, kind) PROVE DrainInv'
  BY <1>10 DEF Replug, C!Replug, procVars
<1>11. CASE UNCHANGED daemonVars
  BY <1>11 DEF daemonVars, procVars
<1> QED
  BY <1>1, <1>2, <1>3, <1>4, <1>5, <1>6, <1>7, <1>8, <1>9, <1>10, <1>11
     DEF Next, NotifierStep

-----------------------------------------------------------------------------
(* Only the DBus notifier gives up, and without a cancellation the         *)
(* coordinator returns only because its events channel is closed.          *)
ReasonInv ==
  /\ \A o \in Outputs : notPc[o] = "failed" => o = DBus
  /\ pc = "returned" /\ ~ctxDone => eventsClosed

(* No step makes up another reason.                                        *)
LEMMA ReasonInit == Init => ReasonInv
BY DEF Init, C!Init, ReasonInv

LEMMA ReasonStep == OwnTypeOK /\ ReasonInv /\ [Next]_daemonVars => ReasonInv'
<1> SUFFICES ASSUME OwnTypeOK, ReasonInv, [Next]_daemonVars PROVE ReasonInv'
  OBVIOUS
<1> USE DEF ReasonInv, coordVars, C!envVars
<1>1. ASSUME NEW t \in Detectors, DetectorStep(t) PROVE ReasonInv'
  <2>1. CASE Pass(t)
    BY <2>1 DEF Pass, C!Receive
  <2>2. CASE ~Pass(t)
    BY <1>1, <2>2 DEF DetectorStep, DetectorReady, DetectorFails, DetectorStops, Detect
  <2> QED
    BY <2>1, <2>2
<1>2. CASE CloseAllEvents \/ Signal
  BY <1>2 DEF CloseAllEvents, C!CloseEvents, Signal, C!Cancel, procVars
<1>3. CASE RunCoordinator
  <2>1. UNCHANGED <<notPc, ctxDone, eventsClosed>>
    BY <1>3 DEF RunCoordinator, C!Start, C!ReturnOnDone, C!ReturnOnClosed, C!Handle,
       C!Skip, C!DuplicateOn, C!FirstOn, C!StrayOff, C!MatchingOff, C!UnknownType,
       C!Broadcast, C!Send, C!Handoff, C!AbortBroadcast, C!EndBroadcast, procVars
  <2>2. pc' = "returned" => pc = "returned" \/ ctxDone \/ eventsClosed
    BY <1>3 DEF RunCoordinator, C!Start, C!ReturnOnDone, C!ReturnOnClosed, C!Handle,
       C!Skip, C!DuplicateOn, C!FirstOn, C!StrayOff, C!MatchingOff, C!UnknownType,
       C!ForwardIf, C!BackToSelect, C!Broadcast, C!Send, C!Handoff, C!AbortBroadcast,
       C!EndBroadcast
  <2> QED
    BY <2>1, <2>2
<1>4. CASE CloseNotifierChannel \/ Exit
  BY <1>4 DEF CloseNotifierChannel, Exit
<1>5. CASE Connect \/ ConnectFails
  BY <1>5 DEF Connect, ConnectFails, Notifier, OwnTypeOK
<1>6. ASSUME NEW o \in Outputs, NotifierStep(o) PROVE ReasonInv'
  BY <1>6 DEF NotifierStep, Take, Handled, NotifierStops, Notifier, C!Consume, OwnTypeOK
<1>7. ASSUME NEW d \in Devices, NEW kind \in NodeKinds, Replug(d, kind) PROVE ReasonInv'
  BY <1>7 DEF Replug, C!Replug, procVars
<1>8. CASE UNCHANGED daemonVars
  BY <1>8 DEF daemonVars, procVars
<1> QED
  BY <1>1, <1>2, <1>3, <1>4, <1>5, <1>6, <1>7, <1>8 DEF Next

-----------------------------------------------------------------------------
(* The inductive invariant of one life of the process.                     *)
LifeInv == TypeOK /\ C!FeedInv /\ CloseInv /\ DrainInv /\ ReasonInv

(* Its part about the coordinator comes from the coordinator's own proofs. *)
LEMMA FeedStep == TypeOK /\ C!FeedInv /\ [Next]_daemonVars => C!FeedInv'
<1> SUFFICES ASSUME TypeOK, C!FeedInv, [Next]_daemonVars PROVE C!FeedInv'
  OBVIOUS
<1>1. CP!TypeOK /\ CP!FeedInv /\ [CP!Next]_(CP!vars)
  BY StepMaps, SameCoordinator DEF TypeOK, OwnTypeOK
<1>2. CP!FeedInv'
  BY <1>1, CoordinatorAssumptions, CP!FeedStep
<1> QED
  BY <1>2, SameFeed

LEMMA LifeInit == Init => LifeInv
<1> SUFFICES ASSUME Init PROVE LifeInv
  OBVIOUS
<1>1. C!FeedInv
  BY CoordinatorAssumptions, SameCoordinator, CP!FeedInit DEF Init
<1> QED
  BY <1>1, TypeInit, CloseInit, DrainInit, ReasonInit DEF LifeInv

LEMMA LifeStep == LifeInv /\ [Next]_daemonVars => LifeInv'
<1> SUFFICES ASSUME LifeInv, [Next]_daemonVars PROVE LifeInv'
  OBVIOUS
<1>1. OwnTypeOK /\ C!TypeOK
  BY DEF LifeInv, TypeOK, OwnTypeOK
<1> QED
  BY <1>1, TypeStep, FeedStep, CloseStep, DrainStep, ReasonStep DEF LifeInv

LEMMA LifeCorrect == Spec => []LifeInv
BY LifeInit, LifeStep, PTL DEF Spec

(* Channels closed in that order are not sent on.                          *)
LEMMA NeverSendsOnClosed == LifeInv => NoSendOnClosed
BY DaemonAssumption
   DEF LifeInv, TypeOK, CloseInv, NoSendOnClosed, DetectorsDone, Closed, Outputs

(* No goroutine is ever left sending on a channel another has closed: the  *)
(* process does not panic while it shuts down.                             *)
THEOREM NoPanic == Spec => []NoSendOnClosed
BY LifeCorrect, NeverSendsOnClosed, PTL

(* An ended notifier has the coordinator's on-set.                         *)
LEMMA DrainsAll == LifeInv => DrainedBeforeEnd
BY DEF LifeInv, DrainInv, DrainedBeforeEnd

(* Closing a channel drops nothing: a notifier that ends without a         *)
(* cancellation has taken every change the coordinator decided.            *)
THEOREM Drained == Spec => []DrainedBeforeEnd
BY LifeCorrect, DrainsAll, PTL

(* What a notifier takes switches a device in what it has taken so far.    *)
LEMMA TakesNews ==
  ASSUME LifeInv, NEW o \in Outputs, Take(o), ~ctxDone
  PROVE  views'[o] # views[o]
<1>1. CP!TypeOK /\ CP!FeedInv
  BY SameCoordinator DEF LifeInv, TypeOK
<1>2. CP!Consume(o) /\ o \in CP!Outputs
  BY DEF Take, C!Consume, C!Deliver, C!On, C!envVars, CP!Consume, CP!Deliver, CP!On,
     CP!envVars, Outputs, CP!Outputs
<1>3. CP!Received(o)
  BY <1>1, <1>2, CoordinatorAssumptions, CP!ReceiveEffect
<1> QED
  BY <1>1, <1>2, <1>3, CoordinatorAssumptions, CP!ReceiveIsNews

-----------------------------------------------------------------------------
(* Who waits for whom                                                      *)

(* Cancelled, every goroutine that has not ended can go on.                *)
LEMMA CancelledGoOn ==
  ASSUME LifeInv, ctxDone
  PROVE  SomeoneCanGo
<1> SUFFICES ASSUME ~SomeoneCanGo PROVE FALSE
  OBVIOUS
<1> USE DaemonAssumption DEF LifeInv, TypeOK, C!TypeOK
<1>1. DetectorsDone /\ eventsClosed
  BY DEF SomeoneCanGo, DetectorCanGo, CanStop, DetectorsDone
<1>2. pc = "returned" /\ nextClose = NumOutputs + 1
  BY DEF SomeoneCanGo, CoordinatorCanGo
<1>3. \A o \in Outputs : notPc[o] \in {"done", "failed"}
  BY DEF SomeoneCanGo, NotifierCanGo, CanEnd
<1> QED
  BY <1>1, <1>2, <1>3 DEF SomeoneCanGo, AllEnded

(* A notifier without anything to do either waits on an empty channel or   *)
(* has ended because that was closed, or is the one that gave up.          *)
LEMMA NotifierAtRest ==
  ASSUME LifeInv, ~ctxDone, NEW o \in Outputs, ~NotifierCanGo(o)
  PROVE  \/ notPc[o] = "waiting" /\ chans[o] = <<>> /\ ~Closed(o)
         \/ notPc[o] = "done" /\ pc = "returned"
         \/ BusLost(o)
<1>1. notPc[o] \in {"waiting", "done", "failed"}
  BY DEF LifeInv, TypeOK, NotifierCanGo
<1> QED
  BY <1>1 DEF LifeInv, ReasonInv, DrainInv, NotifierCanGo, CanEnd, BusLost

(* If nobody can go on and the bus is not to blame, all wait for a camera. *)
LEMMA NobodyWaitsInACircle == LifeInv => NoDeadlock
<1> SUFFICES ASSUME LifeInv, ~SomeoneCanGo, ~StuckOnBus PROVE Idle
  BY DEF NoDeadlock
<1> USE DaemonAssumption
<1>1. ~ctxDone
  BY CancelledGoOn
<1>2. \A o \in Outputs : \/ notPc[o] = "waiting" /\ chans[o] = <<>> /\ ~Closed(o)
                         \/ notPc[o] = "done" /\ pc = "returned"
                         \/ BusLost(o)
  BY <1>1, NotifierAtRest DEF SomeoneCanGo
<1>3. pc # "returned"
  <2> SUFFICES ASSUME pc = "returned" PROVE FALSE
    OBVIOUS
  <2>1. nextClose = NumOutputs + 1 /\ eventsClosed
    BY <1>1 DEF SomeoneCanGo, CoordinatorCanGo, LifeInv, ReasonInv, TypeOK
  <2>2. \A o \in Outputs : Closed(o)
    BY <2>1 DEF Closed, Outputs
  <2>3. \A o \in Outputs : notPc[o] \in {"done", "failed"}
    BY <1>2, <2>2 DEF BusLost
  <2> QED
    BY <2>1, <2>3 DEF SomeoneCanGo, AllEnded
<1>4. pc # "broadcast"
  <2> SUFFICES ASSUME pc = "broadcast" PROVE FALSE
    OBVIOUS
  <2>1. nextOut \in Outputs /\ ~C!HasRoom(nextOut)
    BY DEF SomeoneCanGo, CoordinatorCanGo, LifeInv, TypeOK, C!TypeOK, Outputs
  <2>2. Len(chans[nextOut]) >= 1 /\ chans[nextOut] # <<>>
    BY <2>1 DEF C!HasRoom, LifeInv, TypeOK, C!TypeOK, Outputs, C!Outputs
  <2>3. BusLost(nextOut)
    BY <1>2, <2>1, <2>2
  <2> QED
    BY <1>1, <2>1, <2>2, <2>3 DEF StuckOnBus
<1>5. pc = "select" /\ ~eventsClosed
  BY <1>3, <1>4 DEF SomeoneCanGo, CoordinatorCanGo, LifeInv, TypeOK, C!TypeOK
<1>6. \A t \in Detectors : detPc[t] \in {"reading", "done"}
  BY <1>5 DEF SomeoneCanGo, DetectorCanGo, LifeInv, TypeOK
<1>7. \E t \in Detectors : detPc[t] = "reading"
  BY <1>5, <1>6 DEF SomeoneCanGo, DetectorsDone
<1> QED
  BY <1>1, <1>2, <1>5, <1>6, <1>7 DEF Idle

(* Nobody waits in a circle, for any number of detectors and notifiers:    *)
(* until main has returned a goroutine can go on, or all of them wait for a*)
(* camera, or the coordinator waits for the DBus notifier that gave up.    *)
THEOREM DeadlockFree == Spec => []NoDeadlock
BY LifeCorrect, NobodyWaitsInACircle, PTL

(* A connection that is never refused leaves no way to lose the bus.       *)
NeverLost == \A o \in Outputs : notPc[o] # "failed"

LEMMA NeverLostCorrect == ASSUME ~BusMayFail PROVE Spec => []NeverLost
<1> USE DEF NeverLost
<1>1. Init => NeverLost
  BY DEF Init
<1>2. OwnTypeOK /\ NeverLost /\ [Next]_daemonVars => NeverLost'
  <2> SUFFICES ASSUME OwnTypeOK, NeverLost, [Next]_daemonVars PROVE NeverLost'
    OBVIOUS
  <2>1. CASE Connect
    BY <2>1 DEF Connect, Notifier, OwnTypeOK
  <2>2. ~ConnectFails
    BY DEF ConnectFails
  <2>3. ASSUME NEW o \in Outputs, NotifierStep(o) PROVE NeverLost'
    BY <2>3 DEF NotifierStep, Take, Handled, NotifierStops, Notifier, OwnTypeOK
  <2>4. CASE UNCHANGED notPc
    BY <2>4
  <2> QED
    BY <2>1, <2>2, <2>3, <2>4
       DEF Next, DetectorStep, DetectorReady, DetectorFails, Pass, DetectorStops, Detect,
           CloseAllEvents, RunCoordinator, CloseNotifierChannel, Exit, Signal, Replug,
           procVars, daemonVars
<1> QED
  BY <1>1, <1>2, OwnTypeCorrect, PTL DEF Spec

(* If the bus never refuses a connection the only rest of the process is   *)
(* the wait for the next camera event.                                     *)
THEOREM RestsOnlyForCameras ==
  ASSUME ~BusMayFail PROVE Spec => [](exited \/ SomeoneCanGo \/ Idle)
<1>1. LifeInv /\ NeverLost => ~StuckOnBus
  BY DEF LifeInv, TypeOK, C!TypeOK, NeverLost, StuckOnBus, BusLost, Outputs, DBus
<1> QED
  BY <1>1, NeverLostCorrect, DeadlockFree, LifeCorrect, PTL DEF NoDeadlock

(* Once the coordinator waits for the lost notifier nothing but a signal   *)
(* gets it going again: this is no delay but the end of all announcements. *)
StaysStuck == [][StuckOnBus => StuckOnBus' \/ ctxDone']_daemonVars

THEOREM StuckForGood == Spec => StaysStuck
<1>1. LifeInv /\ [Next]_daemonVars => [StuckOnBus => StuckOnBus' \/ ctxDone']_daemonVars
  <2> SUFFICES ASSUME LifeInv, [Next]_daemonVars, StuckOnBus PROVE StuckOnBus' \/ ctxDone'
    OBVIOUS
  <2> USE DEF StuckOnBus, BusLost, coordVars
  <2>0. /\ pc = "broadcast" /\ ~ctxDone /\ nextOut \in Outputs /\ nextOut <= NumOutputs
        /\ Len(chans[nextOut]) >= 1
    BY DaemonAssumption DEF LifeInv, TypeOK, C!TypeOK, C!Outputs, Outputs
  <2>1. ASSUME NEW t \in Detectors, DetectorStep(t) PROVE StuckOnBus'
    <3>1. ~Pass(t)
      BY <2>0 DEF Pass, C!Receive
    <3> QED
      BY <2>1, <3>1
         DEF DetectorStep, DetectorReady, DetectorFails, DetectorStops, Detect
  <2>2. ~RunCoordinator
    BY <2>0, DaemonAssumption
       DEF RunCoordinator, C!Start, C!ReturnOnDone, C!ReturnOnClosed, C!Handle, C!Skip,
           C!DuplicateOn, C!FirstOn, C!StrayOff, C!MatchingOff, C!UnknownType, C!Handling,
           C!Broadcast, C!Send, C!Handoff, C!AbortBroadcast, C!EndBroadcast,
           C!Broadcasting, C!HasRoom, Outputs
  <2>3. CASE CloseAllEvents \/ Exit
    BY <2>3 DEF CloseAllEvents, C!CloseEvents, C!outVars, procVars, Exit
  <2>4. ~CloseNotifierChannel
    BY <2>0 DEF CloseNotifierChannel
  <2>5. CASE Connect \/ ConnectFails
    BY <2>0, <2>5 DEF Connect, ConnectFails, Notifier, LifeInv, TypeOK
  <2>6. ASSUME NEW o \in Outputs, NotifierStep(o) PROVE StuckOnBus'
    <3>1. o # nextOut
      BY <2>6 DEF NotifierStep, Take, Handled, NotifierStops, Notifier
    <3>2. notPc'[nextOut] = notPc[nextOut]
      BY <2>0, <2>6, <3>1 DEF NotifierStep, Take, Handled, NotifierStops, Notifier, LifeInv, TypeOK
    <3>3. chans'[nextOut] = chans[nextOut]
      BY <2>0, <2>6, <3>1
         DEF NotifierStep, Take, Handled, NotifierStops, C!Consume, LifeInv, TypeOK, C!TypeOK,
             C!Outputs, Outputs
    <3>4. UNCHANGED <<pc, nextOut, ctxDone>>
      BY <2>6 DEF NotifierStep, Take, Handled, NotifierStops, C!Consume, C!envVars
    <3> QED
      BY <2>0, <3>2, <3>3, <3>4
  <2>7. CASE Signal
    BY <2>7 DEF Signal, C!Cancel
  <2>8. ASSUME NEW d \in Devices, NEW kind \in NodeKinds, Replug(d, kind) PROVE StuckOnBus'
    BY <2>8 DEF Replug, C!Replug, C!outVars, procVars
  <2>9. CASE UNCHANGED daemonVars
    BY <2>9 DEF daemonVars, procVars
  <2> QED
    BY <2>1, <2>2, <2>3, <2>4, <2>5, <2>6, <2>7, <2>8, <2>9 DEF Next
<1> QED
  BY <1>1, LifeCorrect, PTL DEF Spec, StaysStuck

-----------------------------------------------------------------------------
(* What main leaves behind                                                 *)

(* When main returns every goroutine it started has ended.                 *)
AllEndedAtExit ==
  exited => /\ DetectorsDone /\ pc = "returned"
            /\ \A o \in Outputs : notPc[o] \in {"done", "failed"}

(* Nobody starts again after main has returned.                            *)
THEOREM NothingOutlivesMain == Spec => []AllEndedAtExit
<1> DEFINE Ended == exited => AllEnded
<1>1. Init => Ended
  BY DEF Init
<1>2. LifeInv /\ Ended /\ [Next]_daemonVars => Ended'
  <2> SUFFICES ASSUME LifeInv, Ended, [Next]_daemonVars PROVE Ended'
    OBVIOUS
  <2> USE DEF AllEnded, coordVars
  <2>1. ASSUME NEW t \in Detectors, DetectorStep(t) PROVE Ended'
    BY <2>1 DEF DetectorStep, DetectorReady, DetectorFails, DetectorStops, Detect, Pass,
       C!Receive, C!envVars
  <2>2. CASE CloseAllEvents \/ Signal
    BY <2>2 DEF CloseAllEvents, C!CloseEvents, C!outVars, Signal, C!Cancel, procVars
  <2>9. CASE RunCoordinator
    <3>1. pc # "returned"
      BY <2>9 DEF RunCoordinator, C!Start, C!ReturnOnDone, C!ReturnOnClosed, C!Handle, C!Skip,
         C!DuplicateOn, C!FirstOn, C!StrayOff, C!MatchingOff, C!UnknownType, C!Handling,
         C!Broadcast, C!Send, C!Handoff, C!AbortBroadcast, C!EndBroadcast, C!Broadcasting
    <3>2. UNCHANGED exited
      BY <2>9 DEF RunCoordinator, procVars
    <3> QED
      BY <3>1, <3>2
  <2>3. CASE CloseNotifierChannel
    BY <2>3, DaemonAssumption DEF CloseNotifierChannel, detVars
  <2>4. CASE Connect \/ ConnectFails
    BY <2>4 DEF Connect, ConnectFails, Notifier, LifeInv, TypeOK
  <2>5. ASSUME NEW o \in Outputs, NotifierStep(o) PROVE Ended'
    BY <2>5 DEF NotifierStep, Take, Handled, NotifierStops, Notifier, C!Consume, C!envVars,
       LifeInv, TypeOK
  <2>6. CASE Exit
    BY <2>6 DEF Exit
  <2>7. ASSUME NEW d \in Devices, NEW kind \in NodeKinds, Replug(d, kind) PROVE Ended'
    BY <2>7 DEF Replug, C!Replug, procVars
  <2>8. CASE UNCHANGED daemonVars
    BY <2>8 DEF daemonVars, procVars
  <2> QED
    BY <2>1, <2>2, <2>9, <2>3, <2>4, <2>5, <2>6, <2>7, <2>8 DEF Next
<1>3. LifeInv /\ Ended => AllEndedAtExit
  <2> SUFFICES ASSUME LifeInv, AllEnded PROVE DetectorsDone /\ pc = "returned"
    BY DEF AllEndedAtExit, AllEnded
  <2>1. DetectorsDone
    BY DEF AllEnded, LifeInv, CloseInv
  <2>2. pc = "returned"
    BY DEF AllEnded, LifeInv, CloseInv
  <2> QED
    BY <2>1, <2>2
<1> HIDE DEF Ended
<1> QED
  BY <1>1, <1>2, <1>3, LifeCorrect, PTL DEF Spec

=============================================================================
