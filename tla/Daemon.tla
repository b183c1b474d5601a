------------------------------- MODULE Daemon -------------------------------
(***************************************************************************)
(* The camera-coordinator process: the goroutines main starts around the   *)
(* coordinator, the channels they share and how they end.                  *)
(*                                                                         *)
(*   detectors --allEvents--> coordinator --notifierChannels--> notifiers  *)
(*                                                                         *)
(* A closer closes allEvents when every detector is done; the coordinator's*)
(* goroutine closes the notifier channels when Run is done; main waits for *)
(* all of them.  Output 1 is the DBus notifier, the others are script      *)
(* notifiers.  CameraCoordinator gives the coordinator's own steps.        *)
(***************************************************************************)
EXTENDS Naturals, Sequences

CONSTANTS
  Detectors, Devices, NumOutputs, NodeKinds, NoEvent,
  BusMayFail    \* the system bus may refuse the DBus notifier's connection

ASSUME BusAssumption == BusMayFail \in BOOLEAN

VARIABLES
  pc, cur, nextOut, active, chans, views, ctxDone, eventsClosed, node,
  detPc,        \* per detector: "starting", "reading", "sending" or "done"
  held,         \* per detector: the event it is sending
  notPc,        \* per notifier: "connecting", "waiting", "handling", "done", "failed"
  nextClose,    \* the next notifier channel to close
  exited        \* main has returned

Outputs == 1 .. NumOutputs
DBus == 1

C == INSTANCE CameraCoordinator WITH ChanCap <- [o \in 1 .. NumOutputs |-> 1]

ASSUME DaemonAssumption ==
  NumOutputs \in Nat /\ NodeKinds \subseteq C!AllNodeKinds /\ NoEvent \notin C!Events

detVars == <<detPc, held>>
procVars == <<detPc, held, notPc, nextClose, exited>>
coordVars == <<pc, cur, nextOut, active, chans, views, ctxDone, eventsClosed, node>>
daemonVars == <<coordVars, procVars>>

Init ==
  /\ C!Init
  /\ detPc = [t \in Detectors |-> "starting"]
  /\ held = [t \in Detectors |-> NoEvent]
  /\ notPc = [o \in Outputs |-> IF o = DBus THEN "connecting" ELSE "waiting"]
  /\ nextClose = 1
  /\ exited = FALSE

(* What a detector can report: the two event types of the BPF programs.    *)
Reports(t) == {e \in C!Events : e.det = t /\ e.type \in {C!On, C!Off}}

-----------------------------------------------------------------------------
(* Detector goroutines and the closer                                      *)

DetectorReady(t) ==
  /\ detPc[t] = "starting"
  /\ detPc' = [detPc EXCEPT ![t] = "reading"]
  /\ UNCHANGED <<coordVars, held, notPc, nextClose, exited>>

(* Loading or attaching fails, or the ring buffer cannot be read; main     *)
(* logs the error and treats the detector as finished.                     *)
DetectorFails(t) ==
  /\ detPc[t] \in {"starting", "reading"}
  /\ detPc' = [detPc EXCEPT ![t] = "done"]
  /\ UNCHANGED <<coordVars, held, notPc, nextClose, exited>>

Detect(t, e) ==
  /\ detPc[t] = "reading"
  /\ detPc' = [detPc EXCEPT ![t] = "sending"]
  /\ held' = [held EXCEPT ![t] = e]
  /\ UNCHANGED <<coordVars, notPc, nextClose, exited>>

(* allEvents is unbuffered: the detector's send is the coordinator's       *)
(* receive.                                                                *)
Pass(t) ==
  /\ detPc[t] = "sending"
  /\ C!Receive(held[t])
  /\ detPc' = [detPc EXCEPT ![t] = "reading"]
  /\ held' = [held EXCEPT ![t] = NoEvent]
  /\ UNCHANGED <<notPc, nextClose, exited>>

(* A definition whose comment starts with "Slip" is a plausible mistake in *)
(* the definition after it; it is part of no specification and serves to   *)
(* show that the properties notice it.                                     *)

(* Slip: the send does not look at the context. *)
CanStopReading(t) == detPc[t] = "reading" /\ ctxDone

(* On cancellation the reader is closed or the pending send abandoned.     *)
CanStop(t) == detPc[t] \in {"reading", "sending"} /\ ctxDone

(* Slip: the pending event is kept. *)
StopsWithEvent(t) ==
  /\ CanStop(t)
  /\ detPc' = [detPc EXCEPT ![t] = "done"]
  /\ UNCHANGED <<coordVars, held, notPc, nextClose, exited>>

DetectorStops(t) ==
  /\ CanStop(t)
  /\ detPc' = [detPc EXCEPT ![t] = "done"]
  /\ held' = [held EXCEPT ![t] = NoEvent]
  /\ UNCHANGED <<coordVars, notPc, nextClose, exited>>

DetectorsDone == \A t \in Detectors : detPc[t] = "done"

(* Slip: cancellation closes the channel under the detectors. *)
CloseOnDone ==
  /\ DetectorsDone \/ ctxDone
  /\ C!CloseEvents
  /\ UNCHANGED procVars

(* Slip: only cancellation closes the channel. *)
CloseOnlyOnDone ==
  /\ DetectorsDone /\ ctxDone
  /\ C!CloseEvents
  /\ UNCHANGED procVars

CloseAllEvents ==
  /\ DetectorsDone
  /\ C!CloseEvents
  /\ UNCHANGED procVars

-----------------------------------------------------------------------------
(* The coordinator's goroutine                                             *)

RunCoordinator ==
  /\ C!Start \/ C!ReturnOnDone \/ C!ReturnOnClosed \/ C!Handle \/ C!Broadcast
  /\ UNCHANGED procVars

CloseNotifierChannel ==
  /\ pc = "returned" /\ nextClose <= NumOutputs
  /\ nextClose' = nextClose + 1
  /\ UNCHANGED <<coordVars, detVars, notPc, exited>>

Closed(o) == o < nextClose

-----------------------------------------------------------------------------
(* Notifier goroutines                                                     *)

Notifier(o, from, to) ==
  /\ notPc[o] = from
  /\ notPc' = [notPc EXCEPT ![o] = to]
  /\ UNCHANGED <<detVars, nextClose, exited>>

Connect == Notifier(DBus, "connecting", "waiting") /\ UNCHANGED coordVars

(* Run returns the error, main drops it, and nobody reads this channel.    *)
ConnectFails ==
  /\ BusMayFail
  /\ Notifier(DBus, "connecting", "failed")
  /\ UNCHANGED coordVars

Take(o) == Notifier(o, "waiting", "handling") /\ C!Consume(o)

(* The signal is emitted (or its error logged), or the script goroutine is *)
(* started.                                                                *)
Handled(o) == Notifier(o, "handling", "waiting") /\ UNCHANGED coordVars

(* Slip: a closed channel ends the notifier at once. *)
StopsWhenClosed(o) ==
  /\ ctxDone \/ Closed(o)
  /\ Notifier(o, "waiting", "done")
  /\ UNCHANGED coordVars

(* Slip: the notifier does not look whether its channel is closed. *)
EndsOnDone(o) == ctxDone

(* Closed is only seen once the buffer is empty.                           *)
CanEnd(o) == ctxDone \/ (Closed(o) /\ chans[o] = <<>>)

NotifierStops(o) ==
  /\ CanEnd(o)
  /\ Notifier(o, "waiting", "done")
  /\ UNCHANGED coordVars

-----------------------------------------------------------------------------
(* main and the outside world                                              *)

(* wg.Wait returns.                                                        *)
AllEnded ==
  /\ eventsClosed /\ pc = "returned" /\ nextClose = NumOutputs + 1
  /\ \A o \in Outputs : notPc[o] \in {"done", "failed"}

Exit ==
  /\ ~exited
  /\ AllEnded
  /\ exited' = TRUE
  /\ UNCHANGED <<coordVars, detVars, notPc, nextClose>>

(* SIGINT or SIGTERM.                                                      *)
Signal == C!Cancel /\ UNCHANGED procVars

Replug(d, kind) == C!Replug(d, kind) /\ UNCHANGED procVars

DetectorStep(t) ==
  \/ DetectorReady(t) \/ DetectorFails(t) \/ Pass(t) \/ DetectorStops(t)
  \/ \E e \in Reports(t) : Detect(t, e)

NotifierStep(o) == Take(o) \/ Handled(o) \/ NotifierStops(o)

Next ==
  \/ \E t \in Detectors : DetectorStep(t)
  \/ CloseAllEvents \/ RunCoordinator \/ CloseNotifierChannel
  \/ Connect \/ ConnectFails
  \/ \E o \in Outputs : NotifierStep(o)
  \/ Exit \/ Signal
  \/ \E d \in Devices, kind \in NodeKinds : Replug(d, kind)

Spec == Init /\ [][Next]_daemonVars

(* Every goroutine runs, the bus answers a connection and takes a signal   *)
(* in finite time, and a select with a done context does not choose its    *)
(* other case for ever.  Cameras and signals owe nothing.                  *)
Fairness ==
  /\ \A t \in Detectors : /\ WF_daemonVars(DetectorReady(t) \/ Pass(t))
                          /\ SF_daemonVars(DetectorStops(t))
  /\ WF_daemonVars(CloseAllEvents)
  /\ WF_daemonVars(RunCoordinator)
  /\ SF_daemonVars(C!ReturnOnDone /\ UNCHANGED procVars)
  /\ WF_daemonVars(CloseNotifierChannel)
  /\ WF_daemonVars(Connect \/ ConnectFails)
  /\ \A o \in Outputs : /\ WF_daemonVars(NotifierStep(o))
                        /\ SF_daemonVars(NotifierStops(o))
  /\ WF_daemonVars(Exit)

FairSpec == Spec /\ Fairness

-----------------------------------------------------------------------------
(* Properties                                                              *)

TypeOK ==
  /\ C!TypeOK
  /\ detPc \in [Detectors -> {"starting", "reading", "sending", "done"}]
  /\ held \in [Detectors -> C!Events \cup {NoEvent}]
  /\ \A t \in Detectors : held[t] # NoEvent <=> detPc[t] = "sending"
  /\ notPc \in [Outputs -> {"connecting", "waiting", "handling", "done", "failed"}]
  /\ nextClose \in 1 .. NumOutputs + 1
  /\ exited \in BOOLEAN

(* No goroutine is left sending on a channel another has closed, which     *)
(* would panic the process.                                                *)
NoSendOnClosed ==
  /\ eventsClosed => \A t \in Detectors : detPc[t] # "sending"
  /\ \A o \in Outputs : Closed(o) => pc # "broadcast"

(* A notifier that ends without a cancellation has first taken everything  *)
(* the coordinator decided: closing a channel drops nothing.               *)
DrainedBeforeEnd ==
  \A o \in Outputs : notPc[o] = "done" /\ ~ctxDone => views[o] = C!OnDevices

(* Which goroutine can go on by itself, without a camera, a device node or *)
(* a signal.                                                               *)
DetectorCanGo(t) ==
  \/ detPc[t] = "starting" \/ CanStop(t)
  \/ detPc[t] = "sending" /\ pc = "select" /\ ~eventsClosed
CoordinatorCanGo ==
  \/ pc \in {"new", "query"}
  \/ pc = "select" /\ (ctxDone \/ eventsClosed)
  \/ pc = "broadcast" /\ (nextOut > NumOutputs \/ C!HasRoom(nextOut) \/ ctxDone)
  \/ pc = "returned" /\ nextClose <= NumOutputs
NotifierCanGo(o) ==
  \/ notPc[o] \in {"connecting", "handling"}
  \/ notPc[o] = "waiting" /\ (chans[o] # <<>> \/ CanEnd(o))
SomeoneCanGo ==
  \/ \E t \in Detectors : DetectorCanGo(t)
  \/ DetectorsDone /\ ~eventsClosed
  \/ CoordinatorCanGo
  \/ \E o \in Outputs : NotifierCanGo(o)
  \/ AllEnded

BusLost(o) == o = DBus /\ notPc[o] = "failed"

(* Everybody waits for the next event of a camera.                         *)
Idle ==
  /\ ~ctxDone /\ pc = "select"
  /\ \E t \in Detectors : detPc[t] = "reading"
  /\ \A t \in Detectors : detPc[t] \in {"reading", "done"}
  /\ \A o \in Outputs : BusLost(o) \/ (notPc[o] = "waiting" /\ chans[o] = <<>>)

(* The coordinator waits for a notifier that has given up.                 *)
StuckOnBus ==
  /\ ~ctxDone /\ pc = "broadcast" /\ nextOut \in Outputs
  /\ BusLost(nextOut) /\ chans[nextOut] # <<>>

(* The goroutines never wait for each other in a circle: until main has    *)
(* returned one of them can go on, or all wait for a camera, or the DBus   *)
(* notifier has left its channel to the coordinator (see CoordinatorExits).*)
(* Once the context is cancelled one of them always can.                   *)
NoDeadlock == exited \/ SomeoneCanGo \/ Idle \/ StuckOnBus

(* SIGINT and SIGTERM end the process, whatever each goroutine was doing.  *)
SignalEndsProcess == ctxDone ~> exited

(* "Close allEvents once all detectors are done so the coordinator exits." *)
CoordinatorExits == DetectorsDone ~> pc = "returned"

(* It does exit, provided the DBus notifier got its connection.            *)
CoordinatorExitsWithBus == DetectorsDone ~> (pc = "returned" \/ notPc[DBus] = "failed")

(* Every change of the coordinator's on-set reaches every notifier, unless  *)
(* the process is cancelled or the DBus notifier has given up.             *)
ChangesAreAnnounced ==
  \A o \in Outputs, d \in Devices :
    /\ d \in C!OnDevices ~> (d \in views[o] \/ ctxDone \/ notPc[DBus] = "failed")
    /\ d \notin C!OnDevices ~> (d \notin views[o] \/ ctxDone \/ notPc[DBus] = "failed")

=============================================================================
