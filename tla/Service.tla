------------------------------ MODULE Service ------------------------------
(***************************************************************************)
(* The daemon as a service, from the cameras at one end to the listeners   *)
(* of its DBus signals at the other: it starts while cameras are in use,   *)
(* crashes, is restarted by systemd or not, and each time begins with an   *)
(* empty active map, while cameras and listeners go on.                    *)
(*                                                                         *)
(* EXTENDS Daemon for one life of the process; here are its detector's     *)
(* probes and ring buffer, the emission of signals, its end and its start. *)
(*                                                                         *)
(* External: systemd, as the unit file configures it, without its limit on *)
(* the rate of restarts; the system bus.  Abstracted: how the probes tell  *)
(* that a camera streams, which is the subject of Vb2Probes.               *)
(***************************************************************************)
EXTENDS Daemon

CONSTANTS
  Vb2,       \* the one detector main starts
  RingCap    \* events the ring buffer holds

(* main starts one detector.  Of its notifiers only the one for DBus is    *)
(* followed here; ScriptNotifier is about the other.                       *)
ASSUME Vb2Assumption == Detectors = {Vb2} /\ NumOutputs = 1 /\ RingCap \in Nat
ASSUME NoMessageAssumption == NoEvent \notin C!Messages

VARIABLES
  svc,         \* "up", "restarting" (systemd will start it) or "down"
  streaming,   \* devices that stream
  links,       \* probes that are attached: "none", "on" (streamon only) or "all"
  ring,        \* events the detector has not read
  emitting,    \* the message the DBus notifier is handling, or NoEvent
  heard,       \* devices the listeners believe are on
  stale,       \* devices whose last change the daemon has missed or lost
  unsent       \* devices whose last message could not be emitted

probeVars == <<links, ring>>
busVars == <<emitting, heard, unsent>>
worldVars == <<streaming, stale>>
vars == <<daemonVars, svc, streaming, links, ring, emitting, heard, unsent, stale>>

RingEvents == [type : {C!On, C!Off}, dev : Devices]

ServiceInit ==
  /\ Init
  /\ svc = "up" /\ links = "none" /\ ring = <<>>
  /\ streaming \in SUBSET Devices /\ stale = streaming
  /\ emitting = NoEvent /\ heard = {} /\ unsent = {}

-----------------------------------------------------------------------------
(* Cameras                                                                 *)

(* An event the attached probes have room for; otherwise the change is     *)
(* missed, and what the listeners know of the device is stale until its    *)
(* next ON is reported.                                                    *)
Report(type, d) == ring' = Append(ring, [type |-> type, dev |-> d])
Miss(d) == ring' = ring /\ stale' = stale \cup {d}
(* A definition whose comment starts with "Slip" is a plausible mistake in *)
(* the definition after it; it is part of no specification and serves to   *)
(* show that the properties notice it.                                     *)

(* Slip: one event too many fits. *)
HasRoomForOneMore == Len(ring) <= RingCap

HasRoom == Len(ring) < RingCap

CameraOn(d) ==
  /\ d \notin streaming
  /\ streaming' = streaming \cup {d}
  /\ IF links # "none" /\ HasRoom THEN Report(C!On, d) /\ stale' = stale \ {d} ELSE Miss(d)
  /\ UNCHANGED <<daemonVars, svc, links, busVars>>

CameraOff(d) ==
  /\ d \in streaming
  /\ streaming' = streaming \ {d}
  /\ IF links = "all" /\ HasRoom THEN Report(C!Off, d) /\ UNCHANGED stale ELSE Miss(d)
  /\ UNCHANGED <<daemonVars, svc, links, busVars>>

-----------------------------------------------------------------------------
(* One life of the process                                                 *)

(* streamon is attached first; the reader starts when all three are.       *)
Attach ==
  /\ detPc[Vb2] = "starting" /\ links # "all"
  /\ links' = IF links = "none" THEN "on" ELSE "all"
  /\ UNCHANGED <<daemonVars, svc, ring, busVars, worldVars>>

Ready ==
  /\ links = "all" /\ DetectorReady(Vb2)
  /\ UNCHANGED <<svc, probeVars, busVars, worldVars>>

(* Slip: the newest event is read first. *)
Newest == [type |-> ring[Len(ring)].type, dev |-> ring[Len(ring)].dev, det |-> Vb2]

Oldest == [type |-> Head(ring).type, dev |-> Head(ring).dev, det |-> Vb2]

Read ==
  /\ ring # <<>> /\ Detect(Vb2, Oldest)
  /\ ring' = Tail(ring)
  /\ UNCHANGED <<svc, links, busVars, worldVars>>

(* The deferred closes: what is still in the ring buffer is gone.          *)
DetectorEnds ==
  /\ DetectorFails(Vb2) \/ DetectorStops(Vb2)
  /\ links' = "none" /\ ring' = <<>>
  /\ UNCHANGED <<svc, busVars, worldVars>>

Skips == pc = "query" /\ node[cur.dev] # "capture"
Coordinate ==
  /\ RunCoordinator
  /\ stale' = IF Skips THEN stale \cup {cur.dev} ELSE stale
  /\ UNCHANGED <<svc, streaming, probeVars, busVars>>

TakeMessage ==
  /\ Take(DBus) /\ emitting' = Head(chans[DBus])
  /\ UNCHANGED <<svc, probeVars, heard, unsent, worldVars>>

Emit ==
  /\ Handled(DBus) /\ emitting' = NoEvent
  /\ heard' = C!Deliver(heard, emitting)
  /\ unsent' = unsent \ {emitting.dev}
  /\ UNCHANGED <<svc, probeVars, worldVars>>

(* The error is logged and the message forgotten.                          *)
EmitFails ==
  /\ Handled(DBus) /\ emitting' = NoEvent
  /\ unsent' = unsent \cup {emitting.dev}
  /\ UNCHANGED <<svc, probeVars, heard, worldVars>>

Within(step) == step /\ UNCHANGED <<svc, probeVars, busVars, worldVars>>
PassOn == Within(Pass(Vb2))
ConnectBus == Within(Connect \/ ConnectFails)
StopNotifier == Within(NotifierStops(DBus))
WindUp == Within(CloseAllEvents \/ CloseNotifierChannel \/ Exit)
Terminate == Within(Signal)

-----------------------------------------------------------------------------
(* The end of a process and the start of the next                          *)

(* Nothing of the old process is left; the node and the world remain.      *)
Reset ==
  /\ pc' = "new" /\ cur' = NoEvent /\ nextOut' = 1
  /\ active' = [d \in Devices |-> {}]
  /\ chans' = [o \in Outputs |-> <<>>] /\ views' = [o \in Outputs |-> {}]
  /\ ctxDone' = FALSE /\ eventsClosed' = FALSE
  /\ detPc' = [t \in Detectors |-> "starting"] /\ held' = [t \in Detectors |-> NoEvent]
  /\ notPc' = [o \in Outputs |-> IF o = DBus THEN "connecting" ELSE "waiting"]
  /\ nextClose' = 1 /\ exited' = FALSE
  /\ links' = "none" /\ ring' = <<>> /\ emitting' = NoEvent
  /\ UNCHANGED <<node, heard, unsent, worldVars>>

(* Killed by a signal, a panic, or os.Exit(1): Restart=on-failure applies. *)
Crash == svc = "up" /\ ~exited /\ svc' = "restarting" /\ Reset

(* main returns, whatever its detector returned: exit status 0.            *)
Finish == svc = "up" /\ exited /\ svc' = "down" /\ Reset

(* Whatever streams, and whatever the listeners believe is on, the new     *)
(* process has no record of: its OFF will be a stray one.                  *)
Boot(from) ==
  /\ svc = from /\ svc' = "up"
  /\ stale' = stale \cup streaming \cup heard
  /\ unsent' = {}
  /\ UNCHANGED <<daemonVars, streaming, probeVars, emitting, heard>>

Restart == Boot("restarting")
Start == Boot("down")    \* by the administrator

DetectorSteps == svc = "up" /\ (Attach \/ Ready \/ Read \/ PassOn)
CoordinatorSteps == svc = "up" /\ Coordinate
NotifierSteps == svc = "up" /\ (TakeMessage \/ Emit \/ EmitFails \/ StopNotifier)
EndSteps == (svc = "up" /\ WindUp) \/ Finish

ServiceNext ==
  \/ \E d \in Devices : CameraOn(d) \/ CameraOff(d)
  \/ DetectorSteps \/ CoordinatorSteps \/ NotifierSteps \/ EndSteps
  \/ svc = "up" /\ (DetectorEnds \/ ConnectBus \/ Terminate)
  \/ Crash \/ Restart \/ Start
  \/ \E d \in Devices, kind \in NodeKinds :
       Replug(d, kind) /\ UNCHANGED <<svc, probeVars, busVars, worldVars>>

ServiceSpec == ServiceInit /\ [][ServiceNext]_vars

(* The goroutines run, the bus answers, and systemd restarts what has      *)
(* failed.  Nobody has to use a camera, stop the service or start it.      *)
ServiceFairness ==
  /\ WF_vars(DetectorSteps) /\ WF_vars(CoordinatorSteps) /\ WF_vars(NotifierSteps)
  /\ WF_vars(svc = "up" /\ ConnectBus)
  /\ WF_vars(EndSteps) /\ WF_vars(Restart)

ServiceFairSpec == ServiceSpec /\ ServiceFairness

-----------------------------------------------------------------------------
(* Properties                                                              *)

ServiceTypeOK ==
  /\ TypeOK
  /\ svc \in {"up", "restarting", "down"}
  /\ links \in {"none", "on", "all"} /\ (links = "all" \/ detPc[Vb2] \in {"starting", "done"})
  /\ ring \in Seq(RingEvents) /\ Len(ring) <= RingCap
  /\ emitting \in C!Messages \cup {NoEvent}
  /\ emitting # NoEvent <=> notPc[DBus] = "handling"
  /\ streaming \subseteq Devices /\ heard \subseteq Devices
  /\ unsent \subseteq Devices /\ stale \subseteq Devices

(* Nothing is under way between the probes and the listeners.              *)
Settled ==
  /\ svc = "up" /\ ~ctxDone /\ pc = "select"
  /\ detPc[Vb2] = "reading" /\ ring = <<>>
  /\ notPc[DBus] = "waiting" /\ chans[DBus] = <<>>

Uncertain == stale \cup unsent

(* Then the listeners believe a camera on exactly if it streams, over any  *)
(* number of crashes and restarts, unless the daemon missed or lost its    *)
(* last change and no ON has been reported since, or its last message      *)
(* could not be emitted.                                                   *)
ListenersTrackCameras ==
  Settled => \A d \in Devices \ Uncertain : d \in heard <=> d \in streaming

Ending ==
  svc = "down" \/ ctxDone \/ detPc[Vb2] = "done" \/ notPc[DBus] = "failed"

(* A change of a camera reaches the listeners before the camera changes    *)
(* again, is missed, or the service ends.  A camera that goes on after a   *)
(* restart is thus announced, whatever the crash has lost.                 *)
ChangesAreHeard ==
  \A d \in Devices :
    /\ (d \in streaming /\ d \notin Uncertain)
         ~> (d \in heard \/ d \notin streaming \/ d \in Uncertain \/ Ending)
    /\ (d \notin streaming /\ d \notin Uncertain)
         ~> (d \notin heard \/ d \in streaming \/ d \in Uncertain \/ Ending)

(* "Restart=on-failure": a service that ends without having been told to   *)
(* stop, because its only detector failed, is restarted by systemd.        *)
FailureRestarts ==
  [][svc = "up" /\ svc' # "up" /\ ~ctxDone => svc' = "restarting"]_vars

=============================================================================
