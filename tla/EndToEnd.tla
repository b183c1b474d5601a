------------------------------ MODULE EndToEnd ------------------------------
(***************************************************************************)
(* From the cameras to the lights: the service of Service with the program *)
(* of Autolight listening to its signals.  What its listeners believe of   *)
(* the cameras is what autolight's queue of signals is fed with, in every  *)
(* life of the daemon; autolight may begin later than it, and may end.     *)
(***************************************************************************)
EXTENDS Service

CONSTANTS Lights, Clickers, SigCap, LateCap

VARIABLES
  run, click, mut, todo, goal, activeCameras, status, lightOn, disabled,
  quit,        \* autolight's own ctxDone
  sigCh, closed, late, announced, overtaken, plugged, shining, drifted, manual

A == INSTANCE Autolight WITH Cameras <- Devices, camsOn <- heard, ctxDone <- quit

autolightVars ==
  <<run, click, mut, todo, goal, activeCameras, status, lightOn, disabled, quit, sigCh, closed,
    late, announced, overtaken, plugged, shining, drifted, manual>>
endVars == <<vars, autolightVars>>

EndToEndInit == ServiceInit /\ A!Init

(* The bus takes the signal from the daemon to autolight, if it listens.   *)
Announce ==
  /\ svc = "up" /\ Emit
  /\ \/ A!Announce(emitting.type, emitting.dev)
     \/ A!Unheard(emitting.type, emitting.dev)

(* Whatever else the cameras, the daemon and systemd do.                   *)
ServiceAlone ==
  /\ \/ \E d \in Devices : CameraOn(d) \/ CameraOff(d)
     \/ DetectorSteps \/ CoordinatorSteps \/ EndSteps
     \/ /\ svc = "up"
        /\ TakeMessage \/ EmitFails \/ StopNotifier \/ DetectorEnds \/ ConnectBus \/ Terminate
     \/ Crash \/ Restart \/ Start
     \/ \E d \in Devices, kind \in NodeKinds :
          Replug(d, kind) /\ UNCHANGED <<svc, probeVars, busVars, worldVars>>
  /\ UNCHANGED autolightVars

(* Whatever autolight, its user and its lights do.                         *)
AutolightAlone ==
  /\ \/ A!RunStep \/ A!RunEnd \/ A!Quit \/ A!LoseBus
     \/ \E t \in A!Goroutines : A!LightStep(t)
     \/ \E c \in Clickers : A!ClickStep(c) \/ \E op \in A!Clicks : A!Click(c, op)
     \/ \E sig \in A!Signals : A!LateArrival(sig)
     \/ \E d \in Devices : A!OddSignal(d)
     \/ \E l \in Lights : A!Press(l) \/ A!PlugIn(l) \/ A!Unplug(l)
  /\ UNCHANGED vars

EndToEndNext == Announce \/ ServiceAlone \/ AutolightAlone

EndToEndSpec == EndToEndInit /\ [][EndToEndNext]_endVars

-----------------------------------------------------------------------------
(* Properties                                                              *)

(* Nothing is under way between the cameras and the lights, and the user   *)
(* has left the lights to them.                                            *)
AtRest == Settled /\ A!Settled /\ A!Free /\ manual = "no"

(* The cameras whose part in the lights is not certain: the daemon is not  *)
(* certain of them, or a signal about them overtook an older one.          *)
Unsure == Uncertain \cup overtaken

(* Then a camera in use that has been announced to autolight and is not    *)
(* one of those has lit the lights; and lights that shine do so for an     *)
(* announced camera, in use or one of those.  The daemon may have crashed  *)
(* and been started again, autolight begun in between, and signals may     *)
(* have been held back.                                                    *)
LightsShowCameras ==
  AtRest => \A l \in plugged \ drifted :
    /\ (streaming \cap announced) \ Unsure # {} => l \in shining
    /\ l \in shining => (streaming \cup Unsure) \cap announced # {}

=============================================================================
