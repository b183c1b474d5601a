-------------------------- MODULE DetectorInDaemon --------------------------
(***************************************************************************)
(* The eBPF detector of Detector as the one detector of the process that   *)
(* Daemon describes.  What Daemon says in one word of a detector is here   *)
(* what its two goroutines are doing; main waits for Run to return before  *)
(* it closes allEvents, and the coordinator takes what the reader sends.   *)
(***************************************************************************)
EXTENDS Detector

CONSTANTS Vb2, NumOutputs, NodeKinds, BusMayFail

VARIABLES
  pc, cur, nextOut, active, chans, views, eventsClosed, node,
  notPc, nextClose, exited

otherVars ==
  <<pc, cur, nextOut, active, chans, views, eventsClosed, node, notPc, nextClose, exited>>
processVars == <<vars, otherVars>>

(* The event on offer, as the coordinator knows it.                        *)
Offered == IF out = NoEvent THEN NoEvent ELSE [det |-> Vb2, type |-> out.type, dev |-> out.dev]

D == INSTANCE Daemon WITH Detectors <- {Vb2},
       detPc <- [t \in {Vb2} |-> Phase], held <- [t \in {Vb2} |-> Offered]

ASSUME ProcessAssumption ==
  NumOutputs \in Nat /\ NodeKinds \subseteq D!C!AllNodeKinds /\ BusMayFail \in BOOLEAN
ASSUME EventAssumption == NoEvent \notin D!C!Events

ProcessInit == Init /\ D!Init

-----------------------------------------------------------------------------
(* What the two goroutines and the kernel do among themselves.             *)
DetectorAlone ==
  /\ \/ RunStep
     \/ Read \/ Discard \/ ReadFails \/ ReadClosed \/ AbandonOnDone \/ Report
     \/ \E e \in Events : Emit(e)
  /\ UNCHANGED otherVars

(* The reader's send is the coordinator's receive.                         *)
PassOn ==
  /\ Pass
  /\ D!C!Receive(Offered)
  /\ UNCHANGED <<notPc, nextClose, exited>>

(* A definition whose comment starts with "Slip" is a plausible mistake in *)
(* the definition after it; it is part of no specification and serves to   *)
(* show that the properties notice it.                                     *)

(* Slip: Run is on its way out, but its reader may still be sending. *)
RunEnding == at \in {"joining", "returned"}

(* detectorWg.Wait: the goroutine of the only detector is done.            *)
RunEnded == at = "returned"

CloseAllEvents ==
  /\ RunEnded
  /\ UNCHANGED vars
  /\ D!C!CloseEvents
  /\ UNCHANGED <<notPc, nextClose, exited>>

(* Everybody else goes on as in Daemon.                                    *)
OtherGoroutines ==
  /\ UNCHANGED vars
  /\ \/ D!RunCoordinator \/ D!CloseNotifierChannel
     \/ D!Connect \/ D!ConnectFails
     \/ \E o \in D!Outputs : D!NotifierStep(o)
     \/ D!Exit

Terminate == Cancel /\ UNCHANGED otherVars

Plug ==
  /\ UNCHANGED vars
  /\ \E d \in Devices, kind \in NodeKinds : D!Replug(d, kind)

ProcessNext ==
  \/ DetectorAlone \/ PassOn \/ CloseAllEvents \/ OtherGoroutines \/ Terminate \/ Plug

ProcessSpec == ProcessInit /\ [][ProcessNext]_processVars

(* Detector's own fairness.                                                *)
ProcessFairSpec ==
  /\ ProcessSpec
  /\ WF_processVars(RunStep /\ UNCHANGED otherVars)
  /\ WF_processVars((Read \/ Discard) /\ UNCHANGED otherVars)
  /\ WF_processVars(ReadClosed /\ UNCHANGED otherVars)
  /\ WF_processVars(AbandonOnDone /\ UNCHANGED otherVars)
  /\ WF_processVars(Report /\ UNCHANGED otherVars)

-----------------------------------------------------------------------------
(* Properties                                                              *)

(* The process with the eBPF detector in it is the process of Daemon: all  *)
(* that is shown of Daemon holds of it.                                    *)
ImplementsDaemon == D!Spec

(* Which goroutine of the detector can go on by itself.                    *)
RunCanGo ==
  \/ at = "opening"
  \/ at = "waiting" /\ (ctxDone \/ errCh # <<>>)
  \/ at = "joining" /\ rd = "ended"
ReaderCanGo ==
  \/ rd = "reading" /\ (ring # <<>> \/ "reader" \notin held)
  \/ rd = "sending" /\ (ctxDone \/ (pc = "select" /\ ~eventsClosed))
  \/ rd = "reporting" /\ Len(errCh) < ErrCap

(* Main, its detector's two goroutines and all the others never wait for   *)
(* each other in a circle: until main has returned one of them can go on,  *)
(* or all wait for a camera, or the DBus notifier has left its channel.    *)
ProcessNoDeadlock ==
  \/ exited
  \/ RunCanGo \/ ReaderCanGo
  \/ RunEnded /\ ~eventsClosed
  \/ D!CoordinatorCanGo \/ (\E o \in D!Outputs : D!NotifierCanGo(o)) \/ D!AllEnded
  \/ D!Idle /\ at = "waiting" /\ rd = "reading" /\ ring = <<>>
  \/ D!StuckOnBus

=============================================================================
