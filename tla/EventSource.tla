---------------------------- MODULE EventSource ----------------------------
(***************************************************************************)
(* What main and the coordinator may rely on of a CameraDetector           *)
(* (camera_detector.go): it gets ready or gives up, then offers one event  *)
(* at a time on the shared channel, withdraws an event only because the    *)
(* context is cancelled, and offers nothing more once it has ended.        *)
(* Daemon's detector steps are these; Detector shows that the eBPF         *)
(* detector keeps to them.                                                 *)
(***************************************************************************)
CONSTANTS
  Reports,    \* the events the detector may offer
  NoEvent

VARIABLES
  phase,      \* "starting", "reading", "sending" or "done"
  offer,      \* the event on offer
  taken,      \* the last event the coordinator took
  ctxDone

sourceVars == <<phase, offer, taken, ctxDone>>

Init == phase = "starting" /\ offer = NoEvent /\ taken = NoEvent /\ ctxDone = FALSE

Ready == phase = "starting" /\ phase' = "reading" /\ UNCHANGED <<offer, taken, ctxDone>>

GiveUp ==
  /\ phase \in {"starting", "reading"}
  /\ phase' = "done"
  /\ UNCHANGED <<offer, taken, ctxDone>>

Offer(e) ==
  /\ phase = "reading"
  /\ phase' = "sending" /\ offer' = e
  /\ UNCHANGED <<taken, ctxDone>>

Pass ==
  /\ phase = "sending"
  /\ phase' = "reading" /\ offer' = NoEvent /\ taken' = offer
  /\ UNCHANGED ctxDone

Stop ==
  /\ phase \in {"reading", "sending"} /\ ctxDone
  /\ phase' = "done" /\ offer' = NoEvent
  /\ UNCHANGED <<taken, ctxDone>>

Cancel == ~ctxDone /\ ctxDone' = TRUE /\ UNCHANGED <<phase, offer, taken>>

Next == Ready \/ GiveUp \/ (\E e \in Reports : Offer(e)) \/ Pass \/ Stop \/ Cancel

Spec == Init /\ [][Next]_sourceVars

=============================================================================
