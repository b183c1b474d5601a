------------------------ MODULE CoordinatorReports ------------------------
(***************************************************************************)
(* CameraCoordinator with a memory of what it was told.  The comments of   *)
(* camera_coordinator.go speak of detectors going active and inactive;     *)
(* reported is that view, kept from the events Run takes from its channel, *)
(* so that the coordinator's own map can be compared with it.              *)
(***************************************************************************)
EXTENDS CameraCoordinator

VARIABLES
  reported,   \* device -> detectors whose last ON/OFF taken by Run was an ON
  missed      \* <<detector, device>> pairs whose last event was skipped

histVars == <<reported, missed>>
allVars == <<vars, histVars>>

ReportOf(e) ==
  [reported EXCEPT ![e.dev] = IF e.type = On       THEN @ \cup {e.det}
                              ELSE IF e.type = Off THEN @ \ {e.det}
                              ELSE @]

HistInit == Init /\ reported = [d \in Devices |-> {}] /\ missed = {}

HistReceive(e) == Receive(e) /\ reported' = ReportOf(e) /\ UNCHANGED missed

HistSkip ==
  /\ Skip
  /\ missed' = IF cur.type = Unknown THEN missed ELSE missed \cup {<<cur.det, cur.dev>>}
  /\ UNCHANGED reported

HistHandle ==
  /\ DuplicateOn \/ FirstOn \/ StrayOff \/ MatchingOff
  /\ missed' = missed \ {<<cur.det, cur.dev>>}
  /\ UNCHANGED reported

HistOther ==
  /\ \/ Start \/ ReturnOnDone \/ ReturnOnClosed \/ UnknownType \/ Broadcast
     \/ \E o \in Outputs : Consume(o)
     \/ Cancel \/ CloseEvents
     \/ \E d \in Devices, kind \in NodeKinds : Replug(d, kind)
  /\ UNCHANGED histVars

HistNext == (\E e \in Events : HistReceive(e)) \/ HistSkip \/ HistHandle \/ HistOther

HistSpec == HistInit /\ [][HistNext]_allVars

-----------------------------------------------------------------------------
(* The coordinator's map agrees with what each detector last said, for     *)
(* every detector and device whose last event was not skipped: duplicate   *)
(* ONs do not inflate the set, stray OFFs do not shrink it, and one        *)
(* handled event is enough to heal what a skipped one left behind.         *)
AggregatesReports ==
  pc # "query" => \A t \in Detectors, d \in Devices :
                    <<t, d>> \notin missed => (t \in active[d] <=> t \in reported[d])

(* "one RecordingOff when the last one goes inactive": once no detector    *)
(* reports a device as recording, a running coordinator does not keep it on*)
OffWhenLastDetectorStops ==
  pc = "select" /\ ~ctxDone => \A d \in Devices : reported[d] = {} => active[d] = {}

=============================================================================
