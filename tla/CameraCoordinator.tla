------------------------- MODULE CameraCoordinator -------------------------
(***************************************************************************)
(* The coordinator of camera_coordinator.go: Run merges the on/off events  *)
(* of several detectors into one on-set of devices and broadcastEvent fans *)
(* every change of that set out to one Go channel per notifier.            *)
(*                                                                         *)
(* The coordinator is one goroutine; its steps are cut where it can block  *)
(* or where the world can change under it: the select, the V4L2 query, and *)
(* each channel send of a broadcast.  Around it stand the processes it     *)
(* meets: whoever produces events, cancels the context or closes the event *)
(* channel, the consumers of the output channels, and the device nodes     *)
(* that come, go and change kind.                                          *)
(*                                                                         *)
(* Abstracted: Card, BusInfo and the constant Detector name of an emitted  *)
(* event, and logging.                                                     *)
(***************************************************************************)
EXTENDS Naturals, Sequences

CONSTANTS
  Detectors,    \* names of the detectors whose events are merged
  Devices,      \* video device file names
  NumOutputs,   \* number of output channels (len(c.outputs))
  ChanCap,      \* output -> capacity of its channel: 1 in main.go, 0 in the tests
  NodeKinds,    \* what a device node may be: a subset of AllNodeKinds
  NoEvent       \* the coordinator is not holding an event

On == 1         \* CameraEventRecordingOn
Off == 2        \* CameraEventRecordingOff
Unknown == 0    \* stands for every other uint32 an event type may carry
AllNodeKinds == {"capture", "other", "gone"}

Outputs == 1 .. NumOutputs
Events == [det : Detectors, type : {On, Off, Unknown}, dev : Devices]
Messages == [type : {On, Off}, dev : Devices]

ASSUME OutputsAssumption == NumOutputs \in Nat /\ ChanCap \in [Outputs -> Nat]
ASSUME NodeKindsAssumption == NodeKinds \subseteq AllNodeKinds
ASSUME NoEventAssumption == NoEvent \notin Events

VARIABLES
  pc,           \* where Run is; "new" is started = false
  cur,          \* the event being handled
  nextOut,      \* next output of the broadcast in progress
  active,       \* device -> detectors with an ON and no matching OFF
  chans,        \* buffer of each output channel
  views,        \* per consumer: devices it believes are on, from what it received
  ctxDone,      \* ctx is cancelled
  eventsClosed, \* the events channel is closed and drained
  node          \* device -> kind of the node a V4L2 query would find

outVars == <<chans, views>>
envVars == <<ctxDone, eventsClosed, node>>
vars == <<pc, cur, nextOut, active, chans, views, ctxDone, eventsClosed, node>>

Init ==
  /\ pc = "new" /\ cur = NoEvent /\ nextOut = 1
  /\ active = [d \in Devices |-> {}]
  /\ chans = [o \in Outputs |-> <<>>]
  /\ views = [o \in Outputs |-> {}]
  /\ ctxDone = FALSE /\ eventsClosed = FALSE
  /\ node \in [Devices -> NodeKinds]

-----------------------------------------------------------------------------
(* Conditions the code computes before it changes anything.                *)

OnDevices == {d \in Devices : active[d] # {}}
Message == [type |-> cur.type, dev |-> cur.dev]

(* A definition whose comment starts with "Slip" is a plausible mistake in *)
(* the definition after it; it is part of no specification and serves to   *)
(* show that the properties notice it.                                     *)

(* Slip: every detector's ON is forwarded. *)
AlwaysFirst == TRUE
(* Slip: the set is inspected before the detector is deleted from it. *)
EmptyBeforeDelete == active[cur.dev] = {}
(* Slip: every matching OFF is forwarded. *)
AlwaysLast == TRUE
(* Slip: outstanding ONs are kept per device only. *)
OutstandingForDevice == active[cur.dev] # {}
(* Slip: one message too many fits. *)
HasRoomForOneMore(o) == Len(chans[o]) <= ChanCap[o]

WasEmpty == active[cur.dev] = {}
LastActive == active[cur.dev] \subseteq {cur.det}
Outstanding == cur.det \in active[cur.dev]
HasRoom(o) == Len(chans[o]) < ChanCap[o]

(* What a consumer's own on-set becomes when it receives m.                *)
Deliver(s, m) == IF m.type = On THEN s \cup {m.dev} ELSE s \ {m.dev}

-----------------------------------------------------------------------------
(* Run                                                                     *)

(* The first call of Run wins the atomic swap; a second one returns an     *)
(* error and changes nothing, so it is a stuttering step.                  *)
Start ==
  /\ pc = "new"
  /\ pc' = "select"
  /\ UNCHANGED <<cur, nextOut, active, outVars, envVars>>

Receive(e) ==
  /\ pc = "select" /\ ~eventsClosed
  /\ pc' = "query" /\ cur' = e
  /\ UNCHANGED <<nextOut, active, outVars, envVars>>

ReturnOnDone ==
  /\ pc = "select" /\ ctxDone
  /\ pc' = "returned"
  /\ UNCHANGED <<cur, nextOut, active, outVars, envVars>>

ReturnOnClosed ==
  /\ pc = "select" /\ eventsClosed
  /\ pc' = "returned"
  /\ UNCHANGED <<cur, nextOut, active, outVars, envVars>>

BackToSelect == pc' = "select" /\ cur' = NoEvent /\ nextOut' = 1

(* The query fails (no node) or finds no capture device: skip the event.   *)
Skip ==
  /\ pc = "query" /\ node[cur.dev] # "capture"
  /\ BackToSelect
  /\ UNCHANGED <<active, outVars, envVars>>

Handling(type) == pc = "query" /\ node[cur.dev] = "capture" /\ cur.type = type

(* Start a broadcast of the current event, or go on to the next one.       *)
ForwardIf(change) ==
  IF change THEN pc' = "broadcast" /\ UNCHANGED <<cur, nextOut>> ELSE BackToSelect

DuplicateOn ==
  /\ Handling(On) /\ Outstanding
  /\ BackToSelect
  /\ UNCHANGED <<active, outVars, envVars>>

FirstOn ==
  /\ Handling(On) /\ ~Outstanding
  /\ active' = [active EXCEPT ![cur.dev] = @ \cup {cur.det}]
  /\ ForwardIf(WasEmpty)
  /\ UNCHANGED <<outVars, envVars>>

StrayOff ==
  /\ Handling(Off) /\ ~Outstanding
  /\ BackToSelect
  /\ UNCHANGED <<active, outVars, envVars>>

MatchingOff ==
  /\ Handling(Off) /\ Outstanding
  /\ active' = [active EXCEPT ![cur.dev] = @ \ {cur.det}]
  /\ ForwardIf(LastActive)
  /\ UNCHANGED <<outVars, envVars>>

UnknownType ==
  /\ Handling(Unknown)
  /\ BackToSelect
  /\ UNCHANGED <<active, outVars, envVars>>

-----------------------------------------------------------------------------
(* broadcastEvent                                                          *)

Broadcasting == pc = "broadcast" /\ nextOut <= NumOutputs

(* Room in the buffer: the send completes without a receiver.              *)
Send ==
  /\ Broadcasting /\ HasRoom(nextOut)
  /\ chans' = [chans EXCEPT ![nextOut] = Append(@, Message)]
  /\ nextOut' = nextOut + 1
  /\ UNCHANGED <<pc, cur, active, views, envVars>>

(* An unbuffered channel: sender and receiver meet.                        *)
Handoff ==
  /\ Broadcasting /\ ChanCap[nextOut] = 0
  /\ views' = [views EXCEPT ![nextOut] = Deliver(@, Message)]
  /\ nextOut' = nextOut + 1
  /\ UNCHANGED <<pc, cur, active, chans, envVars>>

(* Slip: a full channel is skipped instead of waited for. *)
GiveUpWhenFull ==
  /\ Broadcasting /\ (ctxDone \/ ~HasRoom(nextOut))
  /\ BackToSelect
  /\ UNCHANGED <<active, outVars, envVars>>

AbortBroadcast ==
  /\ Broadcasting /\ ctxDone
  /\ BackToSelect
  /\ UNCHANGED <<active, outVars, envVars>>

(* Slip: the last output is left out. *)
EndsOneEarly ==
  /\ pc = "broadcast" /\ nextOut >= NumOutputs
  /\ BackToSelect
  /\ UNCHANGED <<active, outVars, envVars>>

EndBroadcast ==
  /\ pc = "broadcast" /\ nextOut > NumOutputs
  /\ BackToSelect
  /\ UNCHANGED <<active, outVars, envVars>>

-----------------------------------------------------------------------------
(* The processes around the coordinator                                    *)

(* A consumer takes the oldest message of its channel.                     *)
Consume(o) ==
  /\ chans[o] # <<>>
  /\ views' = [views EXCEPT ![o] = Deliver(@, Head(chans[o]))]
  /\ chans' = [chans EXCEPT ![o] = Tail(@)]
  /\ UNCHANGED <<pc, cur, nextOut, active, envVars>>

Cancel ==
  /\ ~ctxDone
  /\ ctxDone' = TRUE
  /\ UNCHANGED <<pc, cur, nextOut, active, outVars, eventsClosed, node>>

CloseEvents ==
  /\ ~eventsClosed
  /\ eventsClosed' = TRUE
  /\ UNCHANGED <<pc, cur, nextOut, active, outVars, ctxDone, node>>

(* A device is plugged in, unplugged, or its name goes to another node.    *)
Replug(d, kind) ==
  /\ node[d] # kind
  /\ node' = [node EXCEPT ![d] = kind]
  /\ UNCHANGED <<pc, cur, nextOut, active, outVars, ctxDone, eventsClosed>>

Handle == Skip \/ DuplicateOn \/ FirstOn \/ StrayOff \/ MatchingOff \/ UnknownType
Broadcast == Send \/ Handoff \/ AbortBroadcast \/ EndBroadcast

Next ==
  \/ Start \/ ReturnOnDone \/ ReturnOnClosed
  \/ \E e \in Events : Receive(e)
  \/ Handle \/ Broadcast
  \/ \E o \in Outputs : Consume(o)
  \/ Cancel \/ CloseEvents
  \/ \E d \in Devices, kind \in NodeKinds : Replug(d, kind)

Spec == Init /\ [][Next]_vars

-----------------------------------------------------------------------------
(* Properties                                                              *)

TypeOK ==
  /\ pc \in {"new", "select", "query", "broadcast", "returned"}
  /\ cur \in Events \cup {NoEvent}
  /\ pc = "query" => cur \in Events
  /\ pc = "broadcast" => cur \in Events /\ cur.type \in {On, Off}
  /\ nextOut \in 1 .. NumOutputs + 1
  /\ pc # "broadcast" => nextOut = 1
  /\ active \in [Devices -> SUBSET Detectors]
  /\ chans \in [Outputs -> Seq(Messages)]
  /\ \A o \in Outputs : Len(chans[o]) <= ChanCap[o]
  /\ views \in [Outputs -> SUBSET Devices]
  /\ ctxDone \in BOOLEAN /\ eventsClosed \in BOOLEAN
  /\ node \in [Devices -> NodeKinds]

(* Messages on their way to consumer o, oldest first.                      *)
InFlight(o) ==
  IF pc = "broadcast" /\ nextOut <= o THEN Append(chans[o], Message) ELSE chans[o]

(* Message m switches exactly one device between on-sets s and t.          *)
Switches(s, m, t) ==
  \/ m.type = On /\ m.dev \notin s /\ t = s \cup {m.dev}
  \/ m.type = Off /\ m.dev \in s /\ t = s \ {m.dev}

(* h is a history of on-sets from s to t along the messages of q.          *)
Explains(h, s, q, t) ==
  /\ h \in [1 .. Len(q) + 1 -> SUBSET Devices]
  /\ h[1] = s /\ h[Len(q) + 1] = t
  /\ \A i \in 1 .. Len(q) : Switches(h[i], q[i], h[i + 1])

Bridges(s, q, t) ==
  \E h \in [1 .. Len(q) + 1 -> SUBSET Devices] : Explains(h, s, q, t)

(* Until cancellation, the messages in flight to a consumer lead, one      *)
(* switch at a time, from what it has seen to the coordinator's on-set: no *)
(* ON or OFF is lost, repeated or reordered on any output, also while the  *)
(* outputs are at different points of the same broadcast.                  *)
FeedInv == ctxDone \/ \A o \in Outputs : Bridges(views[o], InFlight(o), OnDevices)

(* Until cancellation, every message a consumer receives tells it something*)
(* new: never ON for a device it has on, never OFF for one it has off.     *)
NoRedundantDelivery ==
  [][\A o \in Outputs : ~ctxDone /\ (Consume(o) \/ (Handoff /\ nextOut = o))
       => views'[o] # views[o]]_vars

(* The on-sets a consumer that has s goes through as it receives q.        *)
Walk(s, q) ==
  LET h[i \in 1 .. Len(q) + 1] == IF i = 1 THEN s ELSE Deliver(h[i - 1], q[i - 1])
  IN h
Path(o) == Walk(views[o], InFlight(o))

(* The coordinator implements the feed of on-sets for all its consumers,   *)
(* none further behind than its buffer and one message, until cancelled.   *)
Feed == INSTANCE CameraFeed
          WITH Consumers <- Outputs, MaxLag <- [o \in Outputs |-> ChanCap[o] + 2],
               live <- ~ctxDone,
               path <- [o \in Outputs |-> IF ctxDone THEN <<{}>> ELSE Path(o)]
ImplementsFeed == Feed!Spec

=============================================================================
