---------------------- MODULE CameraCoordinatorProofs ----------------------
(***************************************************************************)
(* Proofs about CameraCoordinator for every set of detectors and devices,  *)
(* every number of outputs and every channel capacity.                     *)
(***************************************************************************)
EXTENDS CameraCoordinator, SequenceTheorems, TLAPS

USE DEF On, Off, Unknown

(* A message that switches s to t is new to s and is delivered as t.       *)
LEMMA SwitchesDelivers ==
  ASSUME NEW s \in SUBSET Devices, NEW t \in SUBSET Devices, NEW m \in Messages,
         Switches(s, m, t)
  PROVE  t = Deliver(s, m) /\ t # s
BY DEF Switches, Deliver, Messages

(* No message leads from s to t when s and t are the same.                 *)
LEMMA BridgesEmpty ==
  ASSUME NEW s \in SUBSET Devices
  PROVE  Bridges(s, <<>>, s)
<1> DEFINE h == [i \in 1 .. Len(<<>>) + 1 |-> s]
<1>1. Len(<<>>) = 0
  OBVIOUS
<1>2. Explains(h, s, <<>>, s)
  BY <1>1 DEF Explains
<1> QED
  BY <1>1, <1>2 DEF Bridges

(* A switch of the on-set goes to the end of every consumer's messages.    *)
LEMMA BridgesAppend ==
  ASSUME NEW q \in Seq(Messages), NEW m \in Messages,
         NEW s \in SUBSET Devices, NEW t \in SUBSET Devices, NEW u \in SUBSET Devices,
         Bridges(s, q, t), Switches(t, m, u)
  PROVE  Bridges(s, Append(q, m), u)
<1> DEFINE n == Len(q)
<1>1. n \in Nat
  OBVIOUS
<1>2. PICK h \in [1 .. n + 1 -> SUBSET Devices] : Explains(h, s, q, t)
  BY DEF Bridges
<1> DEFINE g == [i \in 1 .. n + 2 |-> IF i = n + 2 THEN u ELSE h[i]]
<1>3. Len(Append(q, m)) = n + 1 /\ \A i \in 1 .. n + 1 :
        Append(q, m)[i] = IF i = n + 1 THEN m ELSE q[i]
  BY <1>1
<1>4. g \in [1 .. n + 2 -> SUBSET Devices]
  BY <1>1
<1>5. g[1] = s /\ g[n + 2] = u
  BY <1>1, <1>2 DEF Explains
<1>6. ASSUME NEW i \in 1 .. n + 1
      PROVE  Switches(g[i], Append(q, m)[i], g[i + 1])
  <2>1. CASE i = n + 1
    <3>1. g[i] = t /\ g[i + 1] = u
      BY <1>1, <1>2, <2>1 DEF Explains
    <3> QED
      BY <1>1, <1>3, <2>1, <3>1
  <2>2. CASE i # n + 1
    <3>1. i \in 1 .. n /\ g[i] = h[i] /\ g[i + 1] = h[i + 1]
      BY <1>1, <2>2
    <3> QED
      BY <1>2, <1>3, <2>2, <3>1 DEF Explains
  <2> QED
    BY <2>1, <2>2
<1> HIDE DEF g
<1> QED
  <2>1. Len(Append(q, m)) + 1 = n + 2
    BY <1>1, <1>3
  <2>2. Explains(g, s, Append(q, m), u)
    BY <1>1, <1>3, <1>4, <1>5, <1>6, <2>1 DEF Explains
  <2> QED
    BY <1>4, <2>1, <2>2 DEF Bridges

(* The oldest message is new to the consumer, and taking it leaves a       *)
(* consumer that the remaining messages lead on.                           *)
LEMMA BridgesTail ==
  ASSUME NEW q \in Seq(Messages), q # <<>>,
         NEW s \in SUBSET Devices, NEW t \in SUBSET Devices, Bridges(s, q, t)
  PROVE  /\ Switches(s, Head(q), Deliver(s, Head(q)))
         /\ Bridges(Deliver(s, Head(q)), Tail(q), t)
<1> DEFINE n == Len(q)
<1>1. n \in Nat /\ n >= 1 /\ Head(q) = q[1] /\ Head(q) \in Messages
  BY EmptySeq, HeadTailProperties
<1>2. PICK h \in [1 .. n + 1 -> SUBSET Devices] : Explains(h, s, q, t)
  BY DEF Bridges
<1>3. Switches(s, Head(q), h[2]) /\ h[2] \in SUBSET Devices
  BY <1>1, <1>2 DEF Explains
<1>4. h[2] = Deliver(s, Head(q))
  BY <1>1, <1>3, SwitchesDelivers
<1> DEFINE g == [i \in 1 .. n |-> h[i + 1]]
<1>5. Len(Tail(q)) = n - 1 /\ \A i \in 1 .. n - 1 : Tail(q)[i] = q[i + 1]
  BY <1>1, HeadTailProperties
<1>6. g \in [1 .. n -> SUBSET Devices] /\ g[1] = h[2] /\ g[n] = t
  BY <1>1, <1>2 DEF Explains
<1>7. ASSUME NEW i \in 1 .. n - 1
      PROVE  Switches(g[i], Tail(q)[i], g[i + 1])
  <2>1. i + 1 \in 1 .. n /\ g[i] = h[i + 1] /\ g[i + 1] = h[(i + 1) + 1]
    BY <1>1
  <2> QED
    BY <1>1, <1>2, <1>5, <2>1 DEF Explains
<1> HIDE DEF g
<1>8. Len(Tail(q)) + 1 = n
  BY <1>1, <1>5
<1>9. Explains(g, h[2], Tail(q), t)
  BY <1>5, <1>6, <1>7, <1>8 DEF Explains
<1> QED
  BY <1>3, <1>4, <1>6, <1>8, <1>9 DEF Bridges

-----------------------------------------------------------------------------
(* The type invariant holds initially, and every step keeps it.            *)
LEMMA InitType == Init => TypeOK
<1> USE OutputsAssumption
<1> SUFFICES ASSUME Init PROVE TypeOK
  OBVIOUS
<1>1. pc = "new" /\ cur = NoEvent /\ nextOut = 1 /\ 1 \in 1 .. NumOutputs + 1
  BY DEF Init
<1>2. chans \in [Outputs -> Seq(Messages)] /\ \A o \in Outputs : Len(chans[o]) <= ChanCap[o]
  BY DEF Init
<1>3. active \in [Devices -> SUBSET Detectors] /\ views \in [Outputs -> SUBSET Devices]
  BY DEF Init
<1>4. ctxDone \in BOOLEAN /\ eventsClosed \in BOOLEAN /\ node \in [Devices -> NodeKinds]
  BY DEF Init
<1> QED
  BY <1>1, <1>2, <1>3, <1>4 DEF TypeOK

LEMMA TypeStep == TypeOK /\ [Next]_vars => TypeOK'
<1> USE OutputsAssumption
<1> SUFFICES ASSUME TypeOK, [Next]_vars PROVE TypeOK'
  OBVIOUS
<1> USE DEF TypeOK
<1>1. CASE Start
  BY <1>1 DEF Start, outVars, envVars
<1>2. CASE ReturnOnDone \/ ReturnOnClosed
  BY <1>2 DEF ReturnOnDone, ReturnOnClosed, outVars, envVars
<1>3. ASSUME NEW e \in Events, Receive(e) PROVE TypeOK'
  BY <1>3 DEF Receive, outVars, envVars
<1>4. CASE Skip \/ DuplicateOn \/ StrayOff \/ UnknownType
  BY <1>4 DEF Skip, DuplicateOn, StrayOff, UnknownType, BackToSelect, outVars, envVars
<1>5. CASE FirstOn
  BY <1>5 DEF FirstOn, Handling, ForwardIf, BackToSelect, Events, outVars, envVars
<1>6. CASE MatchingOff
  BY <1>6 DEF MatchingOff, Handling, ForwardIf, BackToSelect, Events, outVars, envVars
<1>7. CASE Send
  <2>1. Message \in Messages
    BY <1>7 DEF Send, Broadcasting, Message, Messages, Events
  <2>2. nextOut \in Outputs /\ nextOut + 1 \in 1 .. NumOutputs + 1
    BY <1>7 DEF Send, Broadcasting, Outputs
  <2>3. Append(chans[nextOut], Message) \in Seq(Messages)
    BY <2>1, <2>2
  <2>4. Len(Append(chans[nextOut], Message)) <= ChanCap[nextOut]
    BY <1>7, <2>1, <2>2 DEF Send, HasRoom
  <2>5. chans' \in [Outputs -> Seq(Messages)]
    BY <1>7, <2>3 DEF Send
  <2>6. \A o \in Outputs : Len(chans'[o]) <= ChanCap[o]
    BY <1>7, <2>4 DEF Send
  <2> QED
    BY <1>7, <2>2, <2>5, <2>6 DEF Send, Broadcasting, envVars
<1>8. CASE Handoff
  <2>1. nextOut \in Outputs /\ nextOut + 1 \in 1 .. NumOutputs + 1
    BY <1>8 DEF Handoff, Broadcasting, Outputs
  <2>2. Deliver(views[nextOut], Message) \in SUBSET Devices
    BY <1>8, <2>1 DEF Handoff, Broadcasting, Deliver, Message, Events
  <2> QED
    BY <1>8, <2>1, <2>2 DEF Handoff, Broadcasting, envVars
<1>9. CASE AbortBroadcast \/ EndBroadcast
  BY <1>9 DEF AbortBroadcast, EndBroadcast, BackToSelect, outVars, envVars
<1>10. ASSUME NEW o \in Outputs, Consume(o) PROVE TypeOK'
  <2>1. chans[o] \in Seq(Messages) /\ chans[o] # <<>>
    BY <1>10 DEF Consume
  <2>2. Head(chans[o]) \in Messages /\ Tail(chans[o]) \in Seq(Messages)
          /\ Len(Tail(chans[o])) = Len(chans[o]) - 1
    BY <2>1, EmptySeq, HeadTailProperties
  <2>3. Deliver(views[o], Head(chans[o])) \in SUBSET Devices
    BY <2>2 DEF Deliver, Messages
  <2>4. chans' \in [Outputs -> Seq(Messages)] /\ views' \in [Outputs -> SUBSET Devices]
    BY <1>10, <2>2, <2>3 DEF Consume
  <2>5. \A p \in Outputs : Len(chans'[p]) <= ChanCap[p]
    BY <1>10, <2>1, <2>2 DEF Consume
  <2> QED
    BY <1>10, <2>4, <2>5 DEF Consume, envVars
<1>11. CASE Cancel \/ CloseEvents
  BY <1>11 DEF Cancel, CloseEvents, outVars
<1>12. ASSUME NEW d \in Devices, NEW kind \in NodeKinds, Replug(d, kind) PROVE TypeOK'
  BY <1>12 DEF Replug, outVars
<1>13. CASE UNCHANGED vars
  BY <1>13 DEF vars
<1> QED
  BY <1>1, <1>2, <1>3, <1>4, <1>5, <1>6, <1>7, <1>8, <1>9, <1>10, <1>11, <1>12, <1>13
     DEF Next, Handle, Broadcast

(* Every reachable state of the coordinator is of the declared type: a     *)
(* broadcast holds an ON or an OFF, and no buffer exceeds its capacity.    *)
THEOREM TypeCorrect == Spec => []TypeOK
BY InitType, TypeStep, PTL DEF Spec

-----------------------------------------------------------------------------
(* Every message in flight is a message, and the on-set is a set of        *)
(* devices.                                                                *)
LEMMA InFlightType ==
  ASSUME TypeOK, NEW o \in Outputs
  PROVE  /\ InFlight(o) \in Seq(Messages)
         /\ chans[o] \in Seq(Messages)
         /\ views[o] \in SUBSET Devices
         /\ OnDevices \in SUBSET Devices
         /\ pc = "broadcast" => Message \in Messages
<1>1. chans[o] \in Seq(Messages) /\ views[o] \in SUBSET Devices /\ OnDevices \in SUBSET Devices
  BY DEF TypeOK, OnDevices
<1>2. pc = "broadcast" => Message \in Messages
  BY DEF TypeOK, Message, Messages, Events
<1>3. InFlight(o) \in Seq(Messages)
  BY <1>1, <1>2 DEF InFlight
<1> QED
  BY <1>1, <1>2, <1>3

(* What a step may do to the feed of one or of all consumers.              *)
Quiet == UNCHANGED <<views, OnDevices>> /\ \A o \in Outputs : InFlight(o)' = InFlight(o)
Announced(m) ==
  /\ Switches(OnDevices, m, OnDevices') /\ UNCHANGED views
  /\ \A o \in Outputs : InFlight(o)' = Append(InFlight(o), m) /\ Len(InFlight(o)) <= ChanCap[o]
Received(p) ==
  /\ UNCHANGED OnDevices /\ InFlight(p) # <<>>
  /\ InFlight(p)' = Tail(InFlight(p))
  /\ views' = [views EXCEPT ![p] = Deliver(@, Head(InFlight(p)))]
  /\ \A o \in Outputs \ {p} : InFlight(o)' = InFlight(o)

(* FirstOn and MatchingOff switch the on-set by the message they put in    *)
(* flight to everybody, or leave the feed alone.                           *)
LEMMA HandleEffect ==
  ASSUME TypeOK, FirstOn \/ MatchingOff
  PROVE  Quiet \/ \E m \in Messages : Announced(m)
<1> USE OutputsAssumption DEF outVars, envVars
<1>1. pc = "query" /\ cur \in Events /\ cur.dev \in Devices /\ nextOut = 1
  BY DEF FirstOn, MatchingOff, Handling, TypeOK, Events
<1>2. UNCHANGED <<chans, views>> /\ \A o \in Outputs : InFlight(o) = chans[o]
  BY <1>1 DEF FirstOn, MatchingOff, InFlight
<1>3. ASSUME pc' # "broadcast", OnDevices' = OnDevices PROVE Quiet
  BY <1>2, <1>3 DEF Quiet, InFlight
<1>4. ASSUME pc' = "broadcast", UNCHANGED <<cur, nextOut>>, cur.type \in {On, Off},
             Switches(OnDevices, Message, OnDevices')
      PROVE  \E m \in Messages : Announced(m)
  <2>1. Message \in Messages
    BY <1>1, <1>4 DEF Message, Messages
  <2>2. \A o \in Outputs : nextOut <= o
    BY <1>1 DEF Outputs
  <2>3. \A o \in Outputs : InFlight(o)' = Append(InFlight(o), Message)
    BY <1>2, <1>4, <2>2 DEF InFlight, Message
  <2>4. \A o \in Outputs : Len(InFlight(o)) <= ChanCap[o]
    BY <1>2 DEF TypeOK
  <2> QED
    BY <1>2, <1>4, <2>1, <2>3, <2>4 DEF Announced
<1>5. CASE FirstOn
  <2>1. OnDevices' = OnDevices \cup {cur.dev} /\ cur.type = On
    BY <1>1, <1>5 DEF FirstOn, Handling, OnDevices, TypeOK
  <2>2. CASE WasEmpty
    <3>1. Switches(OnDevices, Message, OnDevices')
      BY <1>1, <2>1, <2>2 DEF Switches, Message, OnDevices, WasEmpty
    <3> QED
      BY <1>4, <1>5, <2>1, <2>2, <3>1 DEF FirstOn, ForwardIf
  <2>3. CASE ~WasEmpty
    <3>1. OnDevices' = OnDevices
      BY <1>1, <2>1, <2>3 DEF OnDevices, WasEmpty
    <3> QED
      BY <1>3, <1>5, <2>3, <3>1 DEF FirstOn, ForwardIf, BackToSelect
  <2> QED
    BY <2>2, <2>3
<1>6. CASE MatchingOff
  <2>1. cur.type = Off /\ cur.dev \in OnDevices
    BY <1>1, <1>6 DEF MatchingOff, Handling, OnDevices, Outstanding
  <2>2. CASE LastActive
    <3>1. OnDevices' = OnDevices \ {cur.dev}
      BY <1>1, <1>6, <2>2 DEF MatchingOff, OnDevices, TypeOK, LastActive
    <3>2. Switches(OnDevices, Message, OnDevices')
      BY <2>1, <3>1 DEF Switches, Message
    <3> QED
      BY <1>4, <1>6, <2>1, <2>2, <3>2 DEF MatchingOff, ForwardIf
  <2>3. CASE ~LastActive
    <3>1. OnDevices' = OnDevices
      BY <1>1, <1>6, <2>3 DEF MatchingOff, OnDevices, TypeOK, LastActive
    <3> QED
      BY <1>3, <1>6, <2>3, <3>1 DEF MatchingOff, ForwardIf, BackToSelect
  <2> QED
    BY <2>2, <2>3
<1> QED
  BY <1>5, <1>6

(* Putting the message into a buffer, and ending a broadcast, change       *)
(* nothing: the message was in flight already, and still is.               *)
LEMMA SendEffect ==
  ASSUME TypeOK, Send \/ EndBroadcast
  PROVE  Quiet
<1> USE DEF outVars, envVars
<1>1. CASE Send
  <2>1. nextOut \in Outputs /\ pc = "broadcast" /\ pc' = pc /\ Message' = Message
    BY <1>1 DEF Send, Broadcasting, Outputs, Message, TypeOK
  <2>2. ASSUME NEW o \in Outputs PROVE InFlight(o)' = InFlight(o)
    <3>1. o \in Nat /\ nextOut \in Nat
      BY <2>1 DEF Outputs
    <3>2. CASE o = nextOut
      BY <1>1, <2>1, <3>1, <3>2 DEF Send, InFlight, TypeOK
    <3>3. CASE o # nextOut
      BY <1>1, <2>1, <3>1, <3>3 DEF Send, InFlight, TypeOK
    <3> QED
      BY <3>2, <3>3
  <2> QED
    BY <1>1, <2>2 DEF Send, OnDevices, Quiet
<1>2. CASE EndBroadcast
  BY <1>2, OutputsAssumption
     DEF EndBroadcast, BackToSelect, InFlight, Outputs, OnDevices, Quiet, TypeOK
<1> QED
  BY <1>1, <1>2

(* A consumer that receives, from its buffer or from the coordinator's     *)
(* hand, takes the oldest message in flight to it.                         *)
LEMMA ReceiveEffect ==
  ASSUME TypeOK, NEW p \in Outputs, Consume(p) \/ (Handoff /\ nextOut = p)
  PROVE  Received(p)
<1> USE DEF outVars, envVars
<1>0. OnDevices' = OnDevices /\ Message' = Message /\ pc' = pc
  BY DEF Consume, Handoff, OnDevices, Message
<1>1. CASE Consume(p)
  <2>1. chans[p] # <<>> /\ chans[p] \in Seq(Messages) /\ chans' = [chans EXCEPT ![p] = Tail(@)]
          /\ views' = [views EXCEPT ![p] = Deliver(@, Head(chans[p]))] /\ nextOut' = nextOut
    BY <1>1 DEF Consume, TypeOK
  <2>2. chans'[p] = Tail(chans[p]) /\ \A o \in Outputs \ {p} : chans'[o] = chans[o]
    BY <2>1 DEF TypeOK
  <2>3. \A o \in Outputs \ {p} : InFlight(o)' = InFlight(o)
    BY <1>0, <2>1, <2>2 DEF InFlight
  <2>4. CASE pc = "broadcast" /\ nextOut <= p
    <3>1. Message \in Messages
      BY <2>4, InFlightType
    <3>2. /\ Append(chans[p], Message) # <<>>
          /\ Head(Append(chans[p], Message)) = Head(chans[p])
          /\ Tail(Append(chans[p], Message)) = Append(Tail(chans[p]), Message)
      BY <2>1, <3>1, HeadTailAppend
    <3> QED
      BY <1>0, <2>1, <2>2, <2>3, <2>4, <3>2 DEF InFlight, Received
  <2>5. CASE ~(pc = "broadcast" /\ nextOut <= p)
    BY <1>0, <2>1, <2>2, <2>3, <2>5 DEF InFlight, Received
  <2> QED
    BY <2>4, <2>5
<1>2. CASE Handoff /\ nextOut = p
  <2>1. chans[p] = <<>> /\ pc = "broadcast" /\ chans' = chans /\ nextOut' = p + 1
          /\ views' = [views EXCEPT ![p] = Deliver(@, Message)] /\ p \in Nat
    BY <1>2, EmptySeq DEF Handoff, Broadcasting, TypeOK, Outputs
  <2>2. Message \in Messages
    BY <2>1, InFlightType
  <2>3. InFlight(p) = Append(<<>>, Message) /\ InFlight(p)' = <<>>
    BY <1>0, <1>2, <2>1 DEF InFlight
  <2>4. Append(<<>>, Message) # <<>> /\ Head(Append(<<>>, Message)) = Message
          /\ Tail(Append(<<>>, Message)) = <<>>
    BY <2>2
  <2>5. \A o \in Outputs \ {p} : InFlight(o)' = InFlight(o)
    BY <1>0, <1>2, <2>1 DEF InFlight, Outputs
  <2> QED
    BY <1>0, <2>1, <2>3, <2>4, <2>5 DEF Received
<1> QED
  BY <1>1, <1>2

(* Every step until cancellation leaves the feed alone, switches the       *)
(* on-set by one message to everybody, or is one consumer's receive.       *)
LEMMA StepEffect ==
  ASSUME TypeOK, [Next]_vars, ~ctxDone'
  PROVE  \/ Quiet
         \/ \E m \in Messages : Announced(m)
         \/ \E p \in Outputs : Received(p)
<1> USE DEF outVars, envVars
<1>1. CASE Start \/ ReturnOnDone \/ ReturnOnClosed
  BY <1>1 DEF Start, ReturnOnDone, ReturnOnClosed, InFlight, OnDevices, Quiet
<1>2. ASSUME NEW e \in Events, Receive(e) PROVE Quiet
  BY <1>2 DEF Receive, InFlight, OnDevices, Quiet
<1>3. CASE Skip \/ DuplicateOn \/ StrayOff \/ UnknownType
  BY <1>3 DEF Skip, DuplicateOn, StrayOff, UnknownType, Handling, BackToSelect, InFlight,
     OnDevices, Quiet
<1>4. CASE FirstOn \/ MatchingOff
  BY <1>4, HandleEffect
<1>5. CASE Send \/ EndBroadcast
  BY <1>5, SendEffect
<1>6. CASE Handoff
  <2>1. nextOut \in Outputs
    BY <1>6 DEF Handoff, Broadcasting, Outputs, TypeOK
  <2> QED
    BY <1>6, <2>1, ReceiveEffect
<1>7. ASSUME NEW p \in Outputs, Consume(p) PROVE Received(p)
  BY <1>7, ReceiveEffect
<1>8. CASE AbortBroadcast \/ Cancel
  BY <1>8 DEF AbortBroadcast, Cancel
<1>9. CASE CloseEvents
  BY <1>9 DEF CloseEvents, InFlight, Message, OnDevices, Quiet
<1>10. ASSUME NEW d \in Devices, NEW kind \in NodeKinds, Replug(d, kind) PROVE Quiet
  BY <1>10 DEF Replug, InFlight, Message, OnDevices, Quiet
<1>11. CASE UNCHANGED vars
  BY <1>11 DEF vars, InFlight, Message, OnDevices, Quiet
<1> QED
  BY <1>1, <1>2, <1>3, <1>4, <1>5, <1>6, <1>7, <1>8, <1>9, <1>10, <1>11
     DEF Next, Handle, Broadcast

-----------------------------------------------------------------------------
(* The feed is empty at first, and every step keeps it: a step of the      *)
(* coordinator or of a consumer is quiet, announces or receives.           *)
LEMMA FeedInit == Init => FeedInv
<1> SUFFICES ASSUME Init, NEW o \in Outputs PROVE Bridges(views[o], InFlight(o), OnDevices)
  BY DEF FeedInv
<1>1. views[o] = {} /\ OnDevices = {} /\ InFlight(o) = <<>>
  BY DEF Init, OnDevices, InFlight
<1> QED
  BY <1>1, BridgesEmpty

LEMMA FeedStep == TypeOK /\ FeedInv /\ [Next]_vars => FeedInv'
<1> SUFFICES ASSUME TypeOK, FeedInv, [Next]_vars, ~ctxDone', NEW o \in Outputs
             PROVE  Bridges(views'[o], InFlight(o)', OnDevices')
  BY DEF FeedInv, Bridges, Explains
<1>1. ~ctxDone
  <2> USE DEF outVars, envVars
  <2> QED
    BY DEF Next, vars, Start, ReturnOnDone, ReturnOnClosed, Receive, Handle, Skip,
       DuplicateOn, FirstOn, StrayOff, MatchingOff, UnknownType, Broadcast, Send, Handoff,
       AbortBroadcast, EndBroadcast, Consume, Cancel, CloseEvents, Replug
<1>2. Bridges(views[o], InFlight(o), OnDevices)
  BY <1>1 DEF FeedInv
<1>3. /\ InFlight(o) \in Seq(Messages) /\ views[o] \in SUBSET Devices
      /\ OnDevices \in SUBSET Devices /\ OnDevices' \in SUBSET Devices
  BY InFlightType DEF OnDevices
<1>4. CASE Quiet
  BY <1>2, <1>4 DEF Quiet
<1>5. ASSUME NEW m \in Messages, Announced(m)
      PROVE  Bridges(views'[o], InFlight(o)', OnDevices')
  BY <1>2, <1>3, <1>5, BridgesAppend DEF Announced
<1>6. ASSUME NEW p \in Outputs, Received(p)
      PROVE  Bridges(views'[o], InFlight(o)', OnDevices')
  <2>1. CASE o = p
    <3>1. views'[o] = Deliver(views[o], Head(InFlight(o)))
      BY <1>6, <2>1 DEF Received, TypeOK
    <3> QED
      BY <1>2, <1>3, <1>6, <2>1, <3>1, BridgesTail DEF Received
  <2>2. CASE o # p
    BY <1>2, <1>6, <2>2 DEF Received, TypeOK
  <2> QED
    BY <2>1, <2>2
<1> QED
  BY <1>4, <1>5, <1>6, StepEffect

(* Until cancellation, what is in flight to a consumer leads, one switch   *)
(* at a time, from what it has seen to the on-set Run keeps.               *)
THEOREM FeedCorrect == Spec => []FeedInv
BY FeedInit, FeedStep, TypeCorrect, PTL DEF Spec

(* A consumer's receive tells it something new and moves it along its      *)
(* history.                                                                *)
LEMMA ReceiveIsNews ==
  ASSUME TypeOK, FeedInv, ~ctxDone, NEW p \in Outputs, Received(p)
  PROVE  views'[p] # views[p]
<1>1. Bridges(views[p], InFlight(p), OnDevices)
  BY DEF FeedInv
<1>2. /\ InFlight(p) \in Seq(Messages) /\ InFlight(p) # <<>>
      /\ views[p] \in SUBSET Devices /\ OnDevices \in SUBSET Devices
      /\ views'[p] = Deliver(views[p], Head(InFlight(p)))
  BY InFlightType DEF Received, TypeOK
<1>3. Switches(views[p], Head(InFlight(p)), views'[p])
  BY <1>1, <1>2, BridgesTail
<1>4. Head(InFlight(p)) \in Messages
  BY <1>2, EmptySeq, HeadTailProperties
<1>5. views'[p] \in SUBSET Devices
  BY <1>2, <1>4 DEF Deliver, Messages
<1> QED
  BY <1>2, <1>3, <1>4, <1>5, SwitchesDelivers

(* Until cancellation, no message a consumer receives repeats what it      *)
(* already knows.                                                          *)
THEOREM NothingRedundant == Spec => NoRedundantDelivery
<1> DEFINE News == \A o \in Outputs : ~ctxDone /\ (Consume(o) \/ (Handoff /\ nextOut = o))
                                        => views'[o] # views[o]
<1>1. TypeOK /\ FeedInv => News
  BY ReceiveEffect, ReceiveIsNews
<1> HIDE DEF News
<1>2. Spec => [][News]_vars
  BY <1>1, TypeCorrect, FeedCorrect, PTL
<1> QED
  BY <1>2 DEF NoRedundantDelivery, News

=============================================================================
