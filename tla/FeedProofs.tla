----------------------------- MODULE FeedProofs -----------------------------
(***************************************************************************)
(* CameraCoordinator implements CameraFeed, for every set of detectors and *)
(* devices, every number of outputs and every channel capacity; and its    *)
(* map is what its detectors have reported.                                *)
(***************************************************************************)
EXTENDS CoordinatorReports, CameraCoordinatorProofs, WellFoundedInduction

(* A history along q obeys the recursion that defines Walk.                *)
Unrolls(h, s, q) ==
  h = [i \in 1 .. Len(q) + 1 |-> IF i = 1 THEN s ELSE Deliver(h[i - 1], q[i - 1])]

(* The recursion has one solution: the least place where two would differ  *)
(* cannot exist.                                                           *)
LEMMA UnrollsUnique ==
  ASSUME NEW s, NEW q \in Seq(Messages), NEW f, NEW g, Unrolls(f, s, q), Unrolls(g, s, q)
  PROVE  f = g
<1> DEFINE n == Len(q) + 1
<1> DEFINE D == {i \in 1 .. n : f[i] # g[i]}
<1>1. n \in Nat /\ D \subseteq Nat
  OBVIOUS
<1>2. D = {}
  <2> SUFFICES ASSUME D # {} PROVE FALSE
    OBVIOUS
  <2>1. PICK i \in D : \A j \in D : <<j, i>> \notin OpToRel(<, Nat)
    BY <1>1, WFMin, NatLessThanWellFounded
  <2>2. i \in 1 .. n /\ f[i] # g[i]
    OBVIOUS
  <2>3. i # 1
    BY <2>2 DEF Unrolls
  <2>4. i - 1 \in 1 .. n /\ i - 1 \in Nat /\ i \in Nat /\ i - 1 < i
    BY <1>1, <2>2, <2>3
  <2>5. i - 1 \notin D
    BY <2>1, <2>4 DEF OpToRel
  <2>6. f[i - 1] = g[i - 1]
    BY <2>4, <2>5
  <2>7. f[i] = Deliver(f[i - 1], q[i - 1]) /\ g[i] = Deliver(g[i - 1], q[i - 1])
    BY <2>2, <2>3 DEF Unrolls
  <2> QED
    BY <2>2, <2>6, <2>7
<1>3. \A i \in 1 .. n : f[i] = g[i]
  BY <1>2
<1> QED
  BY <1>3 DEF Unrolls

(* The history that bridges s and t is the one that Walk computes.         *)
LEMMA WalkExplains ==
  ASSUME NEW s \in SUBSET Devices, NEW q \in Seq(Messages), NEW t \in SUBSET Devices,
         NEW f, Explains(f, s, q, t)
  PROVE  Walk(s, q) = f
<1> DEFINE n == Len(q)
<1>1. n \in Nat /\ \A i \in 1 .. n : q[i] \in Messages
  OBVIOUS
<1>2. Unrolls(f, s, q)
  <2>1. \A i \in 2 .. n + 1 : f[i] = Deliver(f[i - 1], q[i - 1])
    <3> SUFFICES ASSUME NEW i \in 2 .. n + 1 PROVE f[i] = Deliver(f[i - 1], q[i - 1])
      OBVIOUS
    <3>1. i - 1 \in 1 .. n /\ (i - 1) + 1 = i /\ i \in 1 .. n + 1 /\ i - 1 \in 1 .. n + 1
      BY <1>1
    <3>2. Switches(f[i - 1], q[i - 1], f[i])
      BY <3>1 DEF Explains
    <3>3. f[i - 1] \in SUBSET Devices /\ f[i] \in SUBSET Devices
      BY <3>1 DEF Explains
    <3> QED
      BY <1>1, <3>1, <3>2, <3>3, SwitchesDelivers
  <2>2. f[1] = s /\ f \in [1 .. n + 1 -> SUBSET Devices]
    BY DEF Explains
  <2>3. \A i \in 1 .. n + 1 : i = 1 \/ i \in 2 .. n + 1
    BY <1>1
  <2> QED
    BY <2>1, <2>2, <2>3 DEF Unrolls
<1>3. Walk(s, q) = CHOOSE h : Unrolls(h, s, q)
  BY DEF Walk, Unrolls
<1>4. Unrolls(Walk(s, q), s, q)
  BY <1>2, <1>3
<1> QED
  BY <1>2, <1>4, UnrollsUnique

(* A switch of the on-set adds it at the end of the walk.                  *)
LEMMA WalkAppend ==
  ASSUME NEW s \in SUBSET Devices, NEW q \in Seq(Messages), NEW t \in SUBSET Devices,
         NEW m \in Messages, NEW u \in SUBSET Devices,
         Bridges(s, q, t), Switches(t, m, u)
  PROVE  Walk(s, Append(q, m)) = Append(Walk(s, q), u)
<1> DEFINE n == Len(q)
<1>1. n \in Nat /\ Append(q, m) \in Seq(Messages) /\ Len(Append(q, m)) = n + 1
        /\ \A i \in 1 .. n + 1 : Append(q, m)[i] = IF i = n + 1 THEN m ELSE q[i]
  OBVIOUS
<1>2. PICK f \in [1 .. n + 1 -> SUBSET Devices] : Explains(f, s, q, t)
  BY DEF Bridges
<1>3. Walk(s, q) = f
  BY <1>2, WalkExplains
<1>4. f \in Seq(SUBSET Devices) /\ Len(f) = n + 1
  BY <1>1, <1>2
<1> DEFINE g == Append(f, u)
<1>5. g \in [1 .. (n + 1) + 1 -> SUBSET Devices]
        /\ \A i \in 1 .. n + 1 : g[i] = f[i]
  <2>1. g \in Seq(SUBSET Devices) /\ Len(g) = (n + 1) + 1
    BY <1>1, <1>4
  <2>2. g \in [1 .. (n + 1) + 1 -> SUBSET Devices]
    <3> HIDE DEF g
    <3> QED
      BY <2>1, LenProperties
  <2>3. \A i \in 1 .. n + 1 : g[i] = f[i]
    BY <1>1, <1>4
  <2> QED
    BY <2>2, <2>3
<1>6. g[(n + 1) + 1] = u
  BY <1>1, <1>4
<1> HIDE DEF g
<1>7. ASSUME NEW i \in 1 .. n + 1 PROVE Switches(g[i], Append(q, m)[i], g[i + 1])
  <2>1. CASE i = n + 1
    BY <1>1, <1>2, <1>5, <1>6, <2>1 DEF Explains
  <2>2. CASE i # n + 1
    <3>1. i \in 1 .. n /\ i + 1 \in 1 .. n + 1
      BY <1>1, <2>2
    <3> QED
      BY <1>1, <1>2, <1>5, <2>2, <3>1 DEF Explains
  <2> QED
    BY <2>1, <2>2
<1>8. g[1] = s
  BY <1>1, <1>2, <1>5 DEF Explains
<1>9. Explains(g, s, Append(q, m), u)
  BY <1>1, <1>5, <1>6, <1>7, <1>8 DEF Explains
<1> QED
  BY <1>1, <1>3, <1>9, WalkExplains DEF g

(* Receiving the oldest message leaves the rest of the walk.               *)
LEMMA WalkTail ==
  ASSUME NEW s \in SUBSET Devices, NEW q \in Seq(Messages), NEW t \in SUBSET Devices,
         Bridges(s, q, t), q # <<>>
  PROVE  Walk(Deliver(s, Head(q)), Tail(q)) = Tail(Walk(s, q))
<1> DEFINE n == Len(q)
<1>1. n \in Nat /\ n >= 1 /\ Head(q) = q[1] /\ Head(q) \in Messages
  BY EmptySeq, HeadTailProperties
<1>2. PICK f \in [1 .. n + 1 -> SUBSET Devices] : Explains(f, s, q, t)
  BY DEF Bridges
<1>3. Walk(s, q) = f
  BY <1>2, WalkExplains
<1>4. f \in Seq(SUBSET Devices) /\ Len(f) = n + 1 /\ f # <<>>
  BY <1>1, <1>2
<1> DEFINE g == Tail(f)
<1>5. g \in [1 .. n -> SUBSET Devices] /\ \A i \in 1 .. n : g[i] = f[i + 1]
  <2>1. g \in Seq(SUBSET Devices) /\ Len(g) = n /\ \A i \in 1 .. n : g[i] = f[i + 1]
    BY <1>1, <1>4, HeadTailProperties
  <2> HIDE DEF g
  <2> QED
    BY <2>1, LenProperties
<1> HIDE DEF g
<1>6. Tail(q) \in Seq(Messages) /\ Len(Tail(q)) = n - 1 /\ (n - 1) + 1 = n
        /\ \A i \in 1 .. n - 1 : Tail(q)[i] = q[i + 1]
  BY <1>1, HeadTailProperties
<1>7. Switches(s, Head(q), g[1]) /\ g[1] \in SUBSET Devices
  BY <1>1, <1>2, <1>5 DEF Explains
<1>8. g[1] = Deliver(s, Head(q))
  BY <1>1, <1>7, SwitchesDelivers
<1>9. ASSUME NEW i \in 1 .. n - 1 PROVE Switches(g[i], Tail(q)[i], g[i + 1])
  <2>1. i + 1 \in 1 .. n /\ i \in 1 .. n
    BY <1>1
  <2>2. g[i] = f[i + 1] /\ g[i + 1] = f[(i + 1) + 1]
    BY <1>5, <2>1
  <2> QED
    BY <1>2, <1>6, <2>1, <2>2 DEF Explains
<1>10. g[n] = t
  BY <1>1, <1>2, <1>5 DEF Explains
<1>11. Explains(g, g[1], Tail(q), t)
  BY <1>5, <1>6, <1>9, <1>10 DEF Explains
<1> QED
  BY <1>3, <1>6, <1>7, <1>8, <1>11, WalkExplains DEF g

(* A consumer's path begins with its view and ends with the on-set.        *)
LEMMA PathEnds ==
  ASSUME TypeOK, FeedInv, ~ctxDone, NEW o \in Outputs
  PROVE  /\ Path(o) \in Seq(SUBSET Devices)
         /\ Len(Path(o)) = Len(InFlight(o)) + 1
         /\ Path(o)[Len(Path(o))] = OnDevices
<1>1. Bridges(views[o], InFlight(o), OnDevices)
  BY DEF FeedInv
<1>2. PICK f \in [1 .. Len(InFlight(o)) + 1 -> SUBSET Devices] :
        Explains(f, views[o], InFlight(o), OnDevices)
  BY <1>1 DEF Bridges
<1>3. Path(o) = f
  BY <1>2, InFlightType, WalkExplains DEF Path
<1>4. Len(InFlight(o)) \in Nat
  BY InFlightType
<1> QED
  BY <1>2, <1>3, <1>4 DEF Explains

-----------------------------------------------------------------------------
(* The coordinator leads each consumer, without skipping and no further    *)
(* behind than its buffer and one message, along one history of on-sets,   *)
(* until it is cancelled.                                                  *)
THEOREM CoordinatorImplementsFeed == Spec => ImplementsFeed
<1>1. TypeOK /\ FeedInv /\ Init => Feed!Init
  <2> SUFFICES ASSUME TypeOK, FeedInv, Init PROVE Feed!Init
    OBVIOUS
  <2>1. ASSUME NEW o \in Outputs PROVE Path(o) = <<{}>>
    <3>1. views[o] = {} /\ InFlight(o) = <<>> /\ ~ctxDone
      BY DEF Init, InFlight
    <3>2. Path(o) \in Seq(SUBSET Devices) /\ Len(Path(o)) = 1 /\ Path(o)[1] = OnDevices
      <4>1. Len(<<>>) + 1 = 1
        OBVIOUS
      <4>2. Path(o) \in Seq(SUBSET Devices) /\ Len(Path(o)) = Len(InFlight(o)) + 1
              /\ Path(o)[Len(Path(o))] = OnDevices
        BY <3>1, PathEnds
      <4> QED
        BY <3>1, <4>1, <4>2
    <3>3. OnDevices = {}
      BY DEF Init, OnDevices
    <3>4. <<{}>> \in Seq(SUBSET Devices) /\ Len(<<{}>>) = 1 /\ <<{}>>[1] = {}
      OBVIOUS
    <3>5. ASSUME NEW i \in 1 .. 1 PROVE Path(o)[i] = <<{}>>[i]
      <4>1. i = 1
        OBVIOUS
      <4> QED
        BY <3>2, <3>3, <3>4, <4>1
    <3> QED
      BY <3>2, <3>4, <3>5, SeqEqual
  <2> QED
    BY <2>1 DEF Feed!Init, Feed!Start, Init
<1>2. TypeOK /\ TypeOK' /\ FeedInv /\ FeedInv' /\ [Next]_vars => [Feed!Next]_(Feed!feedVars)
  <2> SUFFICES ASSUME TypeOK, TypeOK', FeedInv, FeedInv', [Next]_vars
               PROVE  [Feed!Next]_(Feed!feedVars)
    OBVIOUS
  <2>1. CASE ctxDone
    <3>1. ctxDone'
      <4> USE DEF outVars, envVars
      <4> QED
        BY <2>1 DEF Next, vars, Start, ReturnOnDone, ReturnOnClosed, Receive, Handle, Skip,
           DuplicateOn, FirstOn, StrayOff, MatchingOff, UnknownType, Broadcast, Send, Handoff,
           AbortBroadcast, EndBroadcast, Consume, Cancel, CloseEvents, Replug
    <3> QED
      BY <2>1, <3>1 DEF Feed!feedVars
  <2>2. CASE ~ctxDone /\ ctxDone'
    BY <2>2 DEF Feed!Next, Feed!Stop, Feed!Start
  <2>3. CASE ~ctxDone /\ ~ctxDone'
    <3>1. CASE Quiet
      <4>1. \A o \in Outputs : Path(o)' = Path(o)
        BY <3>1 DEF Quiet, Path
      <4> QED
        BY <2>3, <4>1 DEF Feed!feedVars
    <3>2. ASSUME NEW m \in Messages, Announced(m) PROVE Feed!Switch(m.dev)
      <4>1. ASSUME NEW o \in Outputs
            PROVE  /\ Len(Path(o)) < ChanCap[o] + 2
                   /\ Path(o)' = Feed!Extend(Path(o), m.dev)
        <5>1. /\ Path(o) \in Seq(SUBSET Devices) /\ Len(Path(o)) = Len(InFlight(o)) + 1
              /\ Path(o)[Len(Path(o))] = OnDevices
          BY <2>3, PathEnds
        <5>2. /\ InFlight(o) \in Seq(Messages) /\ views[o] \in SUBSET Devices
              /\ OnDevices \in SUBSET Devices /\ OnDevices' \in SUBSET Devices
          BY InFlightType DEF OnDevices
        <5>3. Len(InFlight(o)) \in Nat /\ ChanCap[o] \in Nat /\ Len(InFlight(o)) <= ChanCap[o]
          BY <3>2, <5>2, OutputsAssumption DEF Announced
        <5>4. Path(o)' = Append(Path(o), OnDevices')
          <6>1. Bridges(views[o], InFlight(o), OnDevices)
            BY <2>3 DEF FeedInv
          <6>2. Switches(OnDevices, m, OnDevices')
            BY <3>2 DEF Announced
          <6> DEFINE q == InFlight(o)
          <6> DEFINE t == OnDevices
          <6> DEFINE u == OnDevices'
          <6>3. q \in Seq(Messages) /\ t \in SUBSET Devices /\ u \in SUBSET Devices
                  /\ Bridges(views[o], q, t) /\ Switches(t, m, u)
            BY <5>2, <6>1, <6>2
          <6> HIDE DEF q, t, u
          <6>4. Walk(views[o], Append(q, m)) = Append(Walk(views[o], q), u)
            BY <3>2, <5>2, <6>3, WalkAppend, Z3
          <6>5. InFlight(o)' = Append(InFlight(o), m) /\ views' = views
            BY <3>2 DEF Announced
          <6> QED
            BY <6>4, <6>5 DEF Path, q, u
        <5>5. OnDevices' = Feed!Toggle(OnDevices, m.dev)
          BY <3>2, <5>2 DEF Announced, Switches, Feed!Toggle
        <5> QED
          BY <5>1, <5>3, <5>4, <5>5 DEF Feed!Extend
      <4> QED
        BY <2>3, <4>1 DEF Feed!Switch
    <3>3. ASSUME NEW p \in Outputs, Received(p) PROVE Feed!Observe(p)
      <4>1. /\ Path(p) \in Seq(SUBSET Devices) /\ Len(Path(p)) = Len(InFlight(p)) + 1
        BY <2>3, PathEnds
      <4>2. /\ InFlight(p) \in Seq(Messages) /\ views[p] \in SUBSET Devices
            /\ OnDevices \in SUBSET Devices
        BY InFlightType
      <4>3. Len(Path(p)) > 1
        BY <3>3, <4>1, <4>2, EmptySeq DEF Received
      <4>4. Path(p)' = Tail(Path(p))
        <5>1. views'[p] = Deliver(views[p], Head(InFlight(p)))
          BY <3>3 DEF Received, TypeOK
        <5> QED
          BY <2>3, <3>3, <4>2, <5>1, WalkTail DEF Path, Received, FeedInv
      <4>5. \A o \in Outputs \ {p} : Path(o)' = Path(o)
        BY <3>3 DEF Received, Path, TypeOK
      <4> QED
        BY <2>3, <4>3, <4>4, <4>5 DEF Feed!Observe
    <3>4. \A m \in Messages : m.dev \in Devices
      BY DEF Messages
    <3> QED
      BY <2>3, <3>1, <3>2, <3>3, <3>4, StepEffect DEF Feed!Next
  <2> QED
    BY <2>1, <2>2, <2>3
<1> QED
  BY <1>1, <1>2, TypeCorrect, FeedCorrect, PTL DEF Spec, ImplementsFeed, Feed!Spec

-----------------------------------------------------------------------------
USE DEF On, Off, Unknown

(* The memory of what detectors reported is of its type.                   *)
HistTypeOK == reported \in [Devices -> SUBSET Detectors]

(* The ON or OFF whose effect on active is still to come.                  *)
Pending(t, d) == pc = "query" /\ cur.type \in {On, Off} /\ cur.det = t /\ cur.dev = d

(* reported already says what the event being queried says; apart from     *)
(* that event and the skipped ones, active and reported agree.             *)
AgreeInv ==
  /\ pc = "query" /\ cur.type = On => cur.det \in reported[cur.dev]
  /\ pc = "query" /\ cur.type = Off => cur.det \notin reported[cur.dev]
  /\ \A t \in Detectors, d \in Devices :
       <<t, d>> \notin missed /\ ~Pending(t, d) => (t \in active[d] <=> t \in reported[d])

(* The memory only watches: with it, the coordinator does what it did.     *)
LEMMA HistoryOnlyWatches == HistSpec => Spec
<1>1. HistInit => Init
  BY DEF HistInit
<1>2. [HistNext]_allVars => [Next]_vars
  BY DEF HistNext, HistReceive, HistSkip, HistHandle, HistOther, Next, Handle, allVars
<1> QED
  BY <1>1, <1>2, PTL DEF HistSpec, Spec

(* What Run takes from its channel changes reported for one pair only.     *)
LEMMA ReceiveReports ==
  ASSUME HistTypeOK, NEW e \in Events, reported' = ReportOf(e)
  PROVE  /\ HistTypeOK'
         /\ e.type = On => e.det \in reported'[e.dev]
         /\ e.type = Off => e.det \notin reported'[e.dev]
         /\ \A t \in Detectors, d \in Devices :
              ~(e.type \in {On, Off} /\ e.det = t /\ e.dev = d)
                => (t \in reported'[d] <=> t \in reported[d])
<1>1. e.dev \in Devices /\ e.det \in Detectors /\ e.type \in {On, Off, Unknown}
  BY DEF Events
<1>2. CASE e.type = On
  <2>1. reported' = [reported EXCEPT ![e.dev] = @ \cup {e.det}]
    BY <1>2 DEF ReportOf
  <2> QED
    BY <1>1, <1>2, <2>1 DEF HistTypeOK
<1>3. CASE e.type = Off
  <2>1. reported' = [reported EXCEPT ![e.dev] = @ \ {e.det}]
    BY <1>3 DEF ReportOf
  <2> QED
    BY <1>1, <1>3, <2>1 DEF HistTypeOK
<1>4. CASE e.type = Unknown
  <2>1. reported' = reported
    BY <1>1, <1>4 DEF ReportOf, HistTypeOK
  <2> QED
    BY <1>1, <1>4, <2>1 DEF HistTypeOK
<1> QED
  BY <1>1, <1>2, <1>3, <1>4

(* Handling an ON or OFF brings active in line with what it says.          *)
LEMMA HandleAgrees ==
  ASSUME TypeOK, pc = "query", DuplicateOn \/ FirstOn \/ StrayOff \/ MatchingOff
  PROVE  /\ pc' # "query"
         /\ cur.type = On \/ cur.type = Off
         /\ cur.type = On => cur.det \in active'[cur.dev]
         /\ cur.type = Off => cur.det \notin active'[cur.dev]
         /\ \A t \in Detectors, d \in Devices :
              ~(cur.det = t /\ cur.dev = d) => (t \in active'[d] <=> t \in active[d])
<1>1. cur.dev \in Devices /\ cur.det \in Detectors
  BY DEF TypeOK, Events
<1>2. pc' \in {"select", "broadcast"}
  BY DEF DuplicateOn, FirstOn, StrayOff, MatchingOff, BackToSelect, ForwardIf
<1>3. CASE DuplicateOn \/ StrayOff
  BY <1>1, <1>2, <1>3 DEF DuplicateOn, StrayOff, Handling, Outstanding
<1>4. CASE FirstOn
  BY <1>1, <1>2, <1>4 DEF FirstOn, Handling, TypeOK
<1>5. CASE MatchingOff
  BY <1>1, <1>2, <1>5 DEF MatchingOff, Handling, TypeOK
<1> QED
  BY <1>3, <1>4, <1>5

LEMMA AgreeStep ==
  TypeOK /\ HistTypeOK /\ AgreeInv /\ [HistNext]_allVars => HistTypeOK' /\ AgreeInv'
<1> SUFFICES ASSUME TypeOK, HistTypeOK, AgreeInv, [HistNext]_allVars
             PROVE  HistTypeOK' /\ AgreeInv'
  OBVIOUS
<1>1. ASSUME NEW e \in Events, HistReceive(e) PROVE HistTypeOK' /\ AgreeInv'
  <2>1. /\ pc = "select" /\ pc' = "query" /\ cur' = e
        /\ active' = active /\ missed' = missed /\ reported' = ReportOf(e)
    BY <1>1 DEF HistReceive, Receive
  <2> QED
    BY <2>1, ReceiveReports DEF AgreeInv, Pending
<1>2. CASE HistSkip
  <2>1. /\ pc = "query" /\ pc' = "select" /\ active' = active /\ reported' = reported
        /\ missed' = IF cur.type = Unknown THEN missed ELSE missed \cup {<<cur.det, cur.dev>>}
    BY <1>2 DEF HistSkip, Skip, BackToSelect
  <2>2. cur.type \in {On, Off, Unknown}
    BY <2>1 DEF TypeOK, Events
  <2>3. ASSUME NEW t \in Detectors, NEW d \in Devices, <<t, d>> \notin missed'
        PROVE  t \in active'[d] <=> t \in reported'[d]
    <3>1. <<t, d>> \notin missed /\ ~Pending(t, d)
      BY <2>1, <2>2, <2>3 DEF Pending
    <3> QED
      BY <2>1, <3>1 DEF AgreeInv
  <2> QED
    BY <2>1, <2>3 DEF AgreeInv, HistTypeOK
<1>3. CASE HistHandle
  <2>1. pc = "query" /\ reported' = reported /\ missed' = missed \ {<<cur.det, cur.dev>>}
    BY <1>3 DEF HistHandle, DuplicateOn, FirstOn, StrayOff, MatchingOff, Handling
  <2>2. DuplicateOn \/ FirstOn \/ StrayOff \/ MatchingOff
    BY <1>3 DEF HistHandle
  <2>3. ASSUME NEW t \in Detectors, NEW d \in Devices, <<t, d>> \notin missed'
        PROVE  t \in active'[d] <=> t \in reported'[d]
    <3>1. CASE cur.det = t /\ cur.dev = d
      BY <2>1, <2>2, <3>1, HandleAgrees DEF AgreeInv
    <3>2. CASE ~(cur.det = t /\ cur.dev = d)
      <4>1. <<t, d>> \notin missed /\ ~Pending(t, d)
        BY <2>1, <2>3, <3>2 DEF Pending
      <4> QED
        BY <2>1, <2>2, <3>2, <4>1, HandleAgrees DEF AgreeInv
    <3> QED
      BY <3>1, <3>2
  <2> QED
    BY <2>1, <2>2, <2>3, HandleAgrees DEF AgreeInv, HistTypeOK
<1>4. CASE UnknownType /\ UNCHANGED histVars
  <2>1. pc' = "select" /\ active' = active /\ ~(\E t, d : Pending(t, d))
    BY <1>4 DEF UnknownType, Handling, BackToSelect, Pending
  <2> QED
    BY <1>4, <2>1 DEF histVars, AgreeInv, HistTypeOK
<1>5. ASSUME reported' = reported, missed' = missed, active' = active,
             \/ pc' = pc /\ cur' = cur
             \/ pc # "query" /\ pc' # "query"
      PROVE  HistTypeOK' /\ AgreeInv'
  <2>1. \A t \in Detectors, d \in Devices : Pending(t, d)' <=> Pending(t, d)
    BY <1>5 DEF Pending
  <2> QED
    BY <1>5, <2>1 DEF AgreeInv, HistTypeOK
<1>6. CASE HistOther /\ ~UnknownType
  <2>1. CASE Start \/ ReturnOnDone \/ ReturnOnClosed \/ Broadcast
    <3>1. /\ reported' = reported /\ missed' = missed /\ active' = active
          /\ pc # "query" /\ pc' # "query"
      BY <1>6, <2>1 DEF HistOther, histVars, Start, ReturnOnDone, ReturnOnClosed, Broadcast, Send, Handoff,
                        AbortBroadcast, EndBroadcast, Broadcasting, BackToSelect
    <3> QED
      BY <1>5, <3>1
  <2>2. CASE \/ \E o \in Outputs : Consume(o)
             \/ Cancel \/ CloseEvents
             \/ \E d \in Devices, kind \in NodeKinds : Replug(d, kind)
    <3>1. /\ reported' = reported /\ missed' = missed /\ active' = active
          /\ pc' = pc /\ cur' = cur
      BY <1>6, <2>2 DEF HistOther, histVars, Consume, Cancel, CloseEvents, Replug
    <3> QED
      BY <1>5, <3>1
  <2> QED
    BY <1>6, <2>1, <2>2 DEF HistOther
<1>7. CASE UNCHANGED allVars
  <2>1. /\ reported' = reported /\ missed' = missed /\ active' = active
        /\ pc' = pc /\ cur' = cur
    BY <1>7 DEF allVars, vars, histVars
  <2> QED
    BY <1>5, <2>1
<1> QED
  BY <1>1, <1>2, <1>3, <1>4, <1>6, <1>7 DEF HistNext, HistOther

(* Whatever detectors report, in whatever order, the coordinator's map     *)
(* agrees with what each of them said last, apart from skipped events, and *)
(* one handled event heals what a skipped one left behind.                 *)
THEOREM ReportsAggregated == HistSpec => []AggregatesReports
<1>1. HistInit => HistTypeOK /\ AgreeInv
  BY DEF HistInit, Init, HistTypeOK, AgreeInv
<1>2. AgreeInv => AggregatesReports
  BY DEF AgreeInv, AggregatesReports, Pending
<1>3. HistSpec => []TypeOK
  BY HistoryOnlyWatches, TypeCorrect
<1> QED
  BY <1>1, <1>2, <1>3, AgreeStep, PTL DEF HistSpec

=============================================================================
