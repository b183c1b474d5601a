-------------------------- MODULE AutolightProofs --------------------------
(***************************************************************************)
(* Proofs about Autolight for every set of cameras, lights and clickers    *)
(* and every capacity of the signal channel.                               *)
(***************************************************************************)
EXTENDS Autolight, SequenceTheorems, TLAPS

USE DEF Recording, Stopped, Other

(* The oldest buffered signal, and what is left when it is taken.          *)
LEMMA TakeSignal ==
  ASSUME sigCh \in Seq(Signals), sigCh # <<>>, sigCh' = Tail(sigCh)
  PROVE  /\ Head(sigCh) \in Signals /\ Head(sigCh) = sigCh[1]
         /\ Head(sigCh).dev \in Cameras /\ Head(sigCh).type \in {Recording, Stopped, Other}
         /\ sigCh' \in Seq(Signals) /\ Len(sigCh) \in Nat /\ Len(sigCh') = Len(sigCh) - 1
         /\ Len(sigCh) >= 1
         /\ \A i \in 1 .. Len(sigCh') : sigCh'[i] = sigCh[i + 1]
<1>1. Head(sigCh) \in Signals /\ Head(sigCh) = sigCh[1] /\ Len(sigCh) \in Nat /\ Len(sigCh) >= 1
  BY EmptySeq, HeadTailProperties
<1> QED
  BY <1>1, HeadTailProperties DEF Signals

(* What is buffered when a signal is added behind the others.              *)
LEMMA AddSignal ==
  ASSUME sigCh \in Seq(Signals), NEW s \in Signals, sigCh' = Append(sigCh, s)
  PROVE  /\ sigCh' \in Seq(Signals) /\ Len(sigCh) \in Nat /\ Len(sigCh') = Len(sigCh) + 1
         /\ sigCh'[Len(sigCh) + 1] = s
         /\ \A i \in 1 .. Len(sigCh) : sigCh'[i] = sigCh[i]
OBVIOUS

(* Every reachable state of the program is of the declared type: the mutex *)
(* has one holder, only the holder has lights to write, and sigCh never    *)
(* exceeds its capacity.                                                   *)
THEOREM TypeCorrect == Spec => []TypeOK
<1> USE CapAssumption, ClickersAssumption DEF Goroutines
<1>1. Init => TypeOK
  <2> SUFFICES ASSUME Init PROVE TypeOK
    OBVIOUS
  <2>1. run = "connecting" /\ mut = "free" /\ status = "unknown" /\ click = [c \in Clickers |-> "idle"]
    BY DEF Init
  <2>2. /\ todo \in [Goroutines -> SUBSET Lights] /\ goal \in [Goroutines -> BOOLEAN]
        /\ \A t \in Goroutines : todo[t] = {}
    BY DEF Init
  <2>3. sigCh \in Seq(Signals) /\ Len(sigCh) <= SigCap
    BY DEF Init
  <2>4. /\ lightOn \in BOOLEAN /\ disabled \in BOOLEAN /\ ctxDone \in BOOLEAN
        /\ closed \in BOOLEAN /\ manual \in {"no", "lit", "dark"}
        /\ late \subseteq Signals /\ announced \subseteq Cameras /\ overtaken \subseteq Cameras
        /\ activeCameras \subseteq Cameras /\ camsOn \subseteq Cameras
        /\ plugged \subseteq Lights /\ shining \subseteq Lights /\ drifted \subseteq Lights
    BY DEF Init
  <2> QED
    BY <2>1, <2>2, <2>3, <2>4 DEF TypeOK
<1>2. TypeOK /\ [Next]_vars => TypeOK'
  <2> SUFFICES ASSUME TypeOK, [Next]_vars PROVE TypeOK'
    OBVIOUS
  <2> USE DEF TypeOK, Clicks, appVars, busVars, lightVars, lockVars
  <2>1. ASSUME SignalOn \/ SignalOff \/ SignalIgnored PROVE TypeOK'
    <3>1. sigCh' \in Seq(Signals) /\ Len(sigCh') <= SigCap
      BY <2>1, TakeSignal DEF SignalOn, SignalOff, SignalIgnored, HandleSignal
    <3>2. activeCameras' \subseteq Cameras
      BY <2>1, TakeSignal DEF SignalOn, SignalOff, SignalIgnored, HandleSignal, WithoutCamera
    <3>3. run = "select" /\ run' \in {"on", "off", "select"}
      BY <2>1 DEF SignalOn, SignalOff, SignalIgnored, HandleSignal
    <3> QED
      BY <2>1, <3>1, <3>2, <3>3 DEF SignalOn, SignalOff, SignalIgnored, HandleSignal
  <2>2. ASSUME HandleCamera PROVE TypeOK'
    <3>0. SetLights("run", run = "on") \/ LeaveLights
      BY <2>2 DEF HandleCamera
    <3>1. todo' \in [Goroutines -> SUBSET Lights] /\ goal' \in [Goroutines -> BOOLEAN]
      BY <3>0 DEF SetLights, LeaveLights
    <3>2. \A t \in Goroutines : todo'[t] # {} => mut' = t
      BY <2>2, <3>0 DEF HandleCamera, SetLights, LeaveLights, Free
    <3>3. lightOn' \in BOOLEAN
      BY <3>0 DEF SetLights, LeaveLights
    <3> QED
      BY <2>2, <3>1, <3>2, <3>3 DEF HandleCamera, Free
  <2>3. ASSUME NEW c \in Clickers, ClickStep(c) PROVE TypeOK'
    <3>1. \E op \in Clicks : Enter(c, op)
      BY <2>3 DEF ClickStep, OnToggleLightClicked, OnEnableClicked, OnAdjustClicked
    <3>2. todo' \in [Goroutines -> SUBSET Lights] /\ goal' \in [Goroutines -> BOOLEAN]
      BY <2>3 DEF ClickStep, OnToggleLightClicked, OnEnableClicked, OnAdjustClicked,
         SetLights, LeaveLights
    <3>3. \A t \in Goroutines : todo'[t] # {} => mut' = t
      BY <2>3, <3>1 DEF ClickStep, OnToggleLightClicked, OnEnableClicked, OnAdjustClicked,
         SetLights, LeaveLights, Enter, Free
    <3>4. lightOn' \in BOOLEAN /\ disabled' \in BOOLEAN /\ manual' \in {"no", "lit", "dark"}
      BY <2>3 DEF ClickStep, OnToggleLightClicked, OnEnableClicked, OnAdjustClicked,
         SetLights, LeaveLights, Wish
    <3>5. click' \in [Clickers -> {"idle", "locked"} \cup Clicks] /\ mut' = c /\ mut = "free"
      BY <3>1 DEF Enter, Free
    <3>6. \A b \in Clickers : click'[b] = "locked" <=> mut' = b
      BY <3>1, <3>5 DEF Enter
    <3>7. UNCHANGED <<run, activeCameras, status, ctxDone, busVars, lightVars>>
      BY <3>1 DEF Enter
    <3> QED
      BY <3>2, <3>3, <3>4, <3>5, <3>6, <3>7
  <2>4. ASSUME NEW t \in Goroutines, Unlock(t) PROVE TypeOK'
    <3>1. mut = t
      BY <2>4 DEF Unlock, Done, Locked
    <3>2. \A u \in Goroutines : todo[u] = {}
      BY <2>4, <3>1 DEF Unlock, Done
    <3> QED
      BY <2>4, <3>1, <3>2 DEF Unlock, Done, Locked
  <2>5. ASSUME NEW t \in Goroutines, NEW l \in Lights, WriteLight(t, l) \/ WriteFails(t, l)
        PROVE TypeOK'
    <3>1. Written(t, l) /\ shining' \subseteq Lights /\ drifted' \subseteq Lights
      BY <2>5 DEF WriteLight, WriteFails
    <3> QED
      BY <3>1 DEF Written
  <2>6. ASSUME NEW c \in Clickers, NEW op \in Clicks, Click(c, op) PROVE TypeOK'
    BY <2>6 DEF Click
  <2>e. CASE RunEnd
    <3>1. run \in {"connecting", "select"} /\ run' \in {"select", "returned"}
      BY <2>e DEF RunEnd, ReturnOnDone, ReturnOnClosed, Connect, ConnectFails, Connected
    <3>2. UNCHANGED <<click, mut, todo, goal, appVars, ctxDone, busVars, lightVars, manual>>
      BY <2>e DEF RunEnd, ReturnOnDone, ReturnOnClosed, Connect, ConnectFails, Connected
    <3> QED
      BY <3>1, <3>2
  <2>7. CASE Quit \/ LoseBus
    <3>1. UNCHANGED <<lockVars, appVars, lightVars, manual, sigCh, camsOn, announced, overtaken>>
      BY <2>7 DEF Quit, LoseBus
    <3>2. late' \subseteq Signals /\ closed' \in BOOLEAN /\ ctxDone' \in BOOLEAN
      BY <2>7 DEF Quit, LoseBus
    <3> QED
      BY <3>1, <3>2
  <2>8. ASSUME NEW s \in Signals, LateArrival(s) PROVE TypeOK'
    <3>1. sigCh' \in Seq(Signals) /\ Len(sigCh') <= SigCap
      BY <2>8, AddSignal DEF LateArrival
    <3> QED
      BY <2>8, <3>1 DEF LateArrival
  <2>u. ASSUME NEW d \in Cameras, NEW type \in {Recording, Stopped}, Unheard(type, d)
        PROVE  TypeOK'
    BY <2>u DEF Unheard, Change
  <2>9. ASSUME NEW d \in Cameras, NEW type \in {Recording, Stopped},
               Announce(type, d) \/ OddSignal(d)
        PROVE  TypeOK'
    <3>1. \E s \in Signals : \/ sigCh' = Append(sigCh, s) /\ Len(sigCh) < SigCap /\ late' = late
                             \/ sigCh' = sigCh /\ late' = late \cup {s}
      BY <2>9 DEF Announce, OddSignal, Queue, Signals
    <3>2. sigCh' \in Seq(Signals) /\ Len(sigCh') <= SigCap /\ late' \subseteq Signals
      BY <3>1, AddSignal
    <3>3. camsOn' \subseteq Cameras /\ announced' \subseteq Cameras /\ overtaken' \subseteq Cameras
      BY <2>9 DEF Announce, OddSignal, Change, Overtake
    <3> QED
      BY <2>9, <3>2, <3>3 DEF Announce, OddSignal
  <2>10. ASSUME NEW l \in Lights, Press(l) \/ PlugIn(l) \/ Unplug(l) PROVE TypeOK'
    BY <2>10 DEF Press, PlugIn, Unplug, Drift
  <2>11. CASE UNCHANGED vars
    BY <2>11 DEF vars
  <2> QED
    BY <2>1, <2>2, <2>3, <2>4, <2>5, <2>6, <2>7, <2>8, <2>9, <2>10, <2>11, <2>u, <2>e
       DEF Next, RunStep, LightStep
<1> QED
  BY <1>1, <1>2, PTL DEF Spec

-----------------------------------------------------------------------------
(* Every light that nothing else changed is as lightOn says, or the holder *)
(* of the mutex still has to write it, and will write lightOn.             *)
LightsInv ==
  /\ \A t \in Goroutines : todo[t] # {} => goal[t] = lightOn
  /\ \A l \in plugged \ drifted :
       (l \in shining <=> lightOn) \/ \E t \in Goroutines : l \in todo[t]

(* A click and a camera signal at the same time never leave a mix of lit   *)
(* and dark lights behind, for any number of lights and clicks.            *)
THEOREM NoMixedLights == Spec => []LightsAgree
<1> USE CapAssumption, ClickersAssumption DEF Goroutines
<1>1. Init => LightsInv
  BY DEF Init, LightsInv
<1>2. TypeOK /\ LightsInv /\ [Next]_vars => LightsInv'
  <2> SUFFICES ASSUME TypeOK, LightsInv, [Next]_vars PROVE LightsInv'
    OBVIOUS
  <2> USE DEF LightsInv, appVars, busVars, lightVars, lockVars
  <2>t. /\ todo \in [Goroutines -> SUBSET Lights] /\ goal \in [Goroutines -> BOOLEAN]
        /\ \A t \in Goroutines : todo[t] # {} => mut = t
        /\ plugged \subseteq Lights /\ lightOn \in BOOLEAN
        /\ run = "locked" <=> mut = "run"
        /\ \A c \in Clickers : click[c] = "locked" <=> mut = c
    BY DEF TypeOK
  <2>1. CASE SignalOn \/ SignalOff \/ SignalIgnored
    BY <2>1 DEF SignalOn, SignalOff, SignalIgnored, HandleSignal
  <2>s. ASSUME NEW t \in Goroutines, NEW on \in BOOLEAN, Free, SetLights(t, on),
               UNCHANGED lightVars
        PROVE  LightsInv'
    BY <2>s, <2>t DEF SetLights, Free
  <2>2. CASE HandleCamera
    <3>1. CASE disabled
      BY <2>2, <3>1 DEF HandleCamera, LeaveLights
    <3>2. CASE ~disabled
      BY <2>2, <3>2, <2>s DEF HandleCamera
    <3> QED
      BY <3>1, <3>2
  <2>3. ASSUME NEW c \in Clickers, ClickStep(c) PROVE LightsInv'
    <3>1. CASE OnToggleLightClicked(c)
      BY <3>1, <2>s, <2>t DEF OnToggleLightClicked, Enter
    <3>2. CASE OnEnableClicked(c) \/ OnAdjustClicked(c)
      BY <3>2 DEF OnEnableClicked, OnAdjustClicked, Enter, LeaveLights
    <3> QED
      BY <2>3, <3>1, <3>2 DEF ClickStep
  <2>4. ASSUME NEW t \in Goroutines, Unlock(t) PROVE LightsInv'
    BY <2>4, <2>t DEF Unlock, Done
  <2>5. ASSUME NEW t \in Goroutines, NEW l \in Lights, WriteLight(t, l) \/ WriteFails(t, l)
        PROVE LightsInv'
    <3>1. goal[t] = lightOn /\ l \in todo[t] /\ UNCHANGED <<goal, lightOn, plugged>>
          /\ todo' = [todo EXCEPT ![t] = @ \ {l}]
      BY <2>5 DEF WriteLight, WriteFails, Written
    <3>2. \A k \in Lights \ {l} : (k \in shining' <=> k \in shining)
                                  /\ (k \in drifted' <=> k \in drifted)
      BY <2>5 DEF WriteLight, WriteFails
    <3>3. l \in drifted' \/ (l \in shining' <=> lightOn)
      BY <2>5, <3>1 DEF WriteLight, WriteFails
    <3>4. \A u \in Goroutines : todo'[u] # {} => goal'[u] = lightOn'
      BY <3>1, <2>t
    <3>5. ASSUME NEW k \in plugged' \ drifted', ~(k \in shining' <=> lightOn')
          PROVE  \E u \in Goroutines : k \in todo'[u]
      <4>1. k # l /\ k \in Lights
        BY <3>1, <3>3, <3>5, <2>t
      <4>2. PICK u \in Goroutines : k \in todo[u]
        BY <4>1, <3>1, <3>2, <3>5
      <4> QED
        BY <4>1, <4>2, <3>1, <2>t
    <3> QED
      BY <3>4, <3>5
  <2>6. ASSUME NEW c \in Clickers, NEW op \in Clicks, Click(c, op) PROVE LightsInv'
    BY <2>6 DEF Click
  <2>7. CASE RunEnd \/ Quit \/ LoseBus
    BY <2>7 DEF RunEnd, ReturnOnDone, ReturnOnClosed, Connect, ConnectFails, Connected,
       Quit, LoseBus
  <2>8. ASSUME NEW s \in Signals, LateArrival(s) PROVE LightsInv'
    BY <2>8 DEF LateArrival
  <2>9. ASSUME NEW d \in Cameras, NEW type \in {Recording, Stopped},
               Announce(type, d) \/ Unheard(type, d) \/ OddSignal(d)
        PROVE  LightsInv'
    BY <2>9 DEF Announce, Unheard, OddSignal
  <2>10. ASSUME NEW l \in Lights, Press(l) \/ PlugIn(l) \/ Unplug(l) PROVE LightsInv'
    BY <2>10 DEF Press, PlugIn, Unplug, Drift
  <2>11. CASE UNCHANGED vars
    BY <2>11 DEF vars
  <2> QED
    BY <2>1, <2>2, <2>3, <2>4, <2>5, <2>6, <2>7, <2>8, <2>9, <2>10, <2>11
       DEF Next, RunStep, LightStep
<1>3. TypeOK /\ LightsInv => LightsAgree
  BY DEF TypeOK, LightsInv, LightsAgree, Free
<1> QED
  BY <1>1, <1>2, <1>3, TypeCorrect, PTL DEF Spec

-----------------------------------------------------------------------------
(* Run is about to show "on" only with an active camera and "off" only     *)
(* without one; otherwise the status it has shown still holds.             *)
StatusInv ==
  /\ run = "on" => activeCameras # {}
  /\ run = "off" => activeCameras = {}
  /\ run = "connecting" => status = "unknown"
  /\ run \in {"select", "locked", "returned"} /\ status # "unknown" =>
       (status = "on" <=> activeCameras # {})

(* The status Run shows fits the cameras it holds active.                  *)
LEMMA StatusInvariant == Spec => []StatusInv
<1> USE CapAssumption, ClickersAssumption DEF Goroutines
<1>1. Init => StatusInv
  BY DEF Init, StatusInv
<1>2. TypeOK /\ StatusInv /\ [Next]_vars => StatusInv'
  <2> SUFFICES ASSUME TypeOK, StatusInv, [Next]_vars PROVE StatusInv'
    OBVIOUS
  <2> USE DEF StatusInv, appVars, busVars, lightVars, lockVars
  <2>1. CASE SignalOn
    BY <2>1 DEF SignalOn, HandleSignal
  <2>2. CASE SignalOff
    BY <2>2 DEF SignalOff, HandleSignal, WithoutCamera
  <2>3. CASE SignalIgnored
    BY <2>3 DEF SignalIgnored, HandleSignal
  <2>4. CASE HandleCamera
    BY <2>4 DEF HandleCamera
  <2>5. ASSUME NEW c \in Clickers, ClickStep(c) PROVE StatusInv'
    BY <2>5 DEF ClickStep, OnToggleLightClicked, OnEnableClicked, OnAdjustClicked, Enter
  <2>6. ASSUME NEW t \in Goroutines, LightStep(t) PROVE StatusInv'
    <3>1. UNCHANGED <<status, activeCameras>>
      BY <2>6 DEF LightStep, Unlock, Done, WriteLight, WriteFails, Written
    <3>2. run' = run \/ (run = "locked" /\ run' = "select")
      BY <2>6 DEF LightStep, Unlock, Done, Locked, WriteLight, WriteFails, Written
    <3> QED
      BY <3>1, <3>2
  <2>7. ASSUME NEW c \in Clickers, NEW op \in Clicks, Click(c, op) PROVE StatusInv'
    BY <2>7 DEF Click
  <2>8. CASE RunEnd \/ Quit \/ LoseBus
    BY <2>8 DEF RunEnd, ReturnOnDone, ReturnOnClosed, Connect, ConnectFails, Connected,
       Quit, LoseBus
  <2>9. ASSUME NEW s \in Signals, LateArrival(s) PROVE StatusInv'
    BY <2>9 DEF LateArrival
  <2>10. ASSUME NEW d \in Cameras, NEW type \in {Recording, Stopped},
               Announce(type, d) \/ Unheard(type, d) \/ OddSignal(d)
        PROVE  StatusInv'
    BY <2>10 DEF Announce, Unheard, OddSignal
  <2>11. ASSUME NEW l \in Lights, Press(l) \/ PlugIn(l) \/ Unplug(l) PROVE StatusInv'
    BY <2>11 DEF Press, PlugIn, Unplug, Drift
  <2>12. CASE UNCHANGED vars
    BY <2>12 DEF vars
  <2> QED
    BY <2>1, <2>2, <2>3, <2>4, <2>5, <2>6, <2>7, <2>8, <2>9, <2>10, <2>11, <2>12
       DEF Next, RunStep
<1> QED
  BY <1>1, <1>2, TypeCorrect, PTL DEF Spec

(* Between two signals the tray says "on" exactly when a camera is active. *)
THEOREM StatusCorrect == Spec => []StatusMatchesCameras
<1>1. StatusInv => StatusMatchesCameras
  BY DEF StatusInv, StatusMatchesCameras
<1> QED
  BY <1>1, StatusInvariant, PTL

-----------------------------------------------------------------------------
(* Buffered signal i is the last about device d, and says what the daemon  *)
(* announced last.                                                         *)
LastAbout(d, i) ==
  /\ sigCh[i].dev = d
  /\ sigCh[i].type = IF d \in camsOn THEN Recording ELSE Stopped
  /\ \A j \in 1 .. Len(sigCh) : j > i /\ sigCh[j].dev = d => sigCh[j].type = Other
Unmentioned(d) == \A i \in 1 .. Len(sigCh) : sigCh[i].dev = d => sigCh[i].type = Other

(* A device's last announcement is still buffered or has been handled.     *)
Tracked(d) ==
  \/ \E i \in 1 .. Len(sigCh) : LastAbout(d, i)
  \/ Unmentioned(d) /\ (d \in activeCameras <=> d \in camsOn)

(* The last announcement of a device.  If it was not overtaken it is the   *)
(* only one about the device that godbus may still hold back.              *)
News(d) == [type |-> IF d \in camsOn THEN Recording ELSE Stopped, dev |-> d]
InOrder(d) ==
  /\ \A s \in late : s.dev = d => s = News(d)
  /\ News(d) \in late \/ Tracked(d)
TrackInv ==
  /\ run = "connecting" => announced = {}
  /\ ~closed /\ run # "returned" => \A d \in announced \ overtaken : InOrder(d)

(* Handling the oldest signal keeps every device tracked.                  *)
LEMMA HandlingTracks ==
  ASSUME TypeOK, SignalOn \/ SignalOff \/ SignalIgnored, NEW d \in Cameras, Tracked(d)
  PROVE  Tracked(d)'
<1> DEFINE h == Head(sigCh)
<1>1. /\ sigCh # <<>> /\ sigCh' = Tail(sigCh) /\ UNCHANGED camsOn
      /\ activeCameras' = IF h.type = Recording THEN activeCameras \cup {h.dev}
                          ELSE IF h.type = Stopped THEN activeCameras \ {h.dev}
                          ELSE activeCameras
  BY DEF SignalOn, SignalOff, SignalIgnored, HandleSignal, WithoutCamera
<1>2. sigCh \in Seq(Signals)
  BY DEF TypeOK
<1>3. /\ h = sigCh[1] /\ h.type \in {Recording, Stopped, Other}
      /\ Len(sigCh) \in Nat /\ Len(sigCh) >= 1 /\ Len(sigCh') = Len(sigCh) - 1
      /\ \A i \in 1 .. Len(sigCh') : sigCh'[i] = sigCh[i + 1]
  BY <1>1, <1>2, TakeSignal
<1> HIDE DEF h
<1>4. CASE \E i \in 1 .. Len(sigCh) : LastAbout(d, i)
  <2>1. PICK i \in 1 .. Len(sigCh) : LastAbout(d, i)
    BY <1>4
  <2>2. CASE i = 1
    <3>1. Unmentioned(d)'
      <4> SUFFICES ASSUME NEW j \in 1 .. Len(sigCh'), sigCh'[j].dev = d
                   PROVE  sigCh'[j].type = Other
        BY DEF Unmentioned
      <4>1. sigCh'[j] = sigCh[j + 1] /\ j + 1 \in 1 .. Len(sigCh) /\ j + 1 > i
        BY <1>3, <2>2
      <4> QED
        BY <2>1, <4>1 DEF LastAbout
    <3>2. (d \in activeCameras <=> d \in camsOn)'
      BY <1>1, <1>3, <2>1, <2>2 DEF LastAbout
    <3> QED
      BY <3>1, <3>2 DEF Tracked
  <2>3. CASE i # 1
    <3>1. i - 1 \in 1 .. Len(sigCh') /\ sigCh'[i - 1] = sigCh[i]
      BY <1>3, <2>3
    <3>2. LastAbout(d, i - 1)'
      BY <1>1, <1>3, <2>1, <3>1 DEF LastAbout
    <3> QED
      BY <3>1, <3>2 DEF Tracked
  <2> QED
    BY <2>2, <2>3
<1>5. CASE Unmentioned(d) /\ (d \in activeCameras <=> d \in camsOn)
  <2>1. Unmentioned(d)'
    BY <1>3, <1>5 DEF Unmentioned
  <2>2. h.dev = d => h.type = Other
    BY <1>3, <1>5 DEF Unmentioned
  <2>3. (d \in activeCameras <=> d \in camsOn)'
    BY <1>1, <1>5, <2>2
  <2> QED
    BY <2>1, <2>3 DEF Tracked
<1> QED
  BY <1>4, <1>5 DEF Tracked

(* So does a signal about another device, or of another type, that arrives.*)
LEMMA ArrivalTracks ==
  ASSUME sigCh \in Seq(Signals), NEW s \in Signals, sigCh' = Append(sigCh, s),
         NEW d \in Cameras, s.dev = d => s.type = Other,
         d \in camsOn' <=> d \in camsOn, UNCHANGED activeCameras, Tracked(d)
  PROVE  Tracked(d)'
<1>1. /\ Len(sigCh) \in Nat /\ Len(sigCh') = Len(sigCh) + 1 /\ sigCh'[Len(sigCh) + 1] = s
      /\ \A i \in 1 .. Len(sigCh) : sigCh'[i] = sigCh[i]
  BY AddSignal
<1>2. \A i \in 1 .. Len(sigCh') : i \in 1 .. Len(sigCh) \/ i = Len(sigCh) + 1
  BY <1>1
<1>3. ASSUME NEW i \in 1 .. Len(sigCh), LastAbout(d, i) PROVE LastAbout(d, i)'
  BY <1>1, <1>2, <1>3 DEF LastAbout
<1>4. Unmentioned(d) => Unmentioned(d)'
  BY <1>1, <1>2 DEF Unmentioned
<1>5. \A i \in 1 .. Len(sigCh) : i \in 1 .. Len(sigCh')
  BY <1>1
<1> QED
  BY <1>3, <1>4, <1>5 DEF Tracked

(* And a device's last announcement, once it arrives, is tracked.          *)
LEMMA NewsArrives ==
  ASSUME sigCh \in Seq(Signals), NEW d \in Cameras, sigCh' = Append(sigCh, News(d)')
  PROVE  Tracked(d)'
<1>1. News(d)' \in Signals
  BY DEF News, Signals
<1>2. /\ Len(sigCh) \in Nat /\ Len(sigCh') = Len(sigCh) + 1
      /\ sigCh'[Len(sigCh) + 1] = News(d)'
  BY <1>1, AddSignal
<1>3. sigCh'[Len(sigCh')] = News(d)' /\ Len(sigCh') \in 1 .. Len(sigCh')
  BY <1>2
<1>4. LastAbout(d, Len(sigCh))'
  BY <1>3 DEF LastAbout, News
<1> QED
  BY <1>3, <1>4 DEF Tracked

(* Every device whose last announcement was not overtaken by an older one  *)
(* has it held back, buffered behind all others about it, or handled.      *)
LEMMA TrackInvariant == Spec => []TrackInv
<1>1. Init => TrackInv
  BY DEF Init, TrackInv
<1>2. TypeOK /\ TrackInv /\ [Next]_vars => TrackInv'
  <2> SUFFICES ASSUME TypeOK, TrackInv, [Next]_vars PROVE TrackInv'
    OBVIOUS
  <2>t. sigCh \in Seq(Signals) /\ announced \subseteq Cameras /\ camsOn \subseteq Cameras
    BY DEF TypeOK
  <2> USE DEF appVars, busVars, lightVars, lockVars
  <2>s. ASSUME UNCHANGED <<sigCh, closed, late, camsOn, announced, overtaken, activeCameras>>,
               run' = "connecting" => run = "connecting", run = "returned" => run' = "returned"
        PROVE  TrackInv'
    BY <2>s DEF TrackInv, InOrder, News, Tracked, Unmentioned, LastAbout
  <2>1. CASE SignalOn \/ SignalOff \/ SignalIgnored
    <3>1. /\ UNCHANGED <<closed, late, camsOn, announced, overtaken>>
          /\ run = "select" /\ run' # "connecting"
      BY <2>1 DEF SignalOn, SignalOff, SignalIgnored, HandleSignal
    <3>2. \A d \in Cameras : Tracked(d) => Tracked(d)'
      BY <2>1, HandlingTracks
    <3>3. \A d \in Cameras : InOrder(d) => InOrder(d)'
      BY <3>1, <3>2 DEF InOrder, News
    <3> QED
      BY <3>1, <3>3, <2>t DEF TrackInv
  <2>2. CASE HandleCamera
    BY <2>2, <2>s DEF HandleCamera
  <2>3. ASSUME NEW c \in Clickers, ClickStep(c) PROVE TrackInv'
    BY <2>3, <2>s DEF ClickStep, OnToggleLightClicked, OnEnableClicked, OnAdjustClicked, Enter
  <2>4. ASSUME NEW t \in Goroutines, LightStep(t) PROVE TrackInv'
    <3>1. UNCHANGED <<sigCh, closed, late, camsOn, announced, overtaken, activeCameras>>
      BY <2>4 DEF LightStep, Unlock, Done, WriteLight, WriteFails, Written
    <3>2. (run' = "connecting" => run = "connecting") /\ (run = "returned" => run' = "returned")
      BY <2>4 DEF LightStep, Unlock, Done, Locked, WriteLight, WriteFails, Written
    <3> QED
      BY <3>1, <3>2, <2>s
  <2>5. ASSUME NEW c \in Clickers, NEW op \in Clicks, Click(c, op) PROVE TrackInv'
    BY <2>5, <2>s DEF Click
  <2>6. CASE RunEnd \/ Quit
    BY <2>6, <2>s DEF RunEnd, ReturnOnDone, ReturnOnClosed, Connect, ConnectFails, Connected, Quit
  <2>l. CASE LoseBus
    BY <2>l DEF LoseBus, Listening, TrackInv
  <2>7. ASSUME NEW s \in Signals, LateArrival(s) PROVE TrackInv'
    <3>1. /\ s \in late /\ sigCh' = Append(sigCh, s) /\ late' = late \ {s}
          /\ UNCHANGED <<run, closed, camsOn, announced, overtaken, activeCameras>>
      BY <2>7 DEF LateArrival
    <3>2. ASSUME NEW d \in Cameras, InOrder(d), s.dev = d PROVE InOrder(d)'
      <4>1. s = News(d)' /\ \A r \in late' : r.dev # d
        BY <3>1, <3>2 DEF InOrder, News
      <4>2. Tracked(d)'
        BY <3>1, <4>1, <2>t, NewsArrives
      <4> QED
        BY <4>1, <4>2 DEF InOrder
    <3>3. ASSUME NEW d \in Cameras, InOrder(d), s.dev # d PROVE InOrder(d)'
      <4>1. Tracked(d) => Tracked(d)'
        BY <3>1, <3>3, <2>t, ArrivalTracks
      <4>2. News(d)' = News(d) /\ News(d) # s
        BY <3>1, <3>3 DEF News
      <4> QED
        BY <3>1, <3>3, <4>1, <4>2 DEF InOrder
    <3> QED
      BY <3>1, <3>2, <3>3, <2>t DEF TrackInv
  <2>u. ASSUME NEW e \in Cameras, NEW type \in {Recording, Stopped}, Unheard(type, e)
        PROVE  TrackInv'
    <3>1. UNCHANGED <<sigCh, run, closed, late, announced, overtaken>>
      BY <2>u DEF Unheard
    <3>2. run = "connecting" \/ run = "returned" \/ closed
      BY <2>u DEF Unheard, Listening
    <3> QED
      BY <3>1, <3>2 DEF TrackInv
  <2>8. ASSUME NEW e \in Cameras, NEW type \in {Recording, Stopped}, Announce(type, e)
        PROVE  TrackInv'
    <3> DEFINE s == [type |-> type, dev |-> e]
    <3>1. s \in Signals /\ s.dev = e
      BY DEF Signals
    <3>2. /\ UNCHANGED <<run, closed, activeCameras>> /\ run # "connecting"
          /\ announced' = announced \cup {e}
      BY <2>8 DEF Announce, Listening
    <3>3. \/ sigCh' = Append(sigCh, s) /\ late' = late
          \/ sigCh' = sigCh /\ late' = late \cup {s}
      BY <2>8 DEF Announce, Queue
    <3>4. s = News(e)'
      BY <2>8 DEF Announce, Change, News
    <3>5. \A d \in Cameras \ {e} : (d \in camsOn' <=> d \in camsOn) /\ News(d)' = News(d)
      BY <2>8 DEF Announce, Change, News
    <3>6. /\ \A d \in Cameras \ {e} : d \in overtaken' <=> d \in overtaken
          /\ e \notin overtaken' => \A r \in late : r.dev # e
      BY <2>8 DEF Announce, Overtake
    <3> HIDE DEF s
    <3>7. ASSUME NEW d \in Cameras \ {e}, InOrder(d) PROVE InOrder(d)'
      <4>1. Tracked(d) => Tracked(d)'
        <5>1. CASE sigCh' = Append(sigCh, s)
          BY <3>1, <3>2, <3>5, <5>1, <2>t, ArrivalTracks
        <5>2. CASE sigCh' = sigCh
          BY <3>2, <3>5, <5>2 DEF Tracked, LastAbout, Unmentioned
        <5> QED
          BY <3>3, <5>1, <5>2
      <4>2. \A r \in late' : r.dev = d => r \in late
        BY <3>1, <3>3
      <4> QED
        BY <3>3, <3>5, <3>7, <4>1, <4>2 DEF InOrder
    <3>8. ASSUME e \notin overtaken' PROVE InOrder(e)'
      <4>1. CASE sigCh' = Append(sigCh, s) /\ late' = late
        <5>1. Tracked(e)'
          BY <3>4, <4>1, <2>t, NewsArrives
        <5> QED
          BY <3>6, <3>8, <4>1, <5>1 DEF InOrder
      <4>2. CASE late' = late \cup {s}
        BY <3>4, <3>6, <3>8, <4>2 DEF InOrder
      <4> QED
        BY <3>3, <4>1, <4>2
    <3> QED
      BY <3>2, <3>6, <3>7, <3>8, <2>t DEF TrackInv
  <2>9. ASSUME NEW e \in Cameras, OddSignal(e) PROVE TrackInv'
    <3> DEFINE s == [type |-> Other, dev |-> e]
    <3>1. s \in Signals /\ s.type = Other /\ sigCh' = Append(sigCh, s)
      BY <2>9 DEF OddSignal, Signals
    <3>2. UNCHANGED <<run, closed, late, camsOn, announced, overtaken, activeCameras>>
      BY <2>9 DEF OddSignal
    <3> HIDE DEF s
    <3>3. \A d \in Cameras : Tracked(d) => Tracked(d)'
      BY <3>1, <3>2, <2>t, ArrivalTracks
    <3>4. \A d \in Cameras : InOrder(d) => InOrder(d)'
      BY <3>2, <3>3 DEF InOrder, News
    <3> QED
      BY <3>2, <3>4, <2>t DEF TrackInv
  <2>10. ASSUME NEW l \in Lights, Press(l) \/ PlugIn(l) \/ Unplug(l) PROVE TrackInv'
    BY <2>10, <2>s DEF Press, PlugIn, Unplug, Drift
  <2>11. CASE UNCHANGED vars
    BY <2>11, <2>s DEF vars
  <2> QED
    BY <2>1, <2>2, <2>3, <2>4, <2>5, <2>6, <2>7, <2>8, <2>9, <2>10, <2>11, <2>u, <2>l DEF Next, RunStep
<1> QED
  BY <1>1, <1>2, TypeCorrect, PTL DEF Spec

(* When every signal is handled, a camera is active exactly when the       *)
(* daemon last announced it as on, also one whose signal was held back,    *)
(* unless its last signal was sent while an older one of it was held back. *)
THEOREM ActiveCorrect == Spec => []CamerasTrackDaemon
<1>1. TrackInv => CamerasTrackDaemon
  <2> SUFFICES ASSUME TrackInv, Settled, NEW d \in announced \ overtaken
               PROVE  d \in activeCameras <=> d \in camsOn
    BY DEF CamerasTrackDaemon
  <2>1. Tracked(d) /\ Len(sigCh) = 0
    BY DEF TrackInv, InOrder, Settled
  <2> QED
    BY <2>1 DEF Tracked
<1> QED
  BY <1>1, TrackInvariant, PTL

-----------------------------------------------------------------------------
(* Only announced cameras are active or have a signal under way.           *)
HeardInv ==
  /\ activeCameras \subseteq announced
  /\ \A i \in 1 .. Len(sigCh) : sigCh[i].type # Other => sigCh[i].dev \in announced
  /\ \A s \in late : s.dev \in announced

(* lightOn is what the user wants, or what the active cameras call for     *)
(* once Run has handled their last signal.                                 *)
WishInv ==
  /\ disabled => manual # "no"
  /\ manual # "no" => (lightOn <=> manual = "lit")
  /\ manual = "no" /\ run \in {"connecting", "select", "locked"} =>
       (lightOn <=> activeCameras # {})

(* A step that leaves the cameras and the signals alone keeps HeardInv, an *)
(* arriving signal of an announced camera, too.                            *)
LEMMA ArrivalHeard ==
  ASSUME TypeOK, HeardInv, NEW s \in Signals, sigCh' = Append(sigCh, s),
         announced \subseteq announced', s.type # Other => s.dev \in announced',
         late' \subseteq late, UNCHANGED activeCameras
  PROVE  HeardInv'
<1>1. /\ sigCh \in Seq(Signals) /\ Len(sigCh) \in Nat /\ Len(sigCh') = Len(sigCh) + 1
      /\ sigCh'[Len(sigCh) + 1] = s /\ \A i \in 1 .. Len(sigCh) : sigCh'[i] = sigCh[i]
  BY AddSignal DEF TypeOK
<1>2. \A i \in 1 .. Len(sigCh') : i \in 1 .. Len(sigCh) \/ i = Len(sigCh) + 1
  BY <1>1
<1> QED
  BY <1>1, <1>2 DEF HeardInv

(* Every active camera has been announced.                                 *)
LEMMA HeardInvariant == Spec => []HeardInv
<1>1. Init => HeardInv
  BY DEF Init, HeardInv
<1>2. TypeOK /\ HeardInv /\ [Next]_vars => HeardInv'
  <2> SUFFICES ASSUME TypeOK, HeardInv, [Next]_vars PROVE HeardInv'
    OBVIOUS
  <2> USE DEF appVars, busVars, lightVars, lockVars
  <2>s. ASSUME UNCHANGED <<sigCh, late, announced, activeCameras>> PROVE HeardInv'
    BY <2>s DEF HeardInv
  <2>1. CASE SignalOn \/ SignalOff \/ SignalIgnored
    <3>1. /\ sigCh' = Tail(sigCh) /\ sigCh # <<>> /\ UNCHANGED <<late, announced>>
          /\ activeCameras' \subseteq activeCameras
             \/ (activeCameras' = activeCameras \cup {Head(sigCh).dev}
                 /\ Head(sigCh).type = Recording)
      BY <2>1 DEF SignalOn, SignalOff, SignalIgnored, HandleSignal, WithoutCamera
    <3>2. /\ Head(sigCh) = sigCh[1] /\ Len(sigCh) \in Nat /\ Len(sigCh) >= 1
          /\ Len(sigCh') = Len(sigCh) - 1
          /\ \A i \in 1 .. Len(sigCh') : sigCh'[i] = sigCh[i + 1]
      BY <3>1, TakeSignal DEF TypeOK
    <3>3. activeCameras' \subseteq announced'
      BY <3>1, <3>2 DEF HeardInv
    <3>4. \A i \in 1 .. Len(sigCh') : i + 1 \in 1 .. Len(sigCh)
      BY <3>2
    <3> QED
      BY <3>1, <3>2, <3>3, <3>4 DEF HeardInv
  <2>2. CASE HandleCamera
    BY <2>2, <2>s DEF HandleCamera
  <2>3. ASSUME NEW c \in Clickers, ClickStep(c) PROVE HeardInv'
    BY <2>3, <2>s DEF ClickStep, OnToggleLightClicked, OnEnableClicked, OnAdjustClicked, Enter
  <2>4. ASSUME NEW t \in Goroutines, LightStep(t) PROVE HeardInv'
    BY <2>4, <2>s DEF LightStep, Unlock, Done, WriteLight, WriteFails, Written
  <2>5. ASSUME NEW c \in Clickers, NEW op \in Clicks, Click(c, op) PROVE HeardInv'
    BY <2>5, <2>s DEF Click
  <2>6. CASE RunEnd \/ Quit
    BY <2>6, <2>s DEF RunEnd, ReturnOnDone, ReturnOnClosed, Connect, ConnectFails, Connected, Quit
  <2>7. CASE LoseBus
    BY <2>7 DEF LoseBus, HeardInv
  <2>8. ASSUME NEW s \in Signals, LateArrival(s) PROVE HeardInv'
    BY <2>8, ArrivalHeard DEF LateArrival, HeardInv
  <2>9. ASSUME NEW d \in Cameras, NEW type \in {Recording, Stopped}, Announce(type, d)
        PROVE  HeardInv'
    <3> DEFINE s == [type |-> type, dev |-> d]
    <3>1. s \in Signals /\ s.dev = d
      BY DEF Signals
    <3>2. announced' = announced \cup {d} /\ UNCHANGED activeCameras
      BY <2>9 DEF Announce
    <3>3. \/ sigCh' = Append(sigCh, s) /\ late' = late
          \/ sigCh' = sigCh /\ late' = late \cup {s}
      BY <2>9 DEF Announce, Queue
    <3> HIDE DEF s
    <3>4. CASE sigCh' = Append(sigCh, s) /\ late' = late
      BY <3>1, <3>2, <3>4, ArrivalHeard
    <3>5. CASE sigCh' = sigCh /\ late' = late \cup {s}
      BY <3>1, <3>2, <3>5 DEF HeardInv
    <3> QED
      BY <3>3, <3>4, <3>5
  <2>10. ASSUME NEW d \in Cameras, NEW type \in {Recording, Stopped}, Unheard(type, d)
         PROVE  HeardInv'
    BY <2>10, <2>s DEF Unheard
  <2>11. ASSUME NEW d \in Cameras, OddSignal(d) PROVE HeardInv'
    <3> DEFINE s == [type |-> Other, dev |-> d]
    <3>1. s \in Signals /\ s.type = Other /\ sigCh' = Append(sigCh, s)
      BY <2>11 DEF OddSignal, Signals
    <3>2. UNCHANGED <<late, announced, activeCameras>>
      BY <2>11 DEF OddSignal
    <3> HIDE DEF s
    <3> QED
      BY <3>1, <3>2, ArrivalHeard
  <2>12. ASSUME NEW l \in Lights, Press(l) \/ PlugIn(l) \/ Unplug(l) PROVE HeardInv'
    BY <2>12, <2>s DEF Press, PlugIn, Unplug, Drift
  <2>13. CASE UNCHANGED vars
    BY <2>13, <2>s DEF vars
  <2> QED
    BY <2>1, <2>2, <2>3, <2>4, <2>5, <2>6, <2>7, <2>8, <2>9, <2>10, <2>11, <2>12, <2>13
       DEF Next, RunStep
<1> QED
  BY <1>1, <1>2, TypeCorrect, PTL DEF Spec

(* lightOn is kept as the user or the active cameras want it.              *)
LEMMA WishInvariant == Spec => []WishInv
<1>1. Init => WishInv
  BY DEF Init, WishInv
<1>2. TypeOK /\ StatusInv /\ WishInv /\ [Next]_vars => WishInv'
  <2> SUFFICES ASSUME TypeOK, StatusInv, WishInv, [Next]_vars PROVE WishInv'
    OBVIOUS
  <2> USE DEF appVars, busVars, lightVars, lockVars
  <2>t. /\ run \in {"connecting", "select", "on", "off", "locked", "returned"}
        /\ lightOn \in BOOLEAN /\ disabled \in BOOLEAN /\ manual \in {"no", "lit", "dark"}
    BY DEF TypeOK
  <2>s. ASSUME UNCHANGED <<disabled, manual, lightOn, activeCameras>>,
               run' \in {"connecting", "select", "locked"} =>
                 run \in {"connecting", "select", "locked"}
        PROVE  WishInv'
    BY <2>s DEF WishInv
  <2>1. CASE SignalOn
    BY <2>1 DEF SignalOn, HandleSignal, WishInv
  <2>2. CASE SignalOff
    <3>1. /\ run = "select" /\ UNCHANGED <<disabled, manual, lightOn>>
          /\ activeCameras' \subseteq activeCameras
          /\ run' = IF activeCameras' = {} THEN "off" ELSE "select"
      BY <2>2 DEF SignalOff, HandleSignal, WithoutCamera
    <3> QED
      BY <3>1 DEF WishInv
  <2>3. CASE SignalIgnored
    BY <2>3, <2>s DEF SignalIgnored, HandleSignal
  <2>4. CASE HandleCamera
    <3>1. run \in {"on", "off"} /\ run' = "locked" /\ UNCHANGED <<activeCameras, disabled>>
      BY <2>4 DEF HandleCamera
    <3>2. CASE disabled
      <4>1. UNCHANGED <<manual, lightOn>>
        BY <2>4, <3>2 DEF HandleCamera, LeaveLights
      <4> QED
        BY <3>1, <3>2, <4>1 DEF WishInv
    <3>3. CASE ~disabled
      <4>1. manual' = "no" /\ lightOn' = (run = "on")
        BY <2>4, <3>3 DEF HandleCamera, SetLights
      <4> QED
        BY <3>1, <3>3, <4>1 DEF WishInv, StatusInv
    <3> QED
      BY <3>2, <3>3
  <2>5. ASSUME NEW c \in Clickers, OnToggleLightClicked(c) PROVE WishInv'
    <3>1. manual' = Wish(lightOn') /\ UNCHANGED disabled /\ lightOn' \in BOOLEAN
      BY <2>5 DEF OnToggleLightClicked, SetLights
    <3> QED
      BY <3>1 DEF WishInv, Wish
  <2>6. ASSUME NEW c \in Clickers, OnEnableClicked(c) PROVE WishInv'
    <3>1. UNCHANGED lightOn /\ manual' = IF manual = "no" THEN Wish(lightOn) ELSE manual
      BY <2>6 DEF OnEnableClicked, LeaveLights
    <3> QED
      BY <3>1, <2>t DEF WishInv, Wish
  <2>7. ASSUME NEW c \in Clickers, OnAdjustClicked(c) PROVE WishInv'
    BY <2>7, <2>s DEF OnAdjustClicked, Enter, LeaveLights
  <2>8. ASSUME NEW t \in Goroutines, LightStep(t) PROVE WishInv'
    <3>1. UNCHANGED <<disabled, manual, lightOn, activeCameras>>
      BY <2>8 DEF LightStep, Unlock, Done, WriteLight, WriteFails, Written
    <3>2. run' = run \/ (run = "locked" /\ run' = "select")
      BY <2>8 DEF LightStep, Unlock, Done, Locked, WriteLight, WriteFails, Written
    <3> QED
      BY <3>1, <3>2, <2>s
  <2>9. ASSUME NEW c \in Clickers, NEW op \in Clicks, Click(c, op) PROVE WishInv'
    BY <2>9, <2>s DEF Click
  <2>10. CASE RunEnd \/ Quit \/ LoseBus
    BY <2>10, <2>s DEF RunEnd, ReturnOnDone, ReturnOnClosed, Connect, ConnectFails, Connected,
       Quit, LoseBus
  <2>11. ASSUME NEW s \in Signals, LateArrival(s) PROVE WishInv'
    BY <2>11, <2>s DEF LateArrival
  <2>12. ASSUME NEW d \in Cameras, NEW type \in {Recording, Stopped},
               Announce(type, d) \/ Unheard(type, d) \/ OddSignal(d)
        PROVE  WishInv'
    BY <2>12, <2>s DEF Announce, Unheard, OddSignal
  <2>13. ASSUME NEW l \in Lights, Press(l) \/ PlugIn(l) \/ Unplug(l) PROVE WishInv'
    BY <2>13, <2>s DEF Press, PlugIn, Unplug, Drift
  <2>14. CASE UNCHANGED vars
    BY <2>14, <2>s DEF vars
  <2> QED
    BY <2>1, <2>2, <2>3, <2>4, <2>5, <2>6, <2>7, <2>8, <2>9, <2>10, <2>11, <2>12, <2>13, <2>14
       DEF Next, RunStep, ClickStep
<1> QED
  BY <1>1, <1>2, TypeCorrect, StatusInvariant, PTL DEF Spec

(* Once all signals are handled and the lights written, they shine as the  *)
(* user last asked and otherwise while any announced camera is on, apart   *)
(* from overtaken ones, for any number of cameras, lights and clicks and   *)
(* any capacity of sigCh.                                                  *)
THEOREM FollowCorrect == Spec => []LightsFollow
<1>1. LightsAgree /\ CamerasTrackDaemon /\ HeardInv /\ WishInv => LightsFollow
  <2> SUFFICES ASSUME LightsAgree, CamerasTrackDaemon, HeardInv, WishInv, Settled, Free,
                      NEW l \in plugged \ drifted
               PROVE  IF manual = "no"
                      THEN /\ (camsOn \cap announced) \ overtaken # {} => l \in shining
                           /\ l \in shining => (camsOn \cup overtaken) \cap announced # {}
                      ELSE l \in shining <=> manual = "lit"
    BY DEF LightsFollow
  <2>1. l \in shining <=> lightOn
    BY DEF LightsAgree
  <2>2. /\ (camsOn \cap announced) \ overtaken \subseteq activeCameras
        /\ activeCameras \subseteq (camsOn \cup overtaken) \cap announced
    BY DEF CamerasTrackDaemon, HeardInv
  <2>3. lightOn <=> IF manual = "no" THEN activeCameras # {} ELSE manual = "lit"
    BY DEF WishInv, Settled
  <2> QED
    BY <2>1, <2>2, <2>3
<1> QED
  BY <1>1, NoMixedLights, ActiveCorrect, HeardInvariant, WishInvariant, PTL

=============================================================================
