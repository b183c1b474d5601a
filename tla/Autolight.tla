----------------------------- MODULE Autolight -----------------------------
(***************************************************************************)
(* The autolight tray program: it listens to the CameraEvent signals the   *)
(* daemon emits and switches Litra lights on while a camera is on.         *)
(*                                                                         *)
(* Run is one goroutine; each click on the tray menu runs its handler in a *)
(* goroutine of the tray library.  They meet in the mutex mut.  Under it,  *)
(* setLights writes the lights it found one after the other, while the     *)
(* lights themselves come, go and have a button of their own.              *)
(*                                                                         *)
(* External: the signal delivery of godbus, the tray, the light driver.    *)
(* Abstracted: icons, tool tips and labels other than the camera status,   *)
(* and the values of the brightness and temperature clicks.                *)
(***************************************************************************)
EXTENDS Naturals, Sequences, FiniteSets

CONSTANTS
  Cameras,    \* video device names
  Lights,     \* Litra lights
  Clickers,   \* clicks that may be under way at the same time
  SigCap,     \* capacity of sigCh: 16 in the code
  LateCap     \* bound on the signals godbus holds back

Recording == 1   \* CameraEventRecordingOn
Stopped == 2     \* CameraEventRecordingOff
Other == 0       \* stands for a signal of another type or an unreadable body
Signals == [type : {Recording, Stopped, Other}, dev : Cameras]
Clicks == {"toggle", "enable", "adjust"}
Goroutines == Clickers \cup {"run"}

ASSUME CapAssumption == SigCap \in Nat \ {0} /\ LateCap \in Nat
ASSUME ClickersAssumption == "run" \notin Clickers /\ "free" \notin Clickers

VARIABLES
  run,            \* "connecting", "select", "on" or "off" (about to lock), "locked",
                  \* "returned"
  click,          \* clicker -> "idle", a click about to lock, or "locked"
  mut,            \* holder of the mutex, or "free"
  todo,           \* per goroutine: lights it still has to write
  goal,           \* per goroutine: the argument of its setLights
  activeCameras, status, lightOn, disabled, ctxDone,  \* the fields of App
  sigCh,          \* signals buffered for Run
  closed,         \* the connection is lost and sigCh closed
  late,           \* signals that found sigCh full
  camsOn,         \* cameras the daemon has announced as on
  plugged,        \* lights that are connected
  shining,        \* lights that are lit
  drifted,        \* lights something else than setLights has changed since
  announced,      \* cameras with a signal since this program listens
  overtaken,      \* cameras whose last signal was sent while an older one was held back
  manual          \* "lit" or "dark": what the user wants; "no": follow the cameras

appVars == <<activeCameras, status, lightOn, disabled>>
busVars == <<sigCh, closed, late, camsOn, announced, overtaken>>
lightVars == <<plugged, shining, drifted>>
lockVars == <<run, click, mut, todo, goal>>
vars == <<lockVars, appVars, ctxDone, busVars, lightVars, manual>>

Init ==
  /\ run = "connecting" /\ click = [c \in Clickers |-> "idle"] /\ mut = "free"
  /\ todo = [t \in Goroutines |-> {}] /\ goal = [t \in Goroutines |-> FALSE]
  /\ activeCameras = {} /\ status = "unknown" /\ lightOn = FALSE /\ disabled = FALSE
  /\ ctxDone = FALSE
  /\ manual = "no"
  /\ sigCh = <<>> /\ closed = FALSE /\ late = {} /\ announced = {} /\ overtaken = {}
  /\ camsOn \in SUBSET Cameras
  /\ plugged = Lights /\ shining \in SUBSET Lights /\ drifted = Lights

-----------------------------------------------------------------------------
(* Run and handleSignal                                                    *)

(* A definition whose comment starts with "Slip" is a plausible mistake in *)
(* the definition after it; it is part of no specification and serves to   *)
(* show that the properties notice it.                                     *)

ReturnOnDone ==
  /\ run = "select" /\ ctxDone
  /\ run' = "returned"
  /\ UNCHANGED <<click, mut, todo, goal, appVars, ctxDone, busVars, lightVars, manual>>

(* Connecting to the bus does not look at the context.                     *)
Connected(next) ==
  /\ run = "connecting"
  /\ run' = next
  /\ UNCHANGED <<click, mut, todo, goal, appVars, ctxDone, busVars, lightVars, manual>>

Connect == Connected("select")
ConnectFails == Connected("returned")

(* Slip: a closed channel is taken for one without signals. *)
ReturnOnClosedAndDone ==
  /\ run = "select" /\ closed /\ sigCh = <<>> /\ ctxDone
  /\ run' = "returned"
  /\ UNCHANGED <<click, mut, todo, goal, appVars, ctxDone, busVars, lightVars, manual>>

ReturnOnClosed ==
  /\ run = "select" /\ closed /\ sigCh = <<>>
  /\ run' = "returned"
  /\ UNCHANGED <<click, mut, todo, goal, appVars, ctxDone, busVars, lightVars, manual>>

(* The part of handleSignal before the mutex: activeCameras is Run's own.  *)
HandleSignal(after, next) ==
  /\ run = "select" /\ sigCh # <<>>
  /\ sigCh' = Tail(sigCh)
  /\ activeCameras' = after
  /\ run' = next
  /\ UNCHANGED <<click, mut, todo, goal, status, lightOn, disabled, ctxDone, late, camsOn,
                 closed, announced, overtaken, lightVars, manual>>

SignalOn ==
  /\ sigCh # <<>> /\ Head(sigCh).type = Recording
  /\ HandleSignal(activeCameras \cup {Head(sigCh).dev}, "on")

(* Slip: any OFF clears all cameras. *)
WithoutCameras == {}

WithoutCamera == activeCameras \ {Head(sigCh).dev}

(* Slip: every OFF switches the status off. *)
SignalOffAlways ==
  /\ sigCh # <<>> /\ Head(sigCh).type = Stopped
  /\ HandleSignal(WithoutCamera, "off")

SignalOff ==
  /\ sigCh # <<>> /\ Head(sigCh).type = Stopped
  /\ HandleSignal(WithoutCamera, IF WithoutCamera = {} THEN "off" ELSE "select")

SignalIgnored ==
  /\ sigCh # <<>> /\ Head(sigCh).type = Other
  /\ HandleSignal(activeCameras, "select")

-----------------------------------------------------------------------------
(* What runs under the mutex                                               *)

Free == mut = "free"

(* setLights: remember the state and list the lights to write.             *)
SetLights(t, on) ==
  /\ lightOn' = on
  /\ todo' = [todo EXCEPT ![t] = plugged]
  /\ goal' = [goal EXCEPT ![t] = on]
LeaveLights == UNCHANGED <<lightOn, todo, goal>>

(* Slip: the disabled flag is not looked at. *)
HandleCameraAnyway ==
  /\ run \in {"on", "off"} /\ Free
  /\ mut' = "run" /\ run' = "locked"
  /\ status' = run
  /\ SetLights("run", run = "on")
  /\ manual' = IF disabled THEN manual ELSE "no"
  /\ UNCHANGED <<click, activeCameras, disabled, ctxDone, busVars, lightVars>>

(* Slip: the mutex is not taken. *)
HandleCameraUnlocked ==
  /\ run \in {"on", "off"}
  /\ mut' = "run" /\ run' = "locked"
  /\ status' = run
  /\ IF disabled THEN LeaveLights ELSE SetLights("run", run = "on")
  /\ manual' = IF disabled THEN manual ELSE "no"
  /\ UNCHANGED <<click, activeCameras, disabled, ctxDone, busVars, lightVars>>

(* handleCameraOn and handleCameraOff.                                     *)
HandleCamera ==
  /\ run \in {"on", "off"} /\ Free
  /\ mut' = "run" /\ run' = "locked"
  /\ status' = run
  /\ IF disabled THEN LeaveLights ELSE SetLights("run", run = "on")
  /\ manual' = IF disabled THEN manual ELSE "no"
  /\ UNCHANGED <<click, activeCameras, disabled, ctxDone, busVars, lightVars>>

Enter(c, op) ==
  /\ click[c] = op /\ Free
  /\ mut' = c
  /\ click' = [click EXCEPT ![c] = "locked"]
  /\ UNCHANGED <<run, activeCameras, status, ctxDone, busVars, lightVars>>

Wish(on) == IF on THEN "lit" ELSE "dark"

OnToggleLightClicked(c) ==
  /\ Enter(c, "toggle")
  /\ SetLights(c, ~lightOn)
  /\ manual' = Wish(~lightOn)
  /\ UNCHANGED disabled

OnEnableClicked(c) ==
  /\ Enter(c, "enable")
  /\ disabled' = ~disabled
  /\ manual' = IF manual = "no" THEN Wish(lightOn) ELSE manual
  /\ LeaveLights

(* setBrightness and setColorTemperature leave a light on or off.          *)
OnAdjustClicked(c) == Enter(c, "adjust") /\ LeaveLights /\ UNCHANGED <<disabled, manual>>

Locked(t) == IF t = "run" THEN run = "locked" ELSE click[t] = "locked"

(* lib.LightOn or lib.LightOff on one light; nobody looks at its outcome.  *)
Written(t, l) ==
  /\ Locked(t) /\ l \in todo[t]
  /\ todo' = [todo EXCEPT ![t] = @ \ {l}]
  /\ UNCHANGED <<run, click, mut, goal, appVars, ctxDone, busVars, plugged, manual>>

WriteLight(t, l) ==
  /\ l \in plugged
  /\ shining' = IF goal[t] THEN shining \cup {l} ELSE shining \ {l}
  /\ drifted' = drifted \ {l}
  /\ Written(t, l)

WriteFails(t, l) == drifted' = drifted \cup {l} /\ UNCHANGED shining /\ Written(t, l)

(* The deferred Unlock, after the last light.                              *)
Done(t) ==
  /\ Locked(t) /\ todo[t] = {}
  /\ goal' = [goal EXCEPT ![t] = FALSE]
  /\ run' = IF t = "run" THEN "select" ELSE run
  /\ click' = [c \in Clickers |-> IF t = c THEN "idle" ELSE click[c]]
  /\ UNCHANGED <<todo, appVars, ctxDone, busVars, lightVars, manual>>

(* Slip: a click's early return leaves the mutex locked. *)
UnlockByRunOnly(t) == Done(t) /\ mut' = IF t = "run" THEN "free" ELSE mut

Unlock(t) == Done(t) /\ mut' = "free"

-----------------------------------------------------------------------------
(* The user, the bus and the lights                                        *)

Click(c, op) ==
  /\ click[c] = "idle"
  /\ click' = [click EXCEPT ![c] = op]
  /\ UNCHANGED <<run, mut, todo, goal, appVars, ctxDone, busVars, lightVars, manual>>

(* The Quit item, SIGINT or SIGTERM.                                       *)
Quit ==
  /\ ~ctxDone
  /\ ctxDone' = TRUE
  /\ UNCHANGED <<lockVars, appVars, busVars, lightVars, manual>>

(* godbus sends to sigCh if there is room and otherwise starts a goroutine *)
(* of its own for this one signal, which later ones can overtake.          *)
CanQueue(sig) == Len(sigCh) < SigCap \/ (Cardinality(late) < LateCap /\ sig \notin late)
(* Slip: one signal too many fits. *)
QueueOneMore(sig) ==
  IF Len(sigCh) <= SigCap
  THEN sigCh' = Append(sigCh, sig) /\ UNCHANGED late
  ELSE late' = late \cup {sig} /\ UNCHANGED sigCh

(* Slip: a signal that finds sigCh full is dropped. *)
QueueOrDrop(sig) ==
  sigCh' = (IF Len(sigCh) < SigCap THEN Append(sigCh, sig) ELSE sigCh) /\ UNCHANGED late

Queue(sig) ==
  IF Len(sigCh) < SigCap
  THEN sigCh' = Append(sigCh, sig) /\ UNCHANGED late
  ELSE late' = late \cup {sig} /\ UNCHANGED sigCh

(* A signal sent while an older one for the same camera is held back may   *)
(* arrive first; one sent when there is none is the last to arrive.        *)
Overtake(d) ==
  overtaken' = IF \E s \in late : s.dev = d THEN overtaken \cup {d} ELSE overtaken \ {d}

LateArrival(sig) ==
  /\ sig \in late /\ Len(sigCh) < SigCap
  /\ sigCh' = Append(sigCh, sig)
  /\ late' = late \ {sig}
  /\ UNCHANGED <<lockVars, appVars, ctxDone, closed, camsOn, announced, overtaken,
                 lightVars, manual>>

Listening == run \notin {"connecting", "returned"} /\ ~closed

(* What the daemon says of a camera last is what holds for its listeners.  *)
Change(type, d) == camsOn' = IF type = Recording THEN camsOn \cup {d} ELSE camsOn \ {d}

(* The daemon announces that a camera is on or off.  One that has been     *)
(* restarted may repeat what the one before it has said.                   *)
Announce(type, d) ==
  LET sig == [type |-> type, dev |-> d]
  IN /\ Listening /\ CanQueue(sig) /\ Queue(sig) /\ Overtake(d)
     /\ Change(type, d)
     /\ announced' = announced \cup {d}
     /\ UNCHANGED <<lockVars, appVars, ctxDone, closed, lightVars, manual>>

(* The program does not listen yet, or no more.                            *)
Unheard(type, d) ==
  /\ ~Listening /\ Change(type, d)
  /\ UNCHANGED <<lockVars, appVars, ctxDone, sigCh, closed, late, announced, overtaken,
                 lightVars, manual>>

(* godbus closes sigCh when it loses the connection to the bus.            *)
LoseBus ==
  /\ Listening
  /\ closed' = TRUE /\ late' = {}
  /\ UNCHANGED <<lockVars, appVars, ctxDone, sigCh, camsOn, announced, overtaken, lightVars,
                 manual>>

OddSignal(d) ==
  /\ Listening /\ Len(sigCh) < SigCap
  /\ sigCh' = Append(sigCh, [type |-> Other, dev |-> d])
  /\ UNCHANGED <<lockVars, appVars, ctxDone, closed, late, camsOn, announced, overtaken,
                 lightVars, manual>>

(* A light's button is pressed, or a light is plugged in or unplugged.     *)
Drift(l) ==
  /\ drifted' = drifted \cup {l}
  /\ UNCHANGED <<lockVars, appVars, ctxDone, busVars, manual>>

Press(l) ==
  /\ l \in plugged
  /\ shining' = IF l \in shining THEN shining \ {l} ELSE shining \cup {l}
  /\ Drift(l) /\ UNCHANGED plugged

PlugIn(l) == l \notin plugged /\ plugged' = plugged \cup {l} /\ Drift(l) /\ UNCHANGED shining

Unplug(l) ==
  /\ l \in plugged /\ plugged' = plugged \ {l} /\ shining' = shining \ {l} /\ Drift(l)

RunEnd == ReturnOnDone \/ ReturnOnClosed \/ Connect \/ ConnectFails
RunStep == SignalOn \/ SignalOff \/ SignalIgnored \/ HandleCamera
ClickStep(c) == OnToggleLightClicked(c) \/ OnEnableClicked(c) \/ OnAdjustClicked(c)
LightStep(t) == Unlock(t) \/ \E l \in Lights : WriteLight(t, l) \/ WriteFails(t, l)

Next ==
  \/ RunStep \/ RunEnd \/ Quit \/ LoseBus
  \/ \E t \in Goroutines : LightStep(t)
  \/ \E c \in Clickers : ClickStep(c) \/ \E op \in Clicks : Click(c, op)
  \/ \E sig \in Signals : LateArrival(sig)
  \/ \E d \in Cameras, type \in {Recording, Stopped} : Announce(type, d) \/ Unheard(type, d)
  \/ \E d \in Cameras : OddSignal(d)
  \/ \E l \in Lights : Press(l) \/ PlugIn(l) \/ Unplug(l)

Spec == Init /\ [][Next]_vars

(* Run and the holder of the mutex go on, the bus answers; a sync.Mutex    *)
(* starves nobody, and a select does not pass over a done context for ever.*)
Fairness ==
  /\ WF_vars(Connect \/ ConnectFails) /\ WF_vars(ReturnOnClosed)
  /\ WF_vars(SignalOn \/ SignalOff \/ SignalIgnored) /\ SF_vars(HandleCamera)
  /\ SF_vars(ReturnOnDone)
  /\ \A t \in Goroutines : WF_vars(LightStep(t))
  /\ \A c \in Clickers : SF_vars(ClickStep(c))

FairSpec == Spec /\ Fairness

-----------------------------------------------------------------------------
(* Properties                                                              *)

TypeOK ==
  /\ run \in {"connecting", "select", "on", "off", "locked", "returned"}
  /\ click \in [Clickers -> {"idle", "locked"} \cup Clicks]
  /\ mut \in Clickers \cup {"run", "free"}
  /\ run = "locked" <=> mut = "run"
  /\ \A c \in Clickers : click[c] = "locked" <=> mut = c
  /\ todo \in [Goroutines -> SUBSET Lights] /\ goal \in [Goroutines -> BOOLEAN]
  /\ \A t \in Goroutines : todo[t] # {} => mut = t
  /\ activeCameras \subseteq Cameras /\ status \in {"unknown", "on", "off"}
  /\ lightOn \in BOOLEAN /\ disabled \in BOOLEAN /\ ctxDone \in BOOLEAN
  /\ sigCh \in Seq(Signals) /\ Len(sigCh) <= SigCap /\ late \subseteq Signals
  /\ camsOn \subseteq Cameras /\ announced \subseteq Cameras /\ overtaken \subseteq Cameras
  /\ closed \in BOOLEAN /\ manual \in {"no", "lit", "dark"}
  /\ plugged \subseteq Lights /\ shining \subseteq Lights /\ drifted \subseteq Lights

(* Whenever nobody holds the mutex, every light that nothing else changed  *)
(* since it was written is as lightOn says: a click and a camera signal at *)
(* the same time never leave a mix of lit and dark lights behind.          *)
LightsAgree ==
  Free => \A l \in plugged \ drifted : l \in shining <=> lightOn

(* Between two signals, the camera status in the tray is "on" exactly when *)
(* some camera is active, once a signal has set it.                        *)
StatusMatchesCameras ==
  run \in {"select", "returned"} /\ status # "unknown" => (status = "on" <=> activeCameras # {})

Settled == run = "select" /\ sigCh = <<>> /\ ~closed /\ late = {}

(* When every signal is handled, the cameras the program holds active are  *)
(* those the daemon last announced as on, although a full sigCh may have   *)
(* held some of them back: only a camera whose last signal was sent while  *)
(* an older one of the same camera was held back can be wrong, and only    *)
(* until its next signal.                                                  *)
CamerasTrackDaemon ==
  Settled => \A d \in announced \ overtaken : d \in activeCameras <=> d \in camsOn

(* Then, once the lights are written, they shine as the user last asked,   *)
(* by a toggle or by switching automatic control off, and otherwise while  *)
(* any camera is on (apart from overtaken ones): no signal overrides the   *)
(* user while control is off, no click loses a signal, and no signal       *)
(* handled late leaves a wrong light.                                      *)
LightsFollow ==
  Settled /\ Free => \A l \in plugged \ drifted :
    IF manual = "no"
    THEN /\ (camsOn \cap announced) \ overtaken # {} => l \in shining
         /\ l \in shining => (camsOn \cup overtaken) \cap announced # {}
    ELSE l \in shining <=> manual = "lit"

(* Every click gets the mutex and is done with.                            *)
ClicksAreServed ==
  \A c \in Clickers, op \in Clicks : click[c] = op ~> click[c] = "idle"

(* Quit or the loss of the bus ends Run, whatever signals and clicks are   *)
(* under way.                                                              *)
RunEnds == ctxDone \/ closed ~> run = "returned"

=============================================================================
