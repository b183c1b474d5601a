# CameraCoordinator in TLA+

TLA+ models of the camera-coordinator daemon, of the eBPF probes that feed it
and of the autolight program that listens to it, with TLC configurations that
check them on small instances and TLAPS proofs of their main properties for
every instance. Paths below are relative to the repository (`src/...`).

## 1. The system

A user-space daemon learns which cameras record and tells the desktop.

```
 programs --ioctl/close--> vb2 kernel functions
                              | kprobes (bpf/camera_detector_vb2_ioctl.bpf.c)
                              v
                       ring buffer --> detector (camera_detector_vb2_ioctl.go)
                                          | allEvents (unbuffered)
                                          v
                                   CameraCoordinator (camera_coordinator.go)
                                          | one channel per notifier (capacity 1)
                         +----------------+----------------+
                         v                                 v
                 DBusNotifier (notifier_dbus.go)   ScriptNotifier (notifier_script.go)
                         | CameraEvent signal              | one process per event
                         v                                 v
                 autolight (autolight/main.go)        user's scripts
```

| Component | State it keeps | Operations | Meets the others through |
|---|---|---|---|
| eBPF probes | `streaming_pid` hash (device -> PID), ring buffer | three kprobes: STREAMON, STREAMOFF, release | kernel functions they probe; the ring buffer |
| EBPFVb2IoctlStreamDetector | reader, links, `errCh` | attach, read loop with `kill(pid, 0)` filter, stop | ring buffer, `allEvents`, the context |
| CameraCoordinator | `started`, `active` (device -> set of detectors) | `Run`, `broadcastEvent` | `allEvents`, output channels, V4L2 query of the device node |
| main | wait groups, channels | start, close channels in order, wait | every goroutine |
| DBusNotifier | the bus connection | connect, take, emit, stop | its channel, the bus |
| ScriptNotifier | its script goroutines | take, start a script goroutine, stop | its channel, child processes |
| PrintNotifier | none | take, print (not used by main) | its channel |
| V4L2 utilities | none | query capabilities, discover devices (discovery not used by main) | the device node: a query opens and closes it, which runs the release probe |
| systemd unit | up, restarting, down | start, restart on failure | the process's exit status |
| autolight | `activeCameras`, `lightOn`, `disabled`, labels, mutex | signals, three kinds of clicks, lights, quit | `sigCh`, tray, lights |

### What is hard about it

- Several detectors report independently about the same device; the coordinator
  reduces them to one ON and one OFF. Duplicate ONs and stray OFFs are legal.
- A broadcast is a sequence of blocking sends to consumers of different speed,
  any of which cancellation can cut short.
- The device node is queried when an event is *handled*, so it may be gone or
  replaced by then.
- Go closes channels: a send on a closed channel panics, a close in the wrong
  order loses events or leaves a goroutine blocked.
- Kprobes of several CPUs interleave at the grain of single map operations; they
  fire at entry, before the kernel accepts or refuses the call.
- The daemon watches itself: its own query of a camera triggers the release probe.
- The liveness filter asks about a process that may be just dying.
- In autolight, Run and click handlers share state under one mutex that is held
  during slow writes to devices that come and go.
- The detector acquires five things one after the other and releases them from
  two goroutines that end in any order.
- Every script runs in a goroutine nobody waits for, not even main at its end.
- The daemon is a service: it crashes, ends and starts while cameras record, and
  each life begins with an empty memory.

### What makes each component correct

- Coordinator: every consumer sees one history of on-sets, nothing lost,
  repeated or reordered; the map is what detectors last said; Run returns.
- Process: no send on a closed channel, nothing lost on an orderly end, a signal
  ends it, and the coordinator inside behaves as it does alone.
- Probes and detector: no event is caused by the daemon's own query; with
  nothing under way the last report matches the queue; the end of a stream is
  reported.
- Detector: whatever fails, Run ends, gives the reason and leaves nothing open.
- ScriptNotifier: no hanging script holds anything up; scripts that overlap may
  leave the effect of either, but never disturb what other events leave.
- Service: what listeners believe is right again after the next change that is
  neither missed nor lost.
- Autolight: lights are never left mixed; status and set of cameras follow the
  daemon; manual mode means manual; no click starves; Quit ends Run.

The full list of hazards, with lines and the properties aimed at each, is in
`PROJECT.json`.

## 2. Modules

| Module | Models | State and actions against the code |
|---|---|---|
| `CameraFeed` | the abstract promise of the coordinator | `path[c]`: what consumer c has before it of the one history of on-sets. `Switch`, `Observe`, `Stop` |
| `CameraCoordinator` | `camera_coordinator.go` | `pc` is the place in `Run` (select, the query at line 91, a broadcast, returned); `cur`, `active` are its variables; `nextOut` is the loop of `broadcastEvent`. One action per branch of the switch. Around it: consumers, cancellation, closing, replugging |
| `CoordinatorReports` | the same, with a memory of what detectors reported | `reported`, `missed` are history variables; every action is the coordinator's own |
| `EventSource` | the abstract promise of a detector | `phase`, `offer`; gets ready or gives up, offers one event at a time, withdraws it only when cancelled |
| `Detector` | `Run` of `camera_detector_vb2_ioctl.go` | `at` is the place in Run, `held` what it has acquired, `rd` the reader goroutine, `errCh`, `err` as in the code. Implements `EventSource` |
| `DetectorInDaemon` | main's process with that detector in it | EXTENDS `Detector`, with the channels and the other goroutines of `Daemon`; `Offered` is the event the reader is sending as the coordinator will know it. Implements `Daemon`, whose one word `detPc` for a detector is `Phase` here |
| `Vb2Probes` | `bpf/*.bpf.c` and the liveness filter of the read loop | `call[f]` is the progress of a probed call through file `f`, cut at each BPF helper; `streaming_pid` (with its capacity) and `ring` as in the code; `owner`, `proc`, `open` are the kernel |
| `Daemon` | `cmd/camera-coordinator/main.go` | goroutines of detectors (`detPc`), notifiers (`notPc`), the closers; INSTANCE of `CameraCoordinator` for the coordinator's steps |
| `Service` | the daemon over its lives, from the probes to the listeners of its signals | EXTENDS `Daemon`; `svc` is systemd's view, `links`/`ring` the probes, `emitting`/`heard` the bus. `Crash`, `Finish`, `Restart`, `Start` end and begin a process and reset all of its state. It assumes what main does: one detector, of the notifiers only the DBus one being followed |
| `ScriptNotifier` | `notifier_script.go` | `loop` is Run, `script[i]` the goroutine and child process of event i, `effect` what scripts leave behind; `over[j]` remembers which events were over when event j was taken |
| `Autolight` | `autolight/main.go` | `run` and `click[c]` are the goroutines, `mut` the mutex, `todo`/`goal` the loop of `setLights`; godbus, tray and lights are external; `overtaken` remembers cameras whose last signal may arrive before an older one |
| `EndToEnd` | the service with autolight listening | EXTENDS `Service`, INSTANCE of `Autolight`; the step that emits a signal is the step that delivers it, `heard` is autolight's `camsOn`. Only proved about |
| `*Proofs` | – | proofs about the module they are named after; `FeedProofs` has the refinement of `CameraFeed` and the proofs about `CoordinatorReports` |
| `MC*` | – | small instances for TLC |

How they compose: `Daemon` instantiates `CameraCoordinator`, `Service` extends
`Daemon`, `CoordinatorReports` extends `CameraCoordinator`. `Detector` implements
`EventSource`, and `DetectorInDaemon` puts it in the place of `Daemon`'s detector:
the composition implements `Daemon`. `EndToEnd` puts `Service` and `Autolight`
together. Not composed: `Vb2Probes` stands behind `CameraOn`, `CameraOff` of
`Service`, which take the probes to be right; `ScriptNotifier` behind a script
notifier of `Daemon`.

In each module, a definition whose comment starts with "Slip" is a plausible
mistake in the definition that follows it (a dropped guard, a missing reset).
Specifications never use it; put in the place of the right definition, it makes
the property named in `PROJECT.json` fail, which shows that the property can.

Where atomicity is coarser than the code, nothing else can observe the
difference: `active` belongs to Run's goroutine alone; an event's switch and the
start of its broadcast are one step; `handleSignal` up to the mutex touches only
what belongs to Run; the deferred closes of the detector run after its only
other goroutine has ended. Where it matters it is as fine as the code: each
channel send, the query, each BPF map or ring-buffer helper, each acquisition,
each light.

## 3. Runs

| Run | Instance | Shows |
|---|---|---|
| `coordinator` | 2 detectors, 2 devices, 2 outputs (capacities 1 and 0), nodes that answer or are gone | `FeedInv`, `NoRedundantDelivery`, refinement of `CameraFeed`; `active` is what detectors last said |
| `coordinator_unplug` | 1 detector, 1 device | **violation**, see section 4 |
| `daemon` | 1 detector, 1 device, the DBus and one script notifier, bus up or down | order of closing, drain, nobody waits in a circle, shutdown; every change reaches every notifier |
| `daemon_no_bus` | the same | **violation** |
| `probes` | 2 programs with a file each and the daemon, 1 device, ring buffer of 1, map of 1 that other devices can fill | no recursion, reports match the queue, the end of a stream is reported |
| `probes_killed` | 1 program with one file, ring buffer of 2 | **violation** |
| `detector` | the process with the detector in it: 1 device that may go, ring buffer of 2, the DBus notifier, any step may fail | nothing leaks, both goroutines end, no end without a reason, nobody waits in a circle, refinement of `EventSource` and of `Daemon` |
| `service` | 1 detector, 1 device, 1 notifier, ring buffer of 2, bus up or down, crashes, ends and starts | listeners track cameras |
| `service_failed` | the same, ring buffer of 1, bus up | **violation** |
| `scripts` | 3 events, channel of 1, both scripts | effect of the scripts, nothing is held up |
| `autolight` | 2 cameras, 2 lights, 1 click, `sigCh` of 1, 1 signal held back | lights, status, cameras, manual mode, signals held back included |
| `autolight_live` | 1 camera, 1 light, 1 click | clicks are served, Quit ends Run |

Bounds and why they suffice:

- Coordinator: two detectors are needed for an ON or OFF that is not forwarded,
  two devices for messages about different devices in one channel, two outputs
  so that one has a broadcast when the other has yet to get it. Capacity 0 is
  what the tests use (rendezvous), 1 is what main makes. The daemon instance is
  smaller because the coordinator's own interleavings are covered by
  `coordinator`, and what is proved of the coordinator holds in the process.
- Probes: they key everything by device and relate devices only through the
  capacity of the map, for which `OthersCap` stands in: entries of devices
  outside the instance. Two processes give the races of two CPUs. A ring buffer
  of one fills up at once, and is empty as soon as it is read. Several files of
  one process are beyond the run and within the theorem `ReportsCorrect`.
- Detector: one device, because Run and its reader never look at an event's
  device; a ring buffer of two, so that an event can wait behind the one being
  sent. One notifier is enough to hold the coordinator up.
- Service: one device, because the daemon tells them apart only by the map of
  the coordinator; a ring buffer of two, so that what was read and what was lost
  with a process can differ. The map and kernel races of the probes are left to
  `probes`. `ListenersCorrect` covers any number of devices and any ring buffer.
- Scripts: three events allow two that overlap and one that comes after.
- Autolight: one signal in `sigCh` and one held back already give reordering; two
  lights make a mix possible; one click meets Run's own use of the mutex. The
  code's `sigCh` has 16 places (`SigCap`).
- No counter is unbounded. `MixedCaps` and `ChanCap` give the capacities of
  channels, `MaxEvents` the events delivered to the script notifier, `LateCap`
  the goroutines godbus may have waiting (where they are used up, the model waits
  with the next signal, which the bus would not; the theorems take any `LateCap`), `RingCap` the ring buffer, `PidCap` the
  map (64 in the code).
- Symmetry is used only where no liveness property is checked. TLC's own deadlock
  check is off because every one of these programs may end, or have nothing to
  do. What it cannot tell apart, `NoDeadlock` and `ProcessNoDeadlock` do: they
  name the goroutines that can go on by themselves (`SomeoneCanGo`) and the rests
  the process may be in, and say that there are no others.

### Fairness

Weak fairness of a goroutine's own steps: Go and the kernel schedule every
runnable thread. Strong fairness of the done branch of a `select`
(`ReturnOnDone`, `DetectorStops`, `NotifierStops`): Go chooses uniformly among
the ready cases, so a context that stays done is taken after finitely many turns.
Strong fairness of the click handlers and `HandleCamera`: `sync.Mutex` hands the
lock over to a waiter after 1 ms. That consumers keep receiving is not assumed in
`daemon` but follows from the notifiers' own steps, and fails exactly where the
DBus notifier has given up; `Detector` does not assume that the coordinator
receives. A read of the ring buffer returns if there is an event in it or the
reader is closed, and only then: `ReadInto` may block for ever
(`src/camera_detector_vb2_ioctl.go:79-81`) and need not fail, so `RunReturns` rests
on Run's closing the reader before it waits for the goroutine. The kernel reaps processes that have exited (their parents wait for
them). Scripts need never end, nor fail. systemd restarts a failed service, the
unit's default limit on the rate of restarts apart. Nothing obliges cameras,
users, plugs, administrators or signals to do anything.

## 4. Where code and comments part

1. `coordinator_unplug` – An event whose query fails is skipped
   (`src/camera_coordinator.go:91-100`), the OFF of an unplugged camera
   included. The device stays on for every consumer, and when it is plugged in
   again its ON is a duplicate. The comment at lines 12-13 promises an OFF when
   the last detector goes inactive.
2. `daemon_no_bus` – A DBus notifier that cannot connect returns
   (`src/notifier_dbus.go:51`), main drops its error, and nobody reads its
   channel. From the second broadcast on the coordinator is blocked, and closing
   `allEvents` no longer makes it exit (`src/cmd/camera-coordinator/main.go:94`).
   A signal still ends the process (`SignalEndsProcess` holds with the bus down).
   That this is the only place where its goroutines get stuck, that nothing but
   a signal gets it out again, and that a bus that never refuses rules it out are
   the theorems `DeadlockFree`, `StuckForGood` and `RestsOnlyForCameras`.
3. `probes_killed` – The read loop discards the release event of a process that
   `kill(pid, 0)` still finds. A killed process closes its files before it is
   reaped, so this can be the only OFF. The TODO at
   `src/camera_detector_vb2_ioctl.go:106` suspects as much.
4. `service_failed` – A detector that fails (or cannot start) is logged, its
   goroutine ends, the channels close in order and main returns: exit status 0.
   `Restart=on-failure` in the unit then does not apply.

Noted without a run:

- `check_streaming_pid_and_clear` looks up, compares and deletes in separate
  steps (`src/bpf/camera_detector_vb2_ioctl.bpf.c:156-165`); a STREAMON on another
  CPU between them loses its entry, although the comment at line 149 says that a
  matching entry is removed. `ClearsOnlyOwnEntry` therefore holds only where calls do
  not overlap.
- A full `streaming_pid` takes no new device, and nobody looks at the result of
  the update: the end of that stream by close or death is not reported.
- After an emission that fails, the coordinator takes the device for announced,
  and a repeated ON is not announced again before an OFF has been handled.
- main does not wait for the script goroutines: the script of the last event
  before the end may never start or be left behind.
- Comments that have fallen behind: `src/camera_detector_vb2_ioctl.go:63-64` says
  the release probe looks whether the vb2 queue streams, it looks up
  `streaming_pid`; `src/bpf/camera_detector_vb2_ioctl.bpf.c:36`
  says the entry is deleted after the event is emitted, the code deletes it
  first; `src/notifier_dbus.go:44` says Run claims the well-known name, which it
  does not; `src/README.md:54` documents the signal's type as 0=off, 1=on, while
  `src/camera_event.go:7-8` has On = 1 and Off = 2.

`ReportsTrackStreaming` and `EndIsReported` hold with the exception of devices in
`tainted`. A device gets into that set when one of the known weaknesses bites:
overlapping calls of user programs on the device, an event dropped by a full
ring buffer, an entry a full map has no room for, a call that the kernel refused
after the probe had reported it, a release discarded by the liveness filter. A
clean STREAMON takes it out again. So these are *all* the ways in which the last
report can go wrong, and none of them outlasts the next clean STREAMON, which for
`ReportsTrackStreaming` is proved. That these ways do no harm is not said: they do.

`ListenersTrackCameras` has two exceptions of the same kind: `stale` (the daemon
missed the last change: not attached yet, no room, skipped by the coordinator, or
lost with a process) and `unsent` (the last message could not be emitted).
`CamerasTrackDaemon` and `LightsFollow` except `overtaken` cameras: if a camera's
signal is sent while an older one of the same camera is held back by a full `sigCh`,
the two may be handled in the wrong order, and the camera is wrong until its next
signal. Signals held back otherwise do no harm.

## 5. Proofs

All theorems hold for every value of the constants under the named assumptions
(finiteness is nowhere needed).

| Theorem | Says |
|---|---|
| `CameraCoordinatorProofs!TypeCorrect` | types; a broadcast holds an ON or OFF; buffers within capacity |
| `CameraCoordinatorProofs!FeedCorrect` | `FeedInv` |
| `CameraCoordinatorProofs!NothingRedundant` | `NoRedundantDelivery` |
| `FeedProofs!CoordinatorImplementsFeed` | `Spec => Feed!Spec` |
| `FeedProofs!ReportsAggregated` | `AggregatesReports` |
| `DaemonProofs!TypeCorrect` | types of the whole process |
| `DaemonProofs!NoPanic`, `Drained` | `NoSendOnClosed`, `DrainedBeforeEnd` |
| `DaemonProofs!DeadlockFree` | `NoDeadlock` |
| `DaemonProofs!RestsOnlyForCameras`, `StuckForGood` | without a refused connection the process rests only for a camera; the wait for a lost DBus notifier ends only by a signal |
| `DaemonProofs!NothingOutlivesMain` | when main has returned all its goroutines have ended |
| `ServiceProofs!ServiceTypeCorrect`, `ListenersCorrect` | types of the service; `ListenersTrackCameras` |
| `ServiceProofs!LivesAreDaemons`, `EveryLifeIsSafe` | each life of the service is a run of `Daemon`; what is proved of one holds of all |
| `ServiceProofs!OnlyNewLivesRepeat` | in one life the DBus notifier takes no message that repeats what it took before |
| `ServiceProofs!AutolightListens` | `EndToEnd` implements `Autolight`: whatever the service does in its lives, its signals are ones that `Autolight` provides for |
| `ServiceProofs!LightsFollowCameras` | `LightsShowCameras`, from the cameras to the lights |
| `DetectorProofs!TypeCorrect`, `NoLeak`, `ReaderContained`, `ReasonGiven` | types; `NothingLeaked`, `ReaderInsideRun`, `EndsForAReason` |
| `DetectorProofs!DetectorIsEventSource` | `Spec => Source!Spec` |
| `DetectorProofs!DetectorFitsDaemon` | `DetectorInDaemon` implements `Daemon` |
| `DetectorProofs!ProcessIsSafe`, `ProcessDeadlockFree` | what is proved of `Daemon` for the process with the detector in it; `ProcessNoDeadlock` |
| `DetectorProofs!CleanExit` | when main returns nothing of the detector is left |
| `Vb2ProbesProofs!TypeCorrect`, `NoRecursion` | types; `SelfCloseSilent` |
| `Vb2ProbesProofs!OnlyOwnEntry`, `ReportsCorrect` | `ClearsOnlyOwnEntry`, `ReportsTrackStreaming` |
| `ScriptNotifierProofs!TypeCorrect`, `EffectCorrect` | types; `EffectFollowsEvents` |
| `AutolightProofs!TypeCorrect` | types; only the mutex's holder has lights to write |
| `AutolightProofs!NoMixedLights`, `StatusCorrect`, `ActiveCorrect`, `FollowCorrect` | `LightsAgree`, `StatusMatchesCameras`, `CamerasTrackDaemon`, `LightsFollow` |

**Coordinator.** `FeedInv` says that for each output there is a history of
on-sets from the consumer's view to `OnDevices` along the messages in flight
(its buffer, plus the current message while the broadcast has yet to reach
it). It is inductive with `TypeOK`, whose part `pc # "broadcast" => nextOut = 1`
is what makes a new broadcast start in front of every consumer. `StepEffect` is
the heart: a step does nothing to the feed (`Quiet`; putting a message into a
buffer is one of these), puts a message that switches the on-set in flight to
everybody (`Announced`), or is one consumer taking its oldest message
(`Received`). `FeedCorrect` and the refinement are one case each per alternative,
on `BridgesAppend`/`BridgesTail` and `WalkAppend`/`WalkTail`. The refinement
mapping computes the history with a recursive function; that the recursion has
one solution is proved by the least place where two would differ (`WFMin`),
because the induction theorems of the library take an operator as parameter,
which the provers in use cannot instantiate.

**Reports.** `AgreeInv`: `active` and the memory of reports agree except for
events that were skipped and the one being queried; and while it is queried the
memory already says what it says. Without that second part handling the event
could not be shown to restore the agreement.

**Daemon.** `StepMaps` shows each step to be a step of the coordinator or to
leave it alone, which is so by construction and says nothing by itself; through it
(`CoordinatorInside`) `FeedCorrect` holds in the process, and `Drained` uses it: a notifier that ends by itself has seen its
channel closed (so Run has returned) and empty, so nothing is in flight, so its
view is the on-set. `CloseInv` (events closed only with all detectors done,
notifier channels only after Run returned) carries `NoPanic`.

`NoDeadlock` needs one part more, `ReasonInv`: only the DBus notifier can have
failed, and without a cancellation Run has returned only because `allEvents` is
closed. (That a notifier which ended without a cancellation found its channel
closed and empty is already in the part for `Drained`.) The five parts together are `LifeInv`, inductive by
itself (`LifeInit`, `LifeStep`), which is why they also hold across restarts.
`NobodyWaitsInACircle` follows the waits: a detector waits for the coordinator,
the coordinator for a notifier, a notifier for a message; with the context done
each of them can stop (`CancelledGoOn`), and without it a notifier that does not
take is either waiting with nothing to take (`NotifierAtRest`) or lost. That the
guards named in `SomeoneCanGo` are exactly when the goroutines' actions are
possible is seen by reading them beside the actions (`ENABLED` is beyond the
prover).

**Detector.** `PlaceInv` ties Run's place to what it holds (a prefix of `Order`
while opening, everything while waiting, everything but the reader while
joining) and to the reader goroutine. `ResultInv` follows a result from the
reader to `err`: `errCh` is empty until the reader ends, so its one place is
enough; a nil result exists only after a cancellation. From both, each step of
Run or of the reader is a step of `EventSource` or leaves it alone, the source
counting as done once the reader is on its way out.

**Detector in the process.** `DetectorFitsDaemon` goes through `EventSource`: a
step of Run or the reader is a step of the source, and a step of the source is
one of `Daemon`'s detector (`SourceInDaemon`); the hand-over, the closing of
`allEvents` and a signal are shown by themselves. What `Daemon` calls done is the
end of the reader, but main closes `allEvents` only after Run has returned;
`CloseImplements` shows that this is one of the moments `Daemon` allows. Then
`DaemonProofs`, instantiated with the same mapping, gives `ProcessIsSafe`;
`SameDaemon` and `SamePromises` say that its instance of `Daemon` is the one
`DetectorInDaemon` has. `ProcessDeadlockFree` looks behind `Daemon`'s word for the
detector: where `Daemon` says that it can go on, Run or the reader can
(`DetectorGoes`), and where it says done and waits for the closer, either main can
close or one of the two is on its way to the end (`DoneGoes`).

**Probes.** `SelfInv`: the daemon's calls are only closes that emit nothing, and
no entry of `streaming_pid` is the daemon's. The second part needs the first
(only a STREAMON records), the first the second (the check finds no own entry).
`OverlapTaints` (two calls under way on one device have tainted it) and
`DeleteInv` (between lookup and deletion the entry stays the caller's) give
`OnlyOwnEntry`. For `ReportsCorrect`, `SaidOn(d)` is what the coordinator will
have been told once the ring buffer is read. `Stable(d)`: that is whether the
queue streams, and then the entry is its owner's; or the owner's process has
closed another file of the device, which was said to be the end, and its release
is still in the ring buffer. The reader will find the process alive, for it holds
an open file (`OwnerInv`), and discard it, which taints. `TrackInv` demands
`Stable` of every untainted device with no call in its middle, and of a call in
its middle what it takes to arrive there (`CallInv`). The lemmas `TrackBegin`,
`TrackEmit`, `TrackProbe`, `TrackSelf`, `TrackRead` are one for each kind of step;
`TrackKept` and `TrackOthers` dispose of the devices a step does not touch.

**ScriptNotifier.** `EffectInv`: what was over when an event was taken still is, and
`effect` is that of an event whose script has ended and that no other such event
came after. A script that ends keeps this because it was not over when any event
was taken; `RunningInv` says that a script runs exactly for events that have one.

**Autolight.** `LightsInv`: every light not changed by something else agrees with
`lightOn` or is still to be written by the holder of the mutex, whose goal is
`lightOn`. `TrackInv`: for each device with a signal that overtook none, the last one
about it is held back and then the only one about it that is, or it is buffered
behind all others about it and true, or it was handled and `activeCameras` agrees
(`InOrder`, `Tracked`). `NewsArrives`, `ArrivalTracks` and `HandlingTracks` move a
signal one place on. `WishInv` connects `lightOn` to the user's last click or to
`activeCameras`, which with both others gives `FollowCorrect`.

**Service.** Types are carried over from `DaemonProofs`: every step of a life of
the process is one of `Daemon`'s (`ServiceSteps`), and `Reset` is well typed
whatever it replaces. `ServiceInv` follows one device from the camera to the
listeners, in two halves that meet in the coordinator's `active`. `FinalInv`: the
last event under way for the device (in the ring buffer, held by the detector, or
being queried; `active` if there is none) says whether the camera streams.
`MsgInv` and `HeardInv`: the message under way (being sent, in the channel, or
being emitted; what the listeners believe if there is none) says what `active`
says. Of a device that is off, the second half may fail as long as the listeners
believe what a crashed process told them, which is why it allows for `stale` and
for an ON that is still to come. `DownInv` (a process that does not run holds
nothing) is what `Boot` starts from. The lemmas `CameraDevice`, `ReadDevice`,
`PassDevice`, `HandleDevice`, `CoordinateDevice`, `TakeDevice` and `EmitDevice`
move the event or message one place on; `AppendRing` and `TailRing` say what that
does to the last event for a device.

`LivesAreDaemons` says what a life is: every step of the service is one of
`Daemon`, leaves it alone, or puts a process in its place that begins as `Daemon`
does. With it `LifeInv` holds in every life.

**From the cameras to the lights.** `EndToEnd` is built from `Service`
(`EndToEndIsService` only says so), and implements `Autolight` because only an
emission changes what the listeners believe (`Unnoticed`) and what is emitted is
a signal of `Autolight` (`EmittedSignal`). A daemon that has been started again may repeat an
ON or OFF, so `Autolight`'s `Announce` takes either type at any time; its
proofs hold for that. `LightsFollowCameras` then combines `ListenersTrackCameras`
and `LightsFollow`. Its uncertain cameras are those of `Service` (`stale`,
`unsent`) and the overtaken ones, and cameras without a signal since autolight
listens are left out: in particular a light stays on for a camera that stopped while the daemon was down.

Only model-checked: everything that says "eventually" and all properties under
fairness, which are beyond the prover (`SignalEndsProcess`,
`CoordinatorExitsWithBus`, `ChangesAreAnnounced`, `EndIsReported`, `RunReturns`,
`ChangesAreHeard`, `EventsAreTaken`, `EventsAreHandled`, `ClicksAreServed`,
`RunEnds`). Every other invariant, action property and refinement of the passing
runs is also a theorem. `LightsShowCameras` is only proved: the product of both
models is too large for a run.

## 6. Not modelled

- `V4L2DiscoverDevices` and `PrintNotifier`'s printing, which main does not use;
  `HasCapabilities` and the conversions of names and versions, which keep no
  state. The query itself is `node[d]` in `CameraCoordinator` and an open and a
  close in `Vb2Probes`.
- Device names that cannot be read in a probe, PIDs in namespaces.
- The rate limit of systemd's restarts, and what a second daemon beside the first
  would do.
- Generated code and the generated kernel header
  `src/bpf/include/videobuf2_v4l2.h`, which at 163,620 lines is nearly all of the
  repository and has no behaviour: the kernel functions behind its
  declarations are external in `Vb2Probes`.
- Icons, packaging other than the unit's `Restart=`, the bpftrace script, flags,
  logging and formatting; brightness and colour values of autolight.

## 7. What could come next

1. Several files of one process, and several devices, in a run for
   `EndIsReported`; their safety is proved, their liveness is not checked.
2. `Vb2Probes` in the place of `CameraOn` and `CameraOff` of `Service`, with
   `tainted` for `stale`; the theorem `ReportsCorrect` is the half of it that
   exists.
3. V4L2 discovery and `HasCapabilities` as operators checked against a reference
   definition, should main come to use them.
