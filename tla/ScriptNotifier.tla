--------------------------- MODULE ScriptNotifier ---------------------------
(***************************************************************************)
(* The script notifier: Run takes events from its channel and starts a     *)
(* goroutine for each, which runs the script configured for the event's    *)
(* type.  Run waits for none of them, and neither does main, which ends    *)
(* the process when its own goroutines are done.                           *)
(*                                                                         *)
(* External: the coordinator and main at the ends of the channel and the   *)
(* context, the scripts.  Abstracted: paths, the environment and output of *)
(* a script; effect is what the scripts leave behind in the world.         *)
(***************************************************************************)
EXTENDS Naturals, Sequences

CONSTANTS
  MaxEvents,   \* bound on the events that are delivered
  ChanCap,     \* capacity of the notifier's channel: 1 in main.go
  Scripts      \* event types a script is configured for

On == 1        \* CameraEventRecordingOn
Off == 2       \* CameraEventRecordingOff
Unknown == 0   \* stands for any other event type
Types == {On, Off, Unknown}
Events == 1 .. MaxEvents     \* the events in the order they are delivered

ASSUME BoundsAssumption == MaxEvents \in Nat /\ ChanCap \in Nat \ {0}
ASSUME ScriptsAssumption == Scripts \subseteq {On, Off}

VARIABLES
  loop,        \* Run: "select" or "done"
  delivered,   \* number of events sent to the channel
  taken,       \* number of events Run has taken from it
  type,        \* type of each delivered event
  script,      \* per event: "none", "ready" (its goroutine exists), "running",
               \* "ended", "failed", "ignored", "killed", "lost" or "orphan"
  closed, ctxDone, exited,   \* the channel, the context, the process
  effect,      \* type of the event whose script ended last
  over         \* per event: those whose script had ended when Run took it

envVars == <<delivered, type, closed, ctxDone>>
vars == <<loop, delivered, taken, type, script, closed, ctxDone, exited, effect, over>>

Init ==
  /\ loop = "select" /\ delivered = 0 /\ taken = 0
  /\ type = [i \in Events |-> Unknown] /\ script = [i \in Events |-> "none"]
  /\ closed = FALSE /\ ctxDone = FALSE /\ exited = FALSE
  /\ effect = Unknown /\ over = [i \in Events |-> {}]

-----------------------------------------------------------------------------
(* Run                                                                     *)

(* A definition whose comment starts with "Slip" is a plausible mistake in *)
(* the definition after it; it is part of no specification and serves to   *)
(* show that the properties notice it.                                     *)

Busy == \E i \in Events : script[i] \in {"ready", "running", "orphan"}
Ended == {i \in Events : script[i] = "ended"}

(* Slip: the event is handled in Run itself. *)
TakeWhenIdle ==
  /\ loop = "select" /\ taken < delivered /\ ~Busy
  /\ taken' = taken + 1
  /\ script' = [script EXCEPT ![taken + 1] = "ready"]
  /\ over' = [over EXCEPT ![taken + 1] = Ended]
  /\ UNCHANGED <<loop, envVars, exited, effect>>

Take ==
  /\ loop = "select" /\ taken < delivered
  /\ taken' = taken + 1
  /\ script' = [script EXCEPT ![taken + 1] = "ready"]
  /\ over' = [over EXCEPT ![taken + 1] = Ended]
  /\ UNCHANGED <<loop, envVars, exited, effect>>

Return ==
  /\ loop = "select"
  /\ loop' = "done"
  /\ UNCHANGED <<taken, envVars, script, exited, effect, over>>

ReturnOnDone == ctxDone /\ Return

ReturnOnClosed == closed /\ taken = delivered /\ Return

-----------------------------------------------------------------------------
(* handle, in the goroutine of event i                                     *)

Becomes(i, from, to) ==
  /\ ~exited /\ script[i] = from
  /\ script' = [script EXCEPT ![i] = to]
  /\ UNCHANGED <<loop, taken, envVars, exited, over>>

(* Slip: the cases are swapped. *)
OtherScriptOf(i) == CASE type[i] = On -> Off [] type[i] = Off -> On [] OTHER -> Unknown

ScriptOf(i) == type[i]

HasScript(i) == ScriptOf(i) \in Scripts

Ignore(i) ==
  ~HasScript(i) /\ Becomes(i, "ready", "ignored") /\ UNCHANGED effect

(* Slip: one script at a time. *)
StartScriptAlone(i) ==
  /\ HasScript(i) /\ ~ctxDone /\ \A j \in Events : script[j] # "running"
  /\ Becomes(i, "ready", "running") /\ UNCHANGED effect

StartScript(i) ==
  /\ HasScript(i) /\ ~ctxDone
  /\ Becomes(i, "ready", "running") /\ UNCHANGED effect

(* The script cannot be run, or the context is done before it is.          *)
StartFails(i) ==
  HasScript(i) /\ Becomes(i, "ready", "failed") /\ UNCHANGED effect

(* Also the script that an ended process has left behind.                  *)
EndScript(i) ==
  /\ script[i] \in {"running", "orphan"}
  /\ script' = [script EXCEPT ![i] = "ended"]
  /\ effect' = ScriptOf(i)
  /\ UNCHANGED <<loop, taken, envVars, exited, over>>

KillScript(i) == ctxDone /\ Becomes(i, "running", "killed") /\ UNCHANGED effect

-----------------------------------------------------------------------------
(* The coordinator and main                                                *)

(* Slip: one event too many fits. *)
HasRoomForOneMore == delivered - taken <= ChanCap

HasRoom == delivered - taken < ChanCap

Deliver(t) ==
  /\ delivered < MaxEvents /\ ~closed /\ HasRoom
  /\ delivered' = delivered + 1
  /\ type' = [type EXCEPT ![delivered + 1] = t]
  /\ UNCHANGED <<loop, taken, script, closed, ctxDone, exited, effect, over>>

Close ==
  /\ ~closed /\ closed' = TRUE
  /\ UNCHANGED <<loop, taken, delivered, type, script, ctxDone, exited, effect, over>>

Cancel ==
  /\ ~ctxDone /\ ctxDone' = TRUE
  /\ UNCHANGED <<loop, taken, delivered, type, script, closed, exited, effect, over>>

(* main waits for Run, not for the goroutines Run has started: a script    *)
(* that is not yet started never is, a running one is left behind.         *)
Exit ==
  /\ ~exited /\ loop = "done" /\ closed
  /\ exited' = TRUE
  /\ script' = [i \in Events |-> CASE script[i] = "ready"   -> "lost"
                                   [] script[i] = "running" -> "orphan"
                                   [] OTHER                 -> script[i]]
  /\ UNCHANGED <<loop, taken, envVars, effect, over>>

RunStep == Take \/ ReturnOnDone \/ ReturnOnClosed
Handle(i) == Ignore(i) \/ StartScript(i) \/ StartFails(i)

Next ==
  \/ RunStep
  \/ \E i \in Events : Handle(i) \/ EndScript(i) \/ KillScript(i)
  \/ \E t \in Types : Deliver(t)
  \/ Close \/ Cancel \/ Exit

Spec == Init /\ [][Next]_vars

(* Goroutines run.  A script need never end or fail, main need not exit.   *)
Proceed(i) == Ignore(i) \/ StartScript(i) \/ (ctxDone /\ StartFails(i))
Fairness == WF_vars(RunStep) /\ \A i \in Events : WF_vars(Proceed(i))

FairSpec == Spec /\ Fairness

-----------------------------------------------------------------------------
(* Properties                                                              *)

TypeOK ==
  /\ loop \in {"select", "done"}
  /\ delivered \in 0 .. MaxEvents /\ taken \in 0 .. delivered /\ delivered - taken <= ChanCap
  /\ type \in [Events -> Types]
  /\ script \in [Events -> {"none", "ready", "running", "ended", "failed", "ignored",
                            "killed", "lost", "orphan"}]
  /\ \A i \in Events : script[i] = "none" <=> i > taken
  /\ closed \in BOOLEAN /\ ctxDone \in BOOLEAN /\ exited \in BOOLEAN
  /\ effect \in Types /\ over \in [Events -> SUBSET Events]

(* The events taken that have a script, and nothing keeps it from running  *)
(* to its end.                                                             *)
Wanted ==
  {i \in 1 .. taken : type[i] \in Scripts /\ script[i] \notin {"failed", "killed", "lost"}}

(* Once every event is taken and no script under way any more, also none   *)
(* that the process has left behind, the world is as one of the events     *)
(* wants it, and none that was over and done with before another was taken.*)
(* So events whose scripts overlap may leave the effect of either, but an  *)
(* earlier overlap, or a script that failed or was killed, never spoils    *)
(* what the later events leave.                                            *)
EffectFollowsEvents ==
  taken = delivered /\ ~Busy /\ Wanted # {} =>
    \E i \in Wanted : effect = type[i] /\ \A j \in Wanted : i \notin over[j]

(* Run takes every event that is delivered, or is cancelled, even if no    *)
(* script ever ends: a hanging script does not block the coordinator.      *)
EventsAreTaken ==
  \A i \in Events : (i <= delivered) ~> (i <= taken \/ ctxDone)

(* Every event taken is acted upon, unless the process ends, even if the   *)
(* scripts before it hang.                                                 *)
EventsAreHandled ==
  \A i \in Events : (script[i] = "ready") ~> (script[i] # "ready")

=============================================================================
