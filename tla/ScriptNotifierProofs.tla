------------------------ MODULE ScriptNotifierProofs ------------------------
(***************************************************************************)
(* Proofs about ScriptNotifier for any number of events, any capacity of   *)
(* the channel and any choice of configured scripts.                       *)
(***************************************************************************)
EXTENDS ScriptNotifier, TLAPS

(* A script runs only for an event that has one, and only such an event is *)
(* not ignored.                                                            *)
RunningInv ==
  \A i \in Events :
    /\ script[i] \in {"running", "orphan", "ended"} => type[i] \in Scripts
    /\ script[i] = "ignored" => type[i] \notin Scripts

(* What was over when an event was taken still is, and effect is that of   *)
(* an event whose script has ended and that no other such event came after.*)
EffectInv ==
  /\ \A j \in Events : over[j] \subseteq Ended
  /\ Ended # {} => \E i \in Ended : effect = type[i] /\ \A j \in Ended : i \notin over[j]

IInv == TypeOK /\ RunningInv /\ EffectInv

LEMMA InitInv == Init => IInv
<1> SUFFICES ASSUME Init PROVE IInv
  OBVIOUS
<1>1. TypeOK
  <2>1. type \in [Events -> Types] /\ effect \in Types
    BY DEF Init, Types
  <2>2. \A i \in Events : script[i] = "none" /\ i > taken
    BY BoundsAssumption DEF Init, Events
  <2>3. delivered \in 0 .. MaxEvents /\ taken \in 0 .. delivered /\ delivered - taken <= ChanCap
    BY BoundsAssumption DEF Init
  <2>4. script \in [Events -> {"none", "ready", "running", "ended", "failed", "ignored",
                               "killed", "lost", "orphan"}]
    BY DEF Init
  <2> QED
    BY <2>1, <2>2, <2>3, <2>4 DEF Init, TypeOK
<1>2. RunningInv /\ EffectInv
  BY DEF Init, RunningInv, EffectInv, Ended
<1> QED
  BY <1>1, <1>2 DEF IInv

(* Typing survives a change of one script that keeps it taken.             *)
LEMMA BecomesType ==
  ASSUME TypeOK, NEW i \in Events, NEW from, NEW to, Becomes(i, from, to),
         from \in {"ready", "running"},
         to \in {"running", "failed", "ignored", "killed"}, effect' = effect
  PROVE  TypeOK'
<1>1. /\ script'[i] = to /\ \A j \in Events : j # i => script'[j] = script[j]
      /\ script' \in [Events -> {"none", "ready", "running", "ended", "failed", "ignored",
                                 "killed", "lost", "orphan"}]
  BY DEF Becomes, TypeOK
<1>2. /\ over' = over /\ loop' = loop /\ taken' = taken /\ delivered' = delivered /\ type' = type
      /\ closed' = closed /\ ctxDone' = ctxDone /\ exited' = exited
  BY DEF Becomes, envVars
<1>3. script[i] # "none"
  BY DEF Becomes
<1>4. \A j \in Events : script'[j] = "none" <=> j > taken'
  BY <1>1, <1>2, <1>3 DEF TypeOK
<1> QED
  BY <1>1, <1>2, <1>4 DEF TypeOK

LEMMA TypeStep == TypeOK /\ [Next]_vars => TypeOK'
<1> SUFFICES ASSUME TypeOK, [Next]_vars PROVE TypeOK'
  OBVIOUS
<1>1. CASE Take
  <2>1. taken + 1 \in Events /\ taken' = taken + 1 /\ delivered' = delivered
    BY <1>1, BoundsAssumption DEF Take, TypeOK, Events, envVars
  <2>2. \A j \in Events : script'[j] = IF j = taken + 1 THEN "ready" ELSE script[j]
    BY <1>1, <2>1 DEF Take, TypeOK
  <2>3. \A j \in Events : script'[j] = "none" <=> j > taken'
    BY <2>1, <2>2 DEF TypeOK, Events
  <2>4. over' \in [Events -> SUBSET Events]
    BY <1>1 DEF Take, TypeOK, Ended
  <2>5. taken' \in 0 .. delivered' /\ delivered' - taken' <= ChanCap
    BY <1>1, <2>1, BoundsAssumption DEF Take, TypeOK
  <2> QED
    BY <1>1, <2>1, <2>3, <2>4, <2>5 DEF Take, TypeOK, envVars
<1>2. CASE ReturnOnDone \/ ReturnOnClosed
  BY <1>2 DEF ReturnOnDone, ReturnOnClosed, Return, TypeOK, envVars
<1>3. ASSUME NEW i \in Events, Handle(i) \/ KillScript(i) PROVE TypeOK'
  <2>1. effect' = effect
    BY <1>3 DEF Handle, Ignore, StartScript, StartFails, KillScript
  <2>2. PICK from \in {"ready", "running"},
             to \in {"running", "failed", "ignored", "killed"} : Becomes(i, from, to)
    BY <1>3 DEF Handle, Ignore, StartScript, StartFails, KillScript
  <2> QED
    BY <2>1, <2>2, BecomesType
<1>8. ASSUME NEW i \in Events, EndScript(i) PROVE TypeOK'
  <2>1. \A j \in Events : script'[j] = IF j = i THEN "ended" ELSE script[j]
    BY <1>8 DEF EndScript, TypeOK
  <2>2. \A j \in Events : script'[j] = "none" <=> script[j] = "none"
    BY <1>8, <2>1 DEF EndScript
  <2>3. /\ script' \in [Events -> {"none", "ready", "running", "ended", "failed", "ignored",
                                   "killed", "lost", "orphan"}]
        /\ effect' \in Types
    BY <1>8 DEF EndScript, ScriptOf, TypeOK
  <2> QED
    BY <1>8, <2>2, <2>3 DEF EndScript, TypeOK, envVars
<1>4. ASSUME NEW t \in Types, Deliver(t) PROVE TypeOK'
  <2>1. delivered' \in 0 .. MaxEvents /\ taken' \in 0 .. delivered' /\ delivered' - taken' <= ChanCap
    BY <1>4, BoundsAssumption DEF Deliver, HasRoom, TypeOK
  <2> QED
    BY <1>4, <2>1 DEF Deliver, TypeOK
<1>5. CASE Close \/ Cancel
  BY <1>5 DEF Close, Cancel, TypeOK
<1>6. CASE Exit
  BY <1>6 DEF Exit, TypeOK, envVars
<1>7. CASE UNCHANGED vars
  BY <1>7 DEF vars, envVars, TypeOK
<1> QED
  BY <1>1, <1>2, <1>3, <1>4, <1>5, <1>6, <1>7, <1>8 DEF Next, RunStep

(* Type correctness: Run takes no event that was not delivered, at most    *)
(* ChanCap are buffered, and exactly the events taken have a goroutine     *)
(* behind them.                                                            *)
THEOREM TypeCorrect == Spec => []TypeOK
<1>1. Init => TypeOK
  BY InitInv DEF IInv
<1> QED
  BY <1>1, TypeStep, PTL DEF Spec

-----------------------------------------------------------------------------
LEMMA RunningStep == TypeOK /\ RunningInv /\ [Next]_vars => RunningInv'
<1> SUFFICES ASSUME TypeOK, RunningInv, [Next]_vars PROVE RunningInv'
  OBVIOUS
<1>1. CASE Take
  BY <1>1 DEF Take, RunningInv, TypeOK, envVars
<1>2. CASE ReturnOnDone \/ ReturnOnClosed \/ Close \/ Cancel \/ UNCHANGED vars
  BY <1>2 DEF ReturnOnDone, ReturnOnClosed, Return, Close, Cancel, vars, envVars, RunningInv
<1>3. ASSUME NEW i \in Events, Handle(i) \/ EndScript(i) \/ KillScript(i) PROVE RunningInv'
  BY <1>3 DEF Handle, Ignore, StartScript, StartFails, EndScript, KillScript, Becomes, HasScript,
              ScriptOf, envVars, RunningInv, TypeOK
<1>4. ASSUME NEW t \in Types, Deliver(t) PROVE RunningInv'
  <2>1. delivered + 1 \in Events => script[delivered + 1] = "none"
    BY DEF TypeOK
  <2> QED
    BY <1>4, <2>1 DEF Deliver, RunningInv, TypeOK
<1>5. CASE Exit
  BY <1>5 DEF Exit, RunningInv, TypeOK, envVars
<1> QED
  BY <1>1, <1>2, <1>3, <1>4, <1>5 DEF Next, RunStep

LEMMA EffectStep == TypeOK /\ RunningInv /\ EffectInv /\ [Next]_vars => EffectInv'
<1> SUFFICES ASSUME TypeOK, RunningInv, EffectInv, [Next]_vars PROVE EffectInv'
  OBVIOUS
<1>s. ASSUME Ended' = Ended, UNCHANGED <<over, effect>>,
             \A i \in Ended : type'[i] = type[i]
      PROVE  EffectInv'
  BY <1>s DEF EffectInv
<1>1. CASE Take
  <2>1. taken + 1 \in Events /\ UNCHANGED <<type, effect>>
    BY <1>1, BoundsAssumption DEF Take, TypeOK, Events, envVars
  <2>2. script[taken + 1] = "none"
    BY <2>1 DEF TypeOK
  <2>3. \A j \in Events : script'[j] = IF j = taken + 1 THEN "ready" ELSE script[j]
    BY <1>1, <2>1 DEF Take, TypeOK
  <2>4. Ended' = Ended /\ taken + 1 \notin Ended
    BY <2>2, <2>3 DEF Ended
  <2>5. \A j \in Events : over'[j] = IF j = taken + 1 THEN Ended ELSE over[j]
    BY <1>1, <2>1 DEF Take, TypeOK
  <2>6. Ended \subseteq Events
    BY DEF Ended
  <2> QED
    BY <2>1, <2>4, <2>5, <2>6 DEF EffectInv
<1>2. CASE ReturnOnDone \/ ReturnOnClosed \/ Close \/ Cancel \/ UNCHANGED vars
  BY <1>2, <1>s DEF ReturnOnDone, ReturnOnClosed, Return, Close, Cancel, vars, envVars, Ended
<1>3. ASSUME NEW i \in Events, Handle(i) \/ KillScript(i) PROVE EffectInv'
  <2>1. PICK from \in {"ready", "running"},
             to \in {"running", "failed", "ignored", "killed"} : Becomes(i, from, to)
    BY <1>3 DEF Handle, Ignore, StartScript, StartFails, KillScript
  <2>2. UNCHANGED <<over, effect, type>>
    BY <1>3 DEF Handle, Ignore, StartScript, StartFails, KillScript, Becomes, envVars
  <2>3. Ended' = Ended
    BY <2>1 DEF Becomes, Ended, TypeOK
  <2> QED
    BY <2>2, <2>3, <1>s
<1>4. ASSUME NEW i \in Events, EndScript(i) PROVE EffectInv'
  <2>1. \A j \in Events : script'[j] = IF j = i THEN "ended" ELSE script[j]
    BY <1>4 DEF EndScript, TypeOK
  <2>2. script[i] \in {"running", "orphan"} /\ UNCHANGED <<over, type>> /\ effect' = type[i]
    BY <1>4 DEF EndScript, ScriptOf, envVars
  <2>3. Ended' = Ended \cup {i} /\ i \notin Ended
    BY <2>1, <2>2 DEF Ended
  <2>4. \A j \in Events : i \notin over'[j]
    BY <2>2, <2>3 DEF EffectInv
  <2>5. Ended' \subseteq Events
    BY DEF Ended
  <2> QED
    BY <2>2, <2>3, <2>4, <2>5 DEF EffectInv
<1>5. ASSUME NEW t \in Types, Deliver(t) PROVE EffectInv'
  <2>1. delivered + 1 \notin Ended
    BY DEF TypeOK, Ended
  <2>2. UNCHANGED <<script, over, effect>> /\ type' = [type EXCEPT ![delivered + 1] = t]
    BY <1>5 DEF Deliver
  <2>3. Ended' = Ended /\ \A i \in Ended : type'[i] = type[i]
    BY <2>1, <2>2 DEF TypeOK, Ended
  <2> QED
    BY <2>2, <2>3, <1>s
<1>6. CASE Exit
  <2>1. UNCHANGED <<over, effect, type>>
    BY <1>6 DEF Exit, envVars
  <2>2. \A i \in Events : script'[i] = "ended" <=> script[i] = "ended"
    BY <1>6 DEF Exit
  <2>3. Ended' = Ended
    BY <2>2 DEF Ended
  <2> QED
    BY <2>1, <2>3, <1>s
<1> QED
  BY <1>1, <1>2, <1>3, <1>4, <1>5, <1>6 DEF Next, RunStep

LEMMA EffectImplies == IInv => EffectFollowsEvents
<1> SUFFICES ASSUME IInv, taken = delivered, ~Busy, Wanted # {}
             PROVE  \E i \in Wanted : effect = type[i] /\ \A j \in Wanted : i \notin over[j]
  BY DEF EffectFollowsEvents
<1>1. \A i \in Events : i \in 1 .. taken <=> script[i] # "none"
  BY DEF IInv, TypeOK, Events
<1>2. 1 .. taken \subseteq Events
  BY BoundsAssumption DEF IInv, TypeOK, Events
<1>3. Wanted \subseteq Ended
  BY <1>1, <1>2 DEF IInv, TypeOK, RunningInv, Busy, Wanted, Ended
<1>4. Ended \subseteq Wanted
  BY <1>1 DEF IInv, RunningInv, Wanted, Ended
<1> QED
  BY <1>3, <1>4 DEF IInv, EffectInv

(* Whatever scripts overlapped, failed, were killed or left behind, for    *)
(* any number of events, an event that was over and done with before       *)
(* another was taken is never the one that left its effect.                *)
THEOREM EffectCorrect == Spec => []EffectFollowsEvents
<1>1. IInv /\ [Next]_vars => IInv'
  BY TypeStep, RunningStep, EffectStep DEF IInv
<1> QED
  BY InitInv, <1>1, EffectImplies, PTL DEF Spec

=============================================================================
