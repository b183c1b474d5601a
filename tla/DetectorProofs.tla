--------------------------- MODULE DetectorProofs ---------------------------
(***************************************************************************)
(* Proofs about Detector, alone and as the detector of Daemon, for every   *)
(* set of devices, every size of the ring buffer and every number of       *)
(* notifiers.                                                              *)
(***************************************************************************)
EXTENDS DetectorInDaemon, FiniteSetTheorems, SequenceTheorems, TLAPS

(* What may be held while Run is still acquiring.                          *)
Prefixes == {{}, {"objs"}, {"objs", "streamon"}, {"objs", "streamon", "streamoff"}, Deferred}

(* Where the two goroutines are, and what they hold and know, by the place *)
(* of Run.  While Run waits, a result is in errCh exactly when the reader  *)
(* has ended; when Run joins a reader that still runs, the context is done.*)
PlaceInv ==
  /\ at = "opening" => held \in Prefixes /\ rd = "none"
  /\ at = "waiting" => held = Resources /\ rd # "none"
  /\ at = "joining" => held = Deferred /\ rd # "none" /\ (rd # "ended" => ctxDone)
  /\ at = "returned" => held = {} /\ rd \in {"none", "ended"}

ResultInv ==
  /\ rd # "ended" => errCh = <<>>
  /\ at = "waiting" /\ rd = "ended" => errCh # <<>>
  /\ rd = "reporting" /\ result = "nil" => ctxDone
  /\ errCh # <<>> /\ Head(errCh) = "nil" => ctxDone
  /\ at \in {"joining", "returned"} => err = "failed" \/ ctxDone

IInv == TypeOK /\ PlaceInv /\ ResultInv

LEMMA ResourceNames ==
  /\ Deferred = {"objs", "streamon", "streamoff", "release"}
  /\ Resources = Deferred \cup {"reader"}
  /\ Links \subseteq Deferred
BY DEF Deferred, Resources, Links

(* The resource that Run acquires next, by what it holds.                  *)
LEMMA NextInOrder ==
  ASSUME held \in Prefixes
  PROVE  /\ held \cup {NextResource} \in Prefixes \cup {Resources}
         /\ NextResource = "reader" <=> held = Deferred
         /\ NextResource = "reader" => held \cup {NextResource} = Resources
<1>1. IsFiniteSet({}) /\ Cardinality({}) = 0
  BY FS_EmptySet
<1>2. IsFiniteSet({"objs"}) /\ Cardinality({"objs"}) = 1
  BY FS_Singleton
<1>3. /\ IsFiniteSet({"objs", "streamon"})
      /\ Cardinality({"objs", "streamon"}) = 2
  <2>1. {"objs", "streamon"} = {"objs"} \cup {"streamon"}
    OBVIOUS
  <2> QED BY <1>2, <2>1, FS_AddElement
<1>4. /\ IsFiniteSet({"objs", "streamon", "streamoff"})
      /\ Cardinality({"objs", "streamon", "streamoff"}) = 3
  <2>1. {"objs", "streamon", "streamoff"} = {"objs", "streamon"} \cup {"streamoff"}
    OBVIOUS
  <2> QED BY <1>3, <2>1, FS_AddElement
<1>5. Cardinality(Deferred) = 4
  <2>1. Deferred = {"objs", "streamon", "streamoff"} \cup {"release"}
    BY ResourceNames
  <2> QED BY <1>4, <2>1, FS_AddElement
<1>6. /\ Order[1] = "objs" /\ Order[2] = "streamon" /\ Order[3] = "streamoff"
      /\ Order[4] = "release" /\ Order[5] = "reader"
  BY DEF Order
<1>7. CASE held = {}
  BY <1>7, <1>1, <1>6, ResourceNames DEF NextResource, Prefixes
<1>8. CASE held = {"objs"}
  BY <1>8, <1>2, <1>6, ResourceNames DEF NextResource, Prefixes
<1>9. CASE held = {"objs", "streamon"}
  BY <1>9, <1>3, <1>6, ResourceNames DEF NextResource, Prefixes
<1>10. CASE held = {"objs", "streamon", "streamoff"}
  BY <1>10, <1>4, <1>6, ResourceNames DEF NextResource, Prefixes
<1>11. CASE held = Deferred
  BY <1>11, <1>5, <1>6, ResourceNames DEF NextResource, Prefixes
<1> QED
  BY <1>7, <1>8, <1>9, <1>10, <1>11 DEF Prefixes

LEMMA PrefixesDeferred ==
  ASSUME NEW h \in Prefixes \cup {Resources, Deferred}
  PROVE  /\ h \subseteq Resources
         /\ h \ Deferred = IF h = Resources THEN {"reader"} ELSE {}
         /\ h \ {"reader"} \subseteq Deferred
BY ResourceNames DEF Prefixes

(* The oldest event in the ring buffer and what remains.                   *)
LEMMA TakeEvent ==
  ASSUME ring \in Seq(Events), ring # <<>>
  PROVE  /\ Head(ring) \in Events /\ Sent(Head(ring)) \in Reports
         /\ Tail(ring) \in Seq(Events) /\ Len(Tail(ring)) <= Len(ring)
         /\ Len(ring) \in Nat /\ Len(Tail(ring)) \in Nat
<1>1. Head(ring) \in Events /\ Tail(ring) \in Seq(Events) /\ Len(Tail(ring)) = Len(ring) - 1
  BY EmptySeq, HeadTailProperties
<1> QED
  BY <1>1 DEF Events, Reports, Sent, TypeOf, On, Off

-----------------------------------------------------------------------------
LEMMA InitInv == Init => IInv
<1> SUFFICES ASSUME Init PROVE IInv
  OBVIOUS
<1>1. TypeOK
  <2>1. /\ errCh \in Seq({"nil", "failed"}) /\ Len(errCh) <= ErrCap
        /\ ring \in Seq(Events) /\ Len(ring) <= RingCap
    BY DetectorAssumption DEF Init, ErrCap
  <2>2. out # NoEvent <=> rd = "sending"
    BY DEF Init
  <2> QED
    BY <2>1, <2>2 DEF Init, TypeOK
<1>2. PlaceInv
  BY DEF Init, PlaceInv, Prefixes
<1>3. ResultInv
  BY DEF Init, ResultInv
<1> QED
  BY <1>1, <1>2, <1>3 DEF IInv

LEMMA RunKeepsInv ==
  ASSUME IInv, RunStep
  PROVE  IInv'
<1> USE ResourceNames, DetectorAssumption DEF IInv
<1>1. CASE Open
  <2>1. held \in Prefixes /\ rd = "none" /\ at = "opening"
    BY <1>1 DEF Open, PlaceInv
  <2>2. held' \in Prefixes \cup {Resources} /\ held' \subseteq Resources
    BY <1>1, <2>1, NextInOrder, PrefixesDeferred DEF Open
  <2>3. CASE NextResource = "reader"
    <3>1. held' = Resources /\ at' = "waiting" /\ rd' = "reading"
      BY <1>1, <2>1, <2>3, NextInOrder DEF Open
    <3>2. TypeOK'
      BY <1>1, <2>1, <3>1 DEF TypeOK, Open
    <3>3. PlaceInv'
      BY <3>1 DEF PlaceInv
    <3>4. ResultInv'
      BY <1>1, <2>1, <3>1 DEF ResultInv, Open
    <3> QED
      BY <3>2, <3>3, <3>4
  <2>4. CASE NextResource # "reader"
    <3>1. at' = at /\ rd' = rd
      BY <1>1, <2>4 DEF Open
    <3>2. held' # Resources
      <4>1. held # Deferred /\ NextResource # "reader" /\ "reader" \notin held
        BY <2>1, <2>4, NextInOrder DEF Prefixes
      <4>2. "reader" \notin held'
        BY <1>1, <4>1 DEF Open
      <4> QED
        BY <4>2
    <3>3. held' \in Prefixes
      BY <2>2, <3>2
    <3>4. TypeOK'
      BY <1>1, <2>1, <2>2, <3>1 DEF TypeOK, Open
    <3>5. PlaceInv'
      BY <2>1, <3>1, <3>3 DEF PlaceInv
    <3>6. ResultInv'
      BY <1>1, <2>1, <3>1 DEF ResultInv, Open
    <3> QED
      BY <3>4, <3>5, <3>6
  <2> QED
    BY <2>3, <2>4
<1>2. CASE OpenFails
  <2>1. held \in Prefixes /\ rd = "none" /\ "reader" \notin held
    BY <1>2 DEF OpenFails, PlaceInv, Prefixes
  <2>2. held' = {}
    BY <1>2, <2>1, PrefixesDeferred DEF OpenFails, RunDeferred
  <2>3. TypeOK'
    BY <1>2, <2>2 DEF TypeOK, OpenFails, readerVars
  <2> QED
    BY <1>2, <2>1, <2>2, <2>3 DEF PlaceInv, ResultInv, OpenFails, readerVars
<1>3. CASE SelectDone
  <2>1. held' = Deferred /\ rd # "none" /\ ctxDone /\ at' = "joining"
    BY <1>3 DEF SelectDone, CloseReader, PlaceInv
  <2>2. TypeOK'
    BY <1>3, <2>1 DEF TypeOK, SelectDone, readerVars
  <2> QED
    BY <1>3, <2>1, <2>2 DEF PlaceInv, ResultInv, SelectDone, readerVars
<1>4. CASE SelectResult
  <2>1. held' = Deferred /\ rd = "ended" /\ at' = "joining"
    BY <1>4 DEF SelectResult, CloseReader, PlaceInv, ResultInv, TypeOK
  <2>2. Len(errCh) = 1 /\ Head(errCh) \in {"nil", "failed"} /\ Tail(errCh) = <<>>
    <3>1. errCh # <<>> /\ Len(errCh) <= 1 /\ errCh \in Seq({"nil", "failed"})
      BY <1>4 DEF SelectResult, TypeOK, ErrCap
    <3>2. Len(errCh) = 1 /\ Head(errCh) \in {"nil", "failed"}
      BY <3>1, EmptySeq, HeadTailProperties
    <3>3. Len(Tail(errCh)) = 0 /\ Tail(errCh) \in Seq({"nil", "failed"})
      BY <3>1, <3>2, HeadTailProperties
    <3> QED
      BY <3>2, <3>3, EmptySeq
  <2>3. TypeOK'
    BY <1>4, <2>1, <2>2 DEF TypeOK, SelectResult, readerVars, ErrCap
  <2>4. err' = "failed" \/ ctxDone
    BY <1>4, <2>2 DEF SelectResult, ResultInv
  <2> QED
    BY <1>4, <2>1, <2>2, <2>3, <2>4 DEF PlaceInv, ResultInv, SelectResult, readerVars
<1>5. CASE Return
  <2>1. held' = {} /\ rd = "ended" /\ at' = "returned" /\ at = "joining"
    BY <1>5 DEF Return, RunDeferred, PlaceInv
  <2>2. TypeOK'
    BY <1>5, <2>1 DEF TypeOK, Return, readerVars
  <2> QED
    BY <1>5, <2>1, <2>2 DEF PlaceInv, ResultInv, Return, readerVars
<1> QED
  BY <1>1, <1>2, <1>3, <1>4, <1>5 DEF RunStep

LEMMA ReaderKeepsInv ==
  ASSUME IInv, ReaderStep
  PROVE  IInv'
<1> USE ResourceNames, DetectorAssumption DEF IInv, runVars, readerVars
<1>1. CASE Read
  <2>1. TypeOK'
    BY <1>1, TakeEvent DEF Read, CanRead, TypeOK
  <2> QED
    BY <1>1, <2>1 DEF PlaceInv, ResultInv, Read, CanRead
<1>2. CASE Discard
  <2>1. TypeOK'
    BY <1>2, TakeEvent DEF Discard, CanRead, TypeOK
  <2> QED
    BY <1>2, <2>1 DEF PlaceInv, ResultInv, Discard, CanRead
<1>3. CASE ReadFails
  <2>1. ring' \in Seq(Events) /\ Len(ring') <= RingCap
    BY <1>3, TakeEvent DEF ReadFails, TypeOK
  <2>2. TypeOK'
    BY <1>3, <2>1 DEF ReadFails, Finish, TypeOK
  <2>3. at = "waiting"
    BY <1>3 DEF ReadFails, PlaceInv, TypeOK, Prefixes
  <2> QED
    BY <1>3, <2>2, <2>3 DEF PlaceInv, ResultInv, ReadFails, Finish
<1>4. CASE ReadClosed
  <2>1. at = "joining" /\ ctxDone
    BY <1>4 DEF ReadClosed, PlaceInv, TypeOK
  <2>2. TypeOK'
    BY <1>4 DEF ReadClosed, Finish, TypeOK
  <2> QED
    BY <1>4, <2>1, <2>2 DEF PlaceInv, ResultInv, ReadClosed, Finish
<1>5. CASE Pass
  <2>1. TypeOK'
    BY <1>5 DEF Pass, TypeOK
  <2> QED
    BY <1>5, <2>1 DEF PlaceInv, ResultInv, Pass
<1>6. CASE AbandonOnDone
  <2>1. TypeOK'
    BY <1>6 DEF AbandonOnDone, Finish, TypeOK
  <2> QED
    BY <1>6, <2>1 DEF PlaceInv, ResultInv, AbandonOnDone, Finish
<1>7. CASE Report
  <2>1. errCh = <<>> /\ errCh' = <<result>> /\ result \in {"nil", "failed"}
    BY <1>7 DEF Report, ResultInv, TypeOK
  <2>2. TypeOK'
    BY <1>7, <2>1 DEF Report, TypeOK, ErrCap
  <2>3. result = "nil" => ctxDone
    BY <1>7 DEF Report, ResultInv
  <2> QED
    BY <1>7, <2>1, <2>2, <2>3 DEF PlaceInv, ResultInv, Report
<1> QED
  BY <1>1, <1>2, <1>3, <1>4, <1>5, <1>6, <1>7 DEF ReaderStep

LEMMA StepInv == IInv /\ [Next]_vars => IInv'
<1> SUFFICES ASSUME IInv, [Next]_vars PROVE IInv'
  OBVIOUS
<1> USE DEF runVars, readerVars
<1>1. CASE RunStep
  BY <1>1, RunKeepsInv
<1>2. CASE ReaderStep
  BY <1>2, ReaderKeepsInv
<1>3. ASSUME NEW e \in Events, Emit(e) PROVE IInv'
  <2>1. ring' \in Seq(Events) /\ Len(ring') = Len(ring) + 1 /\ Len(ring) \in Nat
    BY <1>3 DEF IInv, TypeOK, Emit
  <2>2. TypeOK'
    BY <1>3, <2>1, DetectorAssumption DEF IInv, TypeOK, Emit
  <2> QED
    BY <1>3, <2>2 DEF IInv, PlaceInv, ResultInv, Emit
<1>4. CASE Cancel
  BY <1>4 DEF IInv, TypeOK, PlaceInv, ResultInv, Cancel
<1>5. CASE UNCHANGED vars
  BY <1>5 DEF IInv, TypeOK, PlaceInv, ResultInv, vars
<1> QED
  BY <1>1, <1>2, <1>3, <1>4, <1>5 DEF Next

LEMMA Invariant == Spec => []IInv
BY InitInv, StepInv, PTL DEF Spec

(* Every reachable state of the detector is of the declared type: an event *)
(* is held exactly while it is offered, and errCh never holds two results. *)
THEOREM TypeCorrect == Spec => []TypeOK
<1>1. IInv => TypeOK
  BY DEF IInv
<1> QED
  BY <1>1, Invariant, PTL

(* Whichever acquisition fails, and whatever ends the reader, Run returns  *)
(* with everything closed (the defers and the two calls of reader.Close).  *)
THEOREM NoLeak == Spec => []NothingLeaked
<1>1. IInv => NothingLeaked
  BY DEF IInv, PlaceInv, NothingLeaked
<1> QED
  BY <1>1, Invariant, PTL

(* The reader goroutine only runs while Run does and while the objects and *)
(* links are open: what wg.Wait before the deferred closes is for.         *)
THEOREM ReaderContained == Spec => []ReaderInsideRun
<1>1. IInv => ReaderInsideRun
  BY ResourceNames DEF IInv, TypeOK, PlaceInv, ReaderInsideRun
<1> QED
  BY <1>1, Invariant, PTL

(* Run returns nil only if the context was cancelled.                      *)
THEOREM ReasonGiven == Spec => []EndsForAReason
<1>1. IInv => EndsForAReason
  BY DEF IInv, ResultInv, EndsForAReason
<1> QED
  BY <1>1, Invariant, PTL

-----------------------------------------------------------------------------
(* The refinement                                                          *)

(* The phase of the source by the places of the two goroutines.            *)
LEMMA PhaseOf ==
  ASSUME TypeOK, PlaceInv
  PROVE  /\ at = "opening" => Phase = "starting"
         /\ at # "opening" /\ rd \in {"reading", "sending"} => Phase = rd
         /\ rd \in {"reporting", "ended"} => Phase = "done"
         /\ at = "returned" => Phase = "done"
BY DEF TypeOK, PlaceInv, Phase

LEMMA InitMaps == Init => Source!Init
BY DEF Init, Source!Init, Phase

LEMMA StepMaps == IInv /\ IInv' /\ [Next]_vars => [Source!Next]_(Source!sourceVars)
<1> SUFFICES ASSUME IInv, IInv', [Next]_vars PROVE [Source!Next]_(Source!sourceVars)
  OBVIOUS
<1> USE DEF IInv, runVars, readerVars, Source!Next, Source!sourceVars
<1>p. /\ at = "opening" => Phase = "starting"
      /\ at # "opening" /\ rd \in {"reading", "sending"} => Phase = rd
      /\ rd \in {"reporting", "ended"} => Phase = "done"
      /\ at = "returned" => Phase = "done"
  BY PhaseOf
<1>q. /\ at' = "opening" => Phase' = "starting"
      /\ at' # "opening" /\ rd' \in {"reading", "sending"} => Phase' = rd'
      /\ rd' \in {"reporting", "ended"} => Phase' = "done"
      /\ at' = "returned" => Phase' = "done"
  BY DEF TypeOK, PlaceInv, Phase
<1>s. ASSUME at' = at, rd' = rd PROVE Phase' = Phase
  BY <1>s DEF Phase
<1>1. CASE Open
  <2>1. CASE NextResource = "reader"
    <3>1. Source!Ready
      BY <1>1, <2>1, <1>p, <1>q DEF Open, Source!Ready
    <3> QED
      BY <3>1
  <2>2. CASE NextResource # "reader"
    BY <1>1, <2>2, <1>s DEF Open
  <2> QED
    BY <2>1, <2>2
<1>2. CASE OpenFails
  <2>1. Source!GiveUp
    BY <1>2, <1>p, <1>q DEF OpenFails, Source!GiveUp
  <2> QED
    BY <2>1
<1>3. CASE SelectDone \/ SelectResult \/ Return
  <2>1. at # "opening" /\ at' # "opening" /\ rd' = rd /\ out' = out /\ taken' = taken
        /\ ctxDone' = ctxDone /\ rd \in {"reading", "sending", "reporting", "ended"}
    BY <1>3 DEF SelectDone, SelectResult, Return, TypeOK, PlaceInv
  <2>2. Phase' = Phase
    BY <2>1, <1>p, <1>q
  <2> QED
    BY <2>1, <2>2
<1>4. CASE Read
  <2>1. at # "opening" /\ at' = at /\ out' = Sent(Head(ring)) /\ Sent(Head(ring)) \in Reports
    BY <1>4, TakeEvent DEF Read, CanRead, TypeOK, PlaceInv
  <2>2. Source!Offer(Sent(Head(ring)))
    BY <1>4, <2>1, <1>p, <1>q DEF Read, CanRead, Source!Offer
  <2> QED
    BY <2>1, <2>2
<1>5. CASE Discard
  BY <1>5, <1>s DEF Discard
<1>6. CASE ReadFails
  <2>1. at # "opening" /\ at' = at /\ rd = "reading" /\ out = NoEvent
    BY <1>6 DEF ReadFails, TypeOK, PlaceInv
  <2>2. Source!GiveUp
    BY <1>6, <2>1, <1>p, <1>q DEF ReadFails, Finish, Source!GiveUp
  <2> QED
    BY <2>2
<1>7. CASE ReadClosed
  <2>1. at # "opening" /\ at' = at /\ rd = "reading" /\ ctxDone
    BY <1>7 DEF ReadClosed, TypeOK, PlaceInv, Resources
  <2>2. Source!Stop
    BY <1>7, <2>1, <1>p, <1>q DEF ReadClosed, Finish, Source!Stop
  <2> QED
    BY <2>2
<1>8. CASE Pass
  <2>1. at # "opening" /\ at' = at
    BY <1>8 DEF Pass, PlaceInv
  <2>2. Source!Pass
    BY <1>8, <2>1, <1>p, <1>q DEF Pass, Source!Pass
  <2> QED
    BY <2>2
<1>9. CASE AbandonOnDone
  <2>1. at # "opening" /\ at' = at
    BY <1>9 DEF AbandonOnDone, PlaceInv
  <2>2. Source!Stop
    BY <1>9, <2>1, <1>p, <1>q DEF AbandonOnDone, Finish, Source!Stop
  <2> QED
    BY <2>2
<1>10. CASE Report
  <2>1. Phase' = Phase
    BY <1>10, <1>p, <1>q DEF Report
  <2> QED
    BY <1>10, <2>1 DEF Report
<1>11. ASSUME NEW e \in Events, Emit(e) PROVE UNCHANGED Source!sourceVars
  BY <1>11, <1>s DEF Emit
<1>12. CASE Cancel
  <2>1. Source!Cancel
    BY <1>12, <1>s DEF Cancel, Source!Cancel
  <2> QED
    BY <2>1
<1>13. CASE UNCHANGED vars
  BY <1>13, <1>s DEF vars
<1> QED
  BY <1>1, <1>2, <1>3, <1>4, <1>5, <1>6, <1>7, <1>8, <1>9, <1>10, <1>11, <1>12, <1>13
  DEF Next, RunStep, ReaderStep

(* The eBPF detector offers one event at a time, withdraws one only when   *)
(* cancelled, and is then at its end: it is an event source as main and    *)
(* the coordinator expect it.                                              *)
THEOREM DetectorIsEventSource == Spec => IsEventSource
<1> QED
  BY InitMaps, StepMaps, Invariant, PTL DEF Spec, IsEventSource, Source!Spec

-----------------------------------------------------------------------------
(* In its place in the process                                             *)

(* The goroutines around it leave the detector as Detector describes it.   *)
LEMMA ProcessSteps == [ProcessNext]_processVars => [Next]_vars
BY DEF ProcessNext, DetectorAlone, PassOn, CloseAllEvents, OtherGoroutines, Terminate, Plug,
       processVars, Next, ReaderStep

(* Inside the process Run and its reader behave as Detector says.          *)
LEMMA ProcessRunsDetector == ProcessSpec => Spec
BY ProcessSteps, PTL DEF ProcessSpec, ProcessInit, Spec

LEMMA ProcessInvariant == ProcessSpec => []IInv
BY ProcessRunsDetector, Invariant, PTL

(* The event on offer is one that Daemon's detector may report.            *)
LEMMA OfferedReport ==
  ASSUME TypeOK
  PROVE  /\ out = NoEvent => Offered = NoEvent
         /\ out # NoEvent => Offered \in D!Reports(Vb2) /\ Offered # NoEvent
<1> USE DEF Offered
<1>1. ASSUME out # NoEvent PROVE Offered \in D!Reports(Vb2) /\ Offered # NoEvent
  <2>1. out \in Reports
    BY <1>1 DEF TypeOK
  <2>2. Offered \in D!C!Events /\ Offered.det = Vb2 /\ Offered.type \in {D!C!On, D!C!Off}
    BY <1>1, <2>1 DEF Reports, D!C!Events, On, Off, D!C!On, D!C!Off, D!C!Unknown
  <2> QED
    BY <2>2, EventAssumption DEF D!Reports
<1> QED
  BY <1>1

(* A step of an event source is a step of Daemon's detector.               *)
LEMMA SourceInDaemon ==
  ASSUME TypeOK, TypeOK', UNCHANGED <<ctxDone, otherVars>>,
         \/ Source!Ready \/ Source!GiveUp \/ Source!Stop
         \/ \E e \in Reports : Source!Offer(e)
  PROVE  D!Next
<1> USE DEF Offered, otherVars
<1>0. UNCHANGED <<D!coordVars, notPc, nextClose, exited>>
  BY DEF D!coordVars
<1>1. CASE Source!Ready
  <2>1. D!DetectorReady(Vb2)
    BY <1>0, <1>1 DEF Source!Ready, D!DetectorReady
  <2> QED
    BY <2>1 DEF D!Next, D!DetectorStep
<1>2. CASE Source!GiveUp
  <2>1. D!DetectorFails(Vb2)
    BY <1>0, <1>2 DEF Source!GiveUp, D!DetectorFails
  <2> QED
    BY <2>1 DEF D!Next, D!DetectorStep
<1>3. CASE Source!Stop
  <2>1. D!DetectorStops(Vb2)
    BY <1>0, <1>3 DEF Source!Stop, D!DetectorStops, D!CanStop
  <2> QED
    BY <2>1 DEF D!Next, D!DetectorStep
<1>4. ASSUME NEW e \in Reports, Source!Offer(e) PROVE D!Next
  <2>1. out' # NoEvent
    BY <1>4, DetectorAssumption DEF Source!Offer
  <2>2. Offered' \in D!Reports(Vb2)
    BY <2>1, DetectorAssumption DEF TypeOK, Reports, D!Reports, D!C!Events, On, Off, D!C!On,
       D!C!Off, D!C!Unknown
  <2>3. D!Detect(Vb2, Offered')
    BY <1>0, <1>4 DEF Source!Offer, D!Detect
  <2> QED
    BY <2>2, <2>3 DEF D!Next, D!DetectorStep
<1> QED
  BY <1>1, <1>2, <1>3, <1>4

(* The process stands still where the source and the others do.            *)
LEMMA StandsStill ==
  ASSUME UNCHANGED <<Phase, out, ctxDone, otherVars>>
  PROVE  UNCHANGED D!daemonVars
BY DEF Offered, otherVars, D!daemonVars, D!coordVars, D!procVars

(* What the detector's goroutines do by themselves Daemon says in a word.  *)
LEMMA AloneImplements ==
  ASSUME IInv, IInv', DetectorAlone
  PROVE  [D!Next]_(D!daemonVars)
<1>1. Next /\ UNCHANGED otherVars
  BY DEF DetectorAlone, Next, ReaderStep
<1>2. UNCHANGED ctxDone
  BY DEF DetectorAlone, RunStep, Open, OpenFails, SelectDone, SelectResult, Return, Read,
     Discard, ReadFails, ReadClosed, AbandonOnDone, Report, Emit
<1>3. [Source!Next]_(Source!sourceVars)
  BY <1>1, StepMaps
<1>4. ~Source!Pass
  <2>1. ~(rd = "sending" /\ rd' = "reading")
    BY DEF DetectorAlone, RunStep, Open, OpenFails, SelectDone, SelectResult, Return, Read,
       CanRead, Discard, ReadFails, ReadClosed, AbandonOnDone, Report, Emit, Finish, IInv,
       PlaceInv, readerVars
  <2>2. Phase = "sending" => rd = "sending"
    BY DEF Phase
  <2>3. Phase' = "reading" => rd' = "reading"
    BY DEF Phase
  <2> QED
    BY <2>1, <2>2, <2>3 DEF Source!Pass
<1>5. ~Source!Cancel
  BY <1>2 DEF Source!Cancel
<1>6. CASE UNCHANGED Source!sourceVars
  BY <1>1, <1>6, StandsStill DEF Source!sourceVars
<1>7. CASE \/ Source!Ready \/ Source!GiveUp \/ Source!Stop
           \/ \E e \in Reports : Source!Offer(e)
  BY <1>1, <1>2, <1>7, SourceInDaemon DEF IInv
<1> QED
  BY <1>3, <1>4, <1>5, <1>6, <1>7 DEF Source!Next

(* The event handed over is the one Daemon hands over.                     *)
LEMMA PassImplements ==
  ASSUME IInv, IInv', PassOn
  PROVE  D!Next
<1>1. Phase = "sending" /\ Phase' = "reading" /\ Offered' = NoEvent
  BY DEF PassOn, Pass, runVars, IInv, PlaceInv, Phase, Offered
<1>2. D!Pass(Vb2)
  BY <1>1 DEF PassOn, D!Pass
<1> QED
  BY <1>2 DEF D!Next, D!DetectorStep

(* Main's goroutine is done once Run has returned, which Daemon calls done.*)
LEMMA CloseImplements ==
  ASSUME IInv, CloseAllEvents
  PROVE  D!Next
<1>1. Phase = "done" /\ UNCHANGED <<Phase, Offered>>
  BY DEF CloseAllEvents, RunEnded, vars, runVars, readerVars, IInv, PlaceInv, Phase, Offered
<1>2. D!CloseAllEvents
  BY <1>1 DEF CloseAllEvents, D!CloseAllEvents, D!DetectorsDone, D!procVars
<1> QED
  BY <1>2 DEF D!Next

(* Every step of the process is one of Daemon, or Daemon stands still.     *)
LEMMA ProcessImplements ==
  IInv /\ IInv' /\ [ProcessNext]_processVars => [D!Next]_(D!daemonVars)
<1> SUFFICES ASSUME IInv, IInv', [ProcessNext]_processVars PROVE [D!Next]_(D!daemonVars)
  OBVIOUS
<1>1. CASE DetectorAlone
  BY <1>1, AloneImplements
<1>2. CASE PassOn \/ CloseAllEvents
  BY <1>2, PassImplements, CloseImplements
<1>3. CASE OtherGoroutines \/ Plug
  BY <1>3 DEF OtherGoroutines, Plug, D!Next
<1>4. CASE Terminate
  <2>1. UNCHANGED <<Phase, Offered, otherVars>> /\ ~ctxDone /\ ctxDone'
    BY <1>4 DEF Terminate, Cancel, runVars, readerVars, Phase, Offered
  <2>2. D!Signal
    BY <2>1 DEF otherVars, D!Signal, D!C!Cancel, D!procVars, D!C!outVars
  <2> QED
    BY <2>2 DEF D!Next
<1>5. CASE UNCHANGED processVars
  BY <1>5, StandsStill DEF processVars, vars, runVars, readerVars, Phase
<1> QED
  BY <1>1, <1>2, <1>3, <1>4, <1>5 DEF ProcessNext

(* The process with the eBPF detector's two goroutines in it is the process*)
(* that Daemon describes.                                                  *)
THEOREM DetectorFitsDaemon == ProcessSpec => ImplementsDaemon
<1>1. ProcessInit => D!Init
  BY DEF ProcessInit
<1> QED
  BY <1>1, ProcessInvariant, ProcessImplements, PTL DEF ProcessSpec, ImplementsDaemon, D!Spec

-----------------------------------------------------------------------------
(* What is proved of Daemon holds of the process                           *)

DP == INSTANCE DaemonProofs WITH Detectors <- {Vb2},
        detPc <- [t \in {Vb2} |-> Phase], held <- [t \in {Vb2} |-> Offered]

(* Daemon's assumptions hold of the process.                               *)
LEMMA DaemonAssumptions ==
  /\ BusMayFail \in BOOLEAN
  /\ NumOutputs \in Nat /\ NodeKinds \subseteq DP!C!AllNodeKinds /\ NoEvent \notin DP!C!Events
<1>1. NodeKinds \subseteq DP!C!AllNodeKinds
  BY ProcessAssumption DEF DP!C!AllNodeKinds, D!C!AllNodeKinds
<1>2. NoEvent \notin DP!C!Events
  BY EventAssumption DEF DP!C!Events, D!C!Events, DP!C!On, DP!C!Off, DP!C!Unknown, D!C!On,
     D!C!Off, D!C!Unknown
<1> QED
  BY <1>1, <1>2, ProcessAssumption

(* The Daemon of the proofs and the one the process implements are the     *)
(* same.                                                                   *)
LEMMA SameDaemon ==
  /\ D!Init <=> DP!Init
  /\ [D!Next]_(D!daemonVars) <=> [DP!Next]_(DP!daemonVars)
<1> USE DEF D!C!On, D!C!Off, D!C!Unknown, D!C!Outputs, D!C!Events, D!C!Messages,
            D!C!OnDevices, D!C!Message, D!C!outVars, D!C!envVars, D!C!BackToSelect, DP!C!On,
            DP!C!Off, DP!C!Unknown, DP!C!Outputs, DP!C!Events, DP!C!Messages,
            DP!C!OnDevices, DP!C!Message, DP!C!outVars, DP!C!envVars, DP!C!BackToSelect
<1> USE DEF D!coordVars, D!detVars, D!procVars, D!Outputs, D!DBus, D!DetectorsDone,
            D!Closed, D!CanStop, D!CanEnd, D!AllEnded, DP!coordVars, DP!detVars,
            DP!procVars, DP!Outputs, DP!DBus, DP!DetectorsDone, DP!Closed, DP!CanStop,
            DP!CanEnd, DP!AllEnded
<1>1. D!Init <=> DP!Init
  BY DEF D!Init, D!C!Init, DP!Init, DP!C!Init
<1>2. D!daemonVars = DP!daemonVars /\ D!daemonVars' = DP!daemonVars'
  BY DEF D!daemonVars, DP!daemonVars
<1>3. D!C!Handle <=> DP!C!Handle
  BY DEF D!C!Handle, D!C!Skip, D!C!DuplicateOn, D!C!FirstOn, D!C!StrayOff,
         D!C!MatchingOff, D!C!UnknownType, D!C!Handling, D!C!ForwardIf, D!C!Outstanding,
         D!C!WasEmpty, D!C!LastActive, DP!C!Handle, DP!C!Skip, DP!C!DuplicateOn,
         DP!C!FirstOn, DP!C!StrayOff, DP!C!MatchingOff, DP!C!UnknownType, DP!C!Handling,
         DP!C!ForwardIf, DP!C!Outstanding, DP!C!WasEmpty, DP!C!LastActive
<1>4. D!C!Broadcast <=> DP!C!Broadcast
  BY DEF D!C!Broadcast, D!C!Send, D!C!Handoff, D!C!AbortBroadcast, D!C!EndBroadcast,
         D!C!Broadcasting, D!C!HasRoom, D!C!Deliver, DP!C!Broadcast, DP!C!Send,
         DP!C!Handoff, DP!C!AbortBroadcast, DP!C!EndBroadcast, DP!C!Broadcasting,
         DP!C!HasRoom, DP!C!Deliver
<1>5. D!RunCoordinator <=> DP!RunCoordinator
  BY <1>3, <1>4 DEF D!RunCoordinator, D!C!Start, D!C!ReturnOnDone, D!C!ReturnOnClosed,
         DP!RunCoordinator, DP!C!Start, DP!C!ReturnOnDone, DP!C!ReturnOnClosed
<1>6. \A t \in {Vb2} : D!DetectorStep(t) <=> DP!DetectorStep(t)
  BY DEF D!DetectorStep, D!DetectorReady, D!DetectorFails, D!Pass, D!C!Receive,
         D!DetectorStops, D!Detect, D!Reports, DP!DetectorStep, DP!DetectorReady,
         DP!DetectorFails, DP!Pass, DP!C!Receive, DP!DetectorStops, DP!Detect, DP!Reports
<1>7. \A o \in D!Outputs : D!NotifierStep(o) <=> DP!NotifierStep(o)
  BY DEF D!NotifierStep, D!Take, D!C!Consume, D!C!Deliver, D!Handled, D!NotifierStops,
         D!Notifier, DP!NotifierStep, DP!Take, DP!C!Consume, DP!C!Deliver, DP!Handled,
         DP!NotifierStops, DP!Notifier
<1>8. /\ D!CloseAllEvents <=> DP!CloseAllEvents
      /\ D!CloseNotifierChannel <=> DP!CloseNotifierChannel
      /\ D!Connect <=> DP!Connect
      /\ D!ConnectFails <=> DP!ConnectFails
      /\ D!Exit <=> DP!Exit
      /\ D!Signal <=> DP!Signal
  BY DEF D!CloseAllEvents, D!C!CloseEvents, D!CloseNotifierChannel, D!Connect,
         D!ConnectFails, D!Notifier, D!Exit, D!Signal, D!C!Cancel, DP!CloseAllEvents,
         DP!C!CloseEvents, DP!CloseNotifierChannel, DP!Connect, DP!ConnectFails,
         DP!Notifier, DP!Exit, DP!Signal, DP!C!Cancel
<1>9. \A d \in Devices, kind \in NodeKinds : D!Replug(d, kind) <=> DP!Replug(d, kind)
  BY DEF D!Replug, D!C!Replug, DP!Replug, DP!C!Replug
<1>10. D!Next <=> DP!Next
  BY <1>5, <1>6, <1>7, <1>8, <1>9 DEF D!Next, DP!Next
<1> QED
  BY <1>1, <1>2, <1>10

LEMMA SamePromises ==
  /\ D!NoSendOnClosed <=> DP!NoSendOnClosed
  /\ D!DrainedBeforeEnd <=> DP!DrainedBeforeEnd
  /\ D!NoDeadlock <=> DP!NoDeadlock
  /\ D!C!FeedInv <=> DP!C!FeedInv
<1> USE DEF D!C!On, D!C!Off, D!C!Unknown, D!C!Outputs, D!C!Events, D!C!Messages,
            D!C!OnDevices, D!C!Message, D!C!outVars, D!C!envVars, D!C!BackToSelect, DP!C!On,
            DP!C!Off, DP!C!Unknown, DP!C!Outputs, DP!C!Events, DP!C!Messages,
            DP!C!OnDevices, DP!C!Message, DP!C!outVars, DP!C!envVars, DP!C!BackToSelect
<1> USE DEF D!coordVars, D!detVars, D!procVars, D!Outputs, D!DBus, D!DetectorsDone,
            D!Closed, D!CanStop, D!CanEnd, D!AllEnded, DP!coordVars, DP!detVars,
            DP!procVars, DP!Outputs, DP!DBus, DP!DetectorsDone, DP!Closed, DP!CanStop,
            DP!CanEnd, DP!AllEnded
<1>1. D!NoSendOnClosed <=> DP!NoSendOnClosed
  BY DEF D!NoSendOnClosed, DP!NoSendOnClosed
<1>2. D!DrainedBeforeEnd <=> DP!DrainedBeforeEnd
  BY DEF D!DrainedBeforeEnd, DP!DrainedBeforeEnd
<1>3. D!NoDeadlock <=> DP!NoDeadlock
  BY DEF D!NoDeadlock, D!SomeoneCanGo, D!DetectorCanGo, D!CoordinatorCanGo,
         D!NotifierCanGo, D!C!HasRoom, D!Idle, D!StuckOnBus, D!BusLost, DP!NoDeadlock,
         DP!SomeoneCanGo, DP!DetectorCanGo, DP!CoordinatorCanGo, DP!NotifierCanGo,
         DP!C!HasRoom, DP!Idle, DP!StuckOnBus, DP!BusLost
<1>4. D!C!FeedInv <=> DP!C!FeedInv
  BY DEF D!C!FeedInv, D!C!Bridges, D!C!Explains, D!C!Switches, D!C!InFlight,
         DP!C!FeedInv, DP!C!Bridges, DP!C!Explains, DP!C!Switches, DP!C!InFlight
<1> QED
  BY <1>1, <1>2, <1>3, <1>4

(* So what Daemon promises the process keeps.                              *)
LEMMA ProcessPromises ==
  ProcessSpec => [](D!NoSendOnClosed /\ D!DrainedBeforeEnd /\ D!NoDeadlock /\ D!C!FeedInv)
<1>1. DP!Spec => []DP!NoSendOnClosed
  BY DaemonAssumptions, DP!NoPanic
<1>2. DP!Spec => []DP!DrainedBeforeEnd
  BY DaemonAssumptions, DP!Drained
<1>3. DP!Spec => []DP!NoDeadlock
  BY DaemonAssumptions, DP!DeadlockFree
<1>4. DP!Spec => [](DP!C!TypeOK /\ DP!C!FeedInv)
  BY DaemonAssumptions, DP!CoordinatorInvariants
<1>5. D!Spec => DP!Spec
  BY SameDaemon, PTL DEF D!Spec, DP!Spec
<1> QED
  BY <1>1, <1>2, <1>3, <1>4, <1>5, SamePromises, DetectorFitsDaemon, PTL DEF ImplementsDaemon

(* With the eBPF detector in it the process never sends on a closed        *)
(* channel, closing its channels drops nothing, and no notifier misses a   *)
(* change of the coordinator's map.                                        *)
THEOREM ProcessIsSafe ==
  ProcessSpec => [](D!NoSendOnClosed /\ D!DrainedBeforeEnd /\ D!C!FeedInv)
BY ProcessPromises, PTL

(* Where Daemon sees a detector that can go on, one of its goroutines can. *)
LEMMA DetectorGoes ==
  ASSUME IInv, D!DetectorCanGo(Vb2)
  PROVE  RunCanGo \/ ReaderCanGo
<1> USE DEF IInv, TypeOK, PlaceInv, ResultInv, RunCanGo, ReaderCanGo
<1>1. Phase = "starting" => at = "opening"
  BY DEF Phase
<1>2. Phase \in {"reading", "sending"} => at \in {"waiting", "joining"} /\ rd = Phase
  BY DEF Phase
<1>3. CASE Phase = "starting"
  BY <1>1, <1>3
<1>4. CASE Phase \in {"reading", "sending"} /\ ctxDone
  <2>1. CASE at = "waiting"
    BY <1>4, <2>1
  <2>2. CASE at = "joining"
    BY <1>2, <1>4, <2>2, ResourceNames
  <2> QED
    BY <1>2, <1>4, <2>1, <2>2
<1>5. CASE Phase = "sending" /\ pc = "select" /\ ~eventsClosed
  BY <1>2, <1>5
<1> QED
  BY <1>3, <1>4, <1>5 DEF D!DetectorCanGo, D!CanStop

(* Where Daemon sees its only detector done, Run or the reader is on the   *)
(* way to its end, or main can close the channel.                          *)
LEMMA DoneGoes ==
  ASSUME IInv, D!DetectorsDone, ~eventsClosed
  PROVE  RunCanGo \/ ReaderCanGo \/ (RunEnded /\ ~eventsClosed)
<1> USE DEF IInv, TypeOK, PlaceInv, ResultInv, RunCanGo, ReaderCanGo, RunEnded
<1>1. at = "returned" \/ rd \in {"reporting", "ended"}
  BY DEF D!DetectorsDone, Phase
<1>2. CASE rd = "reporting"
  BY <1>2 DEF ErrCap
<1>3. CASE rd = "ended"
  BY <1>3
<1> QED
  BY <1>1, <1>2, <1>3

(* Where Daemon waits for a camera, so does the reader, or it can go on.   *)
LEMMA IdleWaits ==
  ASSUME IInv, D!Idle
  PROVE  \/ ReaderCanGo
         \/ at = "waiting" /\ rd = "reading" /\ ring = <<>>
<1>1. Phase = "reading"
  BY DEF D!Idle
<1>2. rd = "reading" /\ at \in {"waiting", "joining"}
  BY <1>1 DEF Phase, IInv, TypeOK
<1>3. CASE at = "joining"
  BY <1>2, <1>3, ResourceNames DEF IInv, PlaceInv, ReaderCanGo
<1> QED
  BY <1>2, <1>3 DEF ReaderCanGo

(* Main, Run, its reader and all the others never wait for each other in a *)
(* circle, for any number of devices and notifiers and any ring buffer.    *)
THEOREM ProcessDeadlockFree == ProcessSpec => []ProcessNoDeadlock
<1>1. IInv /\ D!NoDeadlock => ProcessNoDeadlock
  <2> SUFFICES ASSUME IInv, D!NoDeadlock PROVE ProcessNoDeadlock
    OBVIOUS
  <2>1. CASE D!SomeoneCanGo
    BY <2>1, DetectorGoes, DoneGoes DEF D!SomeoneCanGo, ProcessNoDeadlock
  <2>2. CASE D!Idle
    BY <2>2, IdleWaits DEF ProcessNoDeadlock
  <2>3. CASE exited \/ D!StuckOnBus
    BY <2>3 DEF ProcessNoDeadlock
  <2> QED
    BY <2>1, <2>2, <2>3 DEF D!NoDeadlock
<1> QED
  BY <1>1, ProcessInvariant, ProcessPromises, PTL

-----------------------------------------------------------------------------
(* What the process leaves behind in the kernel                            *)

(* allEvents is closed only after Run has returned, and main returns only  *)
(* after that.                                                             *)
ExitInv == (eventsClosed => RunEnded) /\ (exited => eventsClosed)

LEMMA ExitStep == ExitInv /\ [ProcessNext]_processVars => ExitInv'
<1> SUFFICES ASSUME ExitInv, [ProcessNext]_processVars PROVE ExitInv'
  OBVIOUS
<1> USE DEF ExitInv, RunEnded
<1>1. CASE DetectorAlone
  <2>1. at = "returned" => at' = "returned"
    BY <1>1 DEF DetectorAlone, RunStep, Open, OpenFails, SelectDone, SelectResult, Return,
       Read, Discard, ReadFails, ReadClosed, AbandonOnDone, Report, Emit, runVars
  <2> QED
    BY <1>1, <2>1 DEF DetectorAlone, otherVars
<1>2. CASE PassOn
  BY <1>2 DEF PassOn, Pass, runVars, D!C!Receive, D!C!envVars
<1>3. CASE CloseAllEvents
  BY <1>3 DEF CloseAllEvents, vars, runVars, D!C!CloseEvents
<1>4. CASE OtherGoroutines
  <2>1. UNCHANGED <<at, eventsClosed>>
    BY <1>4 DEF OtherGoroutines, vars, runVars, D!RunCoordinator, D!C!Start, D!C!ReturnOnDone,
       D!C!ReturnOnClosed, D!C!Handle, D!C!Skip, D!C!DuplicateOn, D!C!FirstOn, D!C!StrayOff,
       D!C!MatchingOff, D!C!UnknownType, D!C!Broadcast, D!C!Send, D!C!Handoff,
       D!C!AbortBroadcast, D!C!EndBroadcast, D!C!envVars, D!CloseNotifierChannel, D!coordVars,
       D!Connect, D!ConnectFails, D!NotifierStep, D!Take, D!Handled, D!NotifierStops,
       D!C!Consume, D!Exit
  <2>2. exited' => exited \/ D!AllEnded
    BY <1>4 DEF OtherGoroutines, D!RunCoordinator, D!procVars, D!CloseNotifierChannel,
       D!Connect, D!ConnectFails, D!NotifierStep, D!Take, D!Handled, D!NotifierStops,
       D!Notifier, D!Exit
  <2> QED
    BY <2>1, <2>2 DEF D!AllEnded
<1>5. CASE Terminate \/ Plug
  BY <1>5 DEF Terminate, Cancel, runVars, otherVars, Plug, vars, D!Replug, D!C!Replug, D!procVars
<1>6. CASE UNCHANGED processVars
  BY <1>6 DEF processVars, vars, runVars, otherVars
<1> QED
  BY <1>1, <1>2, <1>3, <1>4, <1>5, <1>6 DEF ProcessNext

NothingLeftBehind == exited => held = {} /\ rd \in {"none", "ended"}

(* When main returns no probe is attached any more, the reader and the maps*)
(* are closed, and the reader goroutine has ended: nothing of this is left *)
(* to the end of the process, whatever failed and however it was stopped.  *)
THEOREM CleanExit == ProcessSpec => []NothingLeftBehind
<1>1. ProcessInit => ExitInv
  BY DEF ProcessInit, D!Init, D!C!Init, ExitInv
<1>2. IInv /\ ExitInv => NothingLeftBehind
  BY DEF IInv, PlaceInv, ExitInv, RunEnded, NothingLeftBehind
<1> QED
  BY <1>1, <1>2, ExitStep, ProcessInvariant, PTL DEF ProcessSpec

=============================================================================
