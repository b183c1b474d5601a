------------------------------ MODULE Detector ------------------------------
(***************************************************************************)
(* Run of the eBPF detector (camera_detector_vb2_ioctl.go): it loads the   *)
(* BPF objects, attaches three kprobes and opens the ring buffer, each     *)
(* step able to fail, and then waits for the context or for the goroutine  *)
(* that reads the ring buffer.  The two goroutines meet in errCh, in the   *)
(* reader that Run closes to wake the other, and in the wait group.        *)
(*                                                                         *)
(* Vb2Probes has what the events mean; here an event is its type, device   *)
(* and source.  External: the kernel filling the ring buffer, the          *)
(* coordinator receiving, kill(pid, 0).                                    *)
(***************************************************************************)
EXTENDS Naturals, Sequences, FiniteSets

CONSTANTS
  Devices,
  RingCap,    \* events the ring buffer holds
  NoEvent

On == 1       \* CAMERA_EVENT_TYPE_STREAM_ON
Off == 2      \* CAMERA_EVENT_TYPE_STREAM_OFF

(* What Run acquires, in this order.  All but the reader have a deferred   *)
(* Close.                                                                  *)
Order == <<"objs", "streamon", "streamoff", "release", "reader">>
Resources == {"objs", "streamon", "streamoff", "release", "reader"}
Links == {"streamon", "streamoff", "release"}
Deferred == Resources \ {"reader"}

(* An event carries the probe it comes from; the source tells a release    *)
(* from a STREAMOFF.                                                       *)
Events == [probe : Links, dev : Devices]
TypeOf(e) == IF e.probe = "streamon" THEN On ELSE Off
Sent(e) == [type |-> TypeOf(e), dev |-> e.dev]
Reports == [type : {On, Off}, dev : Devices]

ASSUME DetectorAssumption == RingCap \in Nat /\ NoEvent \notin Reports

VARIABLES
  at,        \* Run: "opening", "waiting", "joining" or "returned"
  held,      \* resources acquired and not closed
  rd,        \* the reader goroutine: "none", "reading", "sending", "reporting", "ended"
  out,       \* the event it is sending on ch
  result,    \* what it will put into errCh: "nil" or "failed"
  errCh,     \* buffer of errCh
  err,       \* Run's err
  ring,      \* events in the ring buffer
  taken,     \* the last event the coordinator took from ch
  ctxDone

runVars == <<at, held, err>>
readerVars == <<rd, out, result>>
vars == <<runVars, readerVars, errCh, ring, taken, ctxDone>>

Init ==
  /\ at = "opening" /\ held = {} /\ err = "nil"
  /\ rd = "none" /\ out = NoEvent /\ result = "nil"
  /\ errCh = <<>> /\ ring = <<>> /\ taken = NoEvent /\ ctxDone = FALSE

-----------------------------------------------------------------------------
(* Run                                                                     *)

NextResource == Order[Cardinality(held) + 1]

(* Each acquisition but the last is followed by its defer; after the last  *)
(* one the reader goroutine starts.                                        *)
Open ==
  /\ at = "opening"
  /\ held' = held \cup {NextResource}
  /\ IF NextResource = "reader"
     THEN at' = "waiting" /\ rd' = "reading"
     ELSE UNCHANGED <<at, rd>>
  /\ UNCHANGED <<err, out, result, errCh, ring, taken, ctxDone>>

(* A definition whose comment starts with "Slip" is a plausible mistake in *)
(* the definition after it; it is part of no specification and serves to   *)
(* show that the properties notice it.                                     *)

(* Slip: an early return without the deferred closes. *)
LeaveHeld == held' = held

(* The deferred Close calls.                                               *)
RunDeferred == held' = held \ Deferred

OpenFails ==
  /\ at = "opening"
  /\ at' = "returned" /\ err' = "failed"
  /\ RunDeferred
  /\ ring' = <<>>
  /\ UNCHANGED <<readerVars, errCh, taken, ctxDone>>

CloseReader == held' = held \ {"reader"}

(* Slip: on cancellation the reader stays open. *)
JoinOnDone ==
  /\ at = "waiting" /\ ctxDone
  /\ at' = "joining"
  /\ UNCHANGED <<held, err, readerVars, errCh, ring, taken, ctxDone>>

(* The two cases of Run's select.                                          *)
SelectDone ==
  /\ at = "waiting" /\ ctxDone
  /\ at' = "joining"
  /\ CloseReader
  /\ UNCHANGED <<err, readerVars, errCh, ring, taken, ctxDone>>

(* Slip: the error is dropped. *)
SelectAnyResult ==
  /\ at = "waiting" /\ errCh # <<>>
  /\ at' = "joining" /\ errCh' = Tail(errCh)
  /\ CloseReader
  /\ UNCHANGED <<err, readerVars, ring, taken, ctxDone>>

SelectResult ==
  /\ at = "waiting" /\ errCh # <<>>
  /\ at' = "joining" /\ err' = Head(errCh) /\ errCh' = Tail(errCh)
  /\ CloseReader
  /\ UNCHANGED <<readerVars, ring, taken, ctxDone>>

(* Slip: Run does not wait for the goroutine. *)
ReturnAtOnce ==
  /\ at = "joining"
  /\ at' = "returned"
  /\ RunDeferred
  /\ ring' = <<>>
  /\ UNCHANGED <<err, readerVars, errCh, taken, ctxDone>>

(* wg.Wait, then the deferred closes; the ring buffer goes with the objects*)
Return ==
  /\ at = "joining" /\ rd = "ended"
  /\ at' = "returned"
  /\ RunDeferred
  /\ ring' = <<>>
  /\ UNCHANGED <<err, readerVars, errCh, taken, ctxDone>>

-----------------------------------------------------------------------------
(* The reader goroutine                                                    *)

CanRead == rd = "reading" /\ "reader" \in held /\ ring # <<>>

(* Slip: the abandoned event is kept. *)
FinishWithEvent(r) == rd' = "reporting" /\ result' = r /\ out' = out

Finish(r) == rd' = "reporting" /\ result' = r /\ out' = NoEvent

(* A STREAMON or STREAMOFF, or a release whose process is gone: offer it.  *)
Read ==
  /\ CanRead
  /\ rd' = "sending" /\ out' = Sent(Head(ring)) /\ ring' = Tail(ring)
  /\ UNCHANGED <<runVars, result, errCh, taken, ctxDone>>

(* The process of the release event is still there, or kill cannot tell.   *)
Discard ==
  /\ CanRead /\ Head(ring).probe = "release"
  /\ ring' = Tail(ring)
  /\ UNCHANGED <<runVars, readerVars, errCh, taken, ctxDone>>

(* ReadInto fails, or the decoding of the record it has taken.             *)
ReadFails ==
  /\ rd = "reading" /\ "reader" \in held
  /\ Finish("failed")
  /\ UNCHANGED ring \/ (ring # <<>> /\ ring' = Tail(ring))
  /\ UNCHANGED <<runVars, errCh, taken, ctxDone>>

ReadClosed ==
  /\ rd = "reading" /\ "reader" \notin held
  /\ Finish("nil")
  /\ UNCHANGED <<runVars, errCh, ring, taken, ctxDone>>

(* The coordinator takes the event.                                        *)
Pass ==
  /\ rd = "sending"
  /\ rd' = "reading" /\ out' = NoEvent /\ taken' = out
  /\ UNCHANGED <<runVars, result, errCh, ring, ctxDone>>

(* Slip: leaving the select does not leave the loop. *)
SkipOnDone ==
  /\ rd = "sending" /\ ctxDone
  /\ rd' = "reading" /\ out' = NoEvent
  /\ UNCHANGED <<runVars, result, errCh, ring, taken, ctxDone>>

AbandonOnDone ==
  /\ rd = "sending" /\ ctxDone
  /\ Finish("nil")
  /\ UNCHANGED <<runVars, errCh, ring, taken, ctxDone>>

ErrCap == 1

Report ==
  /\ rd = "reporting" /\ Len(errCh) < ErrCap
  /\ rd' = "ended" /\ errCh' = Append(errCh, result)
  /\ UNCHANGED <<runVars, out, result, ring, taken, ctxDone>>

-----------------------------------------------------------------------------
(* The kernel and main                                                     *)

(* An attached kprobe fires; an event that finds the ring full is dropped. *)
Emit(e) ==
  /\ e.probe \in held /\ Len(ring) < RingCap
  /\ ring' = Append(ring, e)
  /\ UNCHANGED <<runVars, readerVars, errCh, taken, ctxDone>>

Cancel ==
  /\ ~ctxDone
  /\ ctxDone' = TRUE
  /\ UNCHANGED <<runVars, readerVars, errCh, ring, taken>>

RunStep == Open \/ OpenFails \/ SelectDone \/ SelectResult \/ Return
ReaderStep == Read \/ Discard \/ ReadFails \/ ReadClosed \/ Pass \/ AbandonOnDone \/ Report

Next == RunStep \/ ReaderStep \/ (\E e \in Events : Emit(e)) \/ Cancel

Spec == Init /\ [][Next]_vars

(* Both goroutines go on where they can without anybody else: the kernel   *)
(* answers, a record that is there is read, a closed reader returns, a     *)
(* pending send sees the done context.  ReadInto may wait on an empty ring *)
(* for ever and need never fail, and the coordinator need not receive.     *)
Fairness ==
  /\ WF_vars(RunStep)
  /\ WF_vars(Read \/ Discard) /\ WF_vars(ReadClosed)
  /\ WF_vars(AbandonOnDone) /\ WF_vars(Report)

FairSpec == Spec /\ Fairness

-----------------------------------------------------------------------------
(* Properties                                                              *)

TypeOK ==
  /\ at \in {"opening", "waiting", "joining", "returned"}
  /\ held \subseteq Resources
  /\ err \in {"nil", "failed"} /\ result \in {"nil", "failed"}
  /\ rd \in {"none", "reading", "sending", "reporting", "ended"}
  /\ out \in Reports \cup {NoEvent}
  /\ out # NoEvent <=> rd = "sending"
  /\ taken \in Reports \cup {NoEvent}
  /\ errCh \in Seq({"nil", "failed"}) /\ Len(errCh) <= ErrCap
  /\ ring \in Seq(Events) /\ Len(ring) <= RingCap
  /\ ctxDone \in BOOLEAN

(* However far Run got, when it returns every object, link and reader it   *)
(* had acquired is closed.                                                 *)
NothingLeaked == at = "returned" => held = {}

(* The reader goroutine never outlives what it uses: while it runs, the    *)
(* BPF objects and links are open, Run has not returned, and so nobody     *)
(* sends on the shared channel that main closes next.                      *)
ReaderInsideRun ==
  rd \in {"reading", "sending", "reporting"} => at # "returned" /\ Deferred \subseteq held

(* A detector that was not cancelled never ends without an error to tell   *)
(* why: whatever the reader met reaches Run's return value.                *)
EndsForAReason == at = "returned" => err = "failed" \/ ctxDone

(* The eBPF detector is an event source as main expects it.  The source    *)
(* counts as ended once its reader is on the way out.                      *)
Phase ==
  CASE at = "opening" -> "starting"
    [] at = "returned" \/ rd \in {"reporting", "ended"} -> "done"
    [] OTHER -> rd
Source == INSTANCE EventSource WITH phase <- Phase, offer <- out
IsEventSource == Source!Spec

(* Cancelled, Run returns although its reader may be blocked in ReadInto,  *)
(* which nothing but the closing of the reader ends, or in a send that     *)
(* nobody receives; and a reader that ends for whatever reason ends Run:   *)
(* the two never wait for each other.                                      *)
RunReturns == (ctxDone \/ rd = "reporting") ~> at = "returned"

=============================================================================
