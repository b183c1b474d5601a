----------------------------- MODULE Vb2Probes -----------------------------
(***************************************************************************)
(* The eBPF detector: the three kprobes of camera_detector_vb2_ioctl.bpf.c *)
(* and the Go loop that reads their ring buffer.                           *)
(*                                                                         *)
(* A process calls into the kernel through a file; the kprobe runs before  *)
(* the probed function and is cut at each BPF helper that touches a map or *)
(* the ring buffer, because probes of other CPUs run between them.  The    *)
(* daemon is a process too: each event it is told makes it open and close  *)
(* the device (the coordinator's V4L2 query), which runs a probe again.    *)
(*                                                                         *)
(* External: what the probed kernel functions themselves do to the queue,  *)
(* and the life of processes.  Abstracted: the map and ring buffer bytes,  *)
(* names that cannot be read.                                              *)
(***************************************************************************)
EXTENDS Naturals, Sequences, FiniteSets

CONSTANTS
  Procs,      \* PIDs (TGIDs); Self is the daemon's
  Self,
  Devices,    \* device names
  Files,      \* open files that may exist: <<pid, device, number>>
  RingCap,    \* events the ring buffer holds
  PidCap,     \* entries streaming_pid holds: 64 in the code
  OthersCap,  \* bound on its entries of devices outside Devices
  NoPid, NoFile

ASSUME FilesAssumption == Files \subseteq Procs \X Devices \X Nat
ASSUME SelfAssumption == Self \in Procs /\ NoPid \notin Procs /\ NoFile \notin Files
ASSUME RingAssumption == RingCap \in Nat
ASSUME PidAssumption == PidCap \in Nat /\ OthersCap \in Nat

VARIABLES
  proc,           \* pid -> "running", "exiting" (kill still finds it) or "gone"
  open,           \* files that are open
  call,           \* file -> what the call through it does next
  streaming_pid,  \* the BPF hash: device -> pid of the last STREAMON
  others,         \* entries of streaming_pid for devices outside Devices
  owner,          \* the vb2 queue: device -> file that streams
  ring,           \* events on their way to the detector
  told,           \* device -> type of the last event sent to the coordinator
  queries,        \* devices the coordinator is about to query
  tainted         \* devices for which a known weakness bit since the last clean ON

pidVars == <<streaming_pid, others>>
kernelVars == <<open, pidVars, owner>>
readerVars == <<told, queries>>
vars == <<proc, open, call, streaming_pid, others, owner, ring, told, queries, tainted>>

On == 1     \* CAMERA_EVENT_TYPE_STREAM_ON
Off == 2    \* CAMERA_EVENT_TYPE_STREAM_OFF
Ioctl == 1        \* CAMERA_EVENT_SOURCE_IOCTL
FopRelease == 2   \* CAMERA_EVENT_SOURCE_FOP_RELEASE

Pid(f) == f[1]
Dev(f) == f[2]
Users == {f \in Files : Pid(f) # Self}
Events == [type : {On, Off}, src : {Ioctl, FopRelease}, pid : Procs, dev : Devices]

Init ==
  /\ proc = [p \in Procs |-> IF p = Self THEN "running" ELSE "gone"]
  /\ open = {}
  /\ call = [f \in Files |-> "none"]
  /\ streaming_pid = [d \in Devices |-> NoPid] /\ others = 0
  /\ owner = [d \in Devices |-> NoFile]
  /\ ring = <<>>
  /\ told = [d \in Devices |-> Off]
  /\ queries = {}
  /\ tainted = {}

-----------------------------------------------------------------------------
(* Calls                                                                   *)

(* Other calls of users on the device of f, on another CPU.                *)
Overlap(f) == \E g \in Users \ {f} : Dev(g) = Dev(f) /\ call[g] # "none"

Begin(f, step) ==
  /\ f \in open /\ call[f] = "none"
  /\ call' = [call EXCEPT ![f] = step]
  /\ tainted' = IF f \in Users /\ Overlap(f) THEN tainted \cup {Dev(f)} ELSE tainted
  /\ UNCHANGED <<proc, kernelVars, ring, readerVars>>

Running(f) == f \in Users /\ proc[Pid(f)] = "running"

StreamOn(f) == Running(f) /\ Begin(f, "on.emit")
StreamOff(f) == Running(f) /\ Begin(f, "off.emit")

(* A dying process closes its files one after the other.                   *)
Close(f) ==
  /\ proc[Pid(f)] = "exiting" => \A g \in open : Pid(g) = Pid(f) => call[g] = "none"
  /\ Begin(f, "close.check")

Goto(f, from, to) == call[f] = from /\ call' = [call EXCEPT ![f] = to]

(* A definition whose comment starts with "Slip" is a plausible mistake in *)
(* the definition after it; it is part of no specification and serves to   *)
(* show that the properties notice it.                                     *)

(* Slip: one event too many fits. *)
HasRoomForOneMore == Len(ring) <= RingCap

(* emit_event: an event that finds the ring buffer full is dropped.        *)
HasRoom == Len(ring) < RingCap
Emit(type, src, f) ==
  ring' = IF HasRoom
          THEN Append(ring, [type |-> type, src |-> src, pid |-> Pid(f), dev |-> Dev(f)])
          ELSE ring

TaintIf(bad, f) == tainted' = IF bad THEN tainted \cup {Dev(f)} ELSE tainted

-----------------------------------------------------------------------------
(* kprobe_vb2_ioctl_streamon                                               *)

EmitOn(f) ==
  /\ Goto(f, "on.emit", "on.record")
  /\ Emit(On, Ioctl, f)
  /\ tainted' = IF ~HasRoom THEN tainted \cup {Dev(f)}
                ELSE IF Overlap(f) THEN tainted ELSE tainted \ {Dev(f)}
  /\ UNCHANGED <<proc, kernelVars, readerVars>>

MapFull == Cardinality({d \in Devices : streaming_pid[d] # NoPid}) + others >= PidCap

(* bpf_map_update_elem replaces an entry, but adds none to a full map;     *)
(* nobody looks at its outcome.                                            *)
CanRecord(f) == streaming_pid[Dev(f)] # NoPid \/ ~MapFull

(* Slip: an existing entry is not replaced. *)
RecordIfAbsent(f) ==
  /\ Goto(f, "on.record", "on.run")
  /\ streaming_pid' = IF streaming_pid[Dev(f)] = NoPid /\ ~MapFull
                      THEN [streaming_pid EXCEPT ![Dev(f)] = Pid(f)] ELSE streaming_pid
  /\ TaintIf(~CanRecord(f), f)
  /\ UNCHANGED <<proc, open, others, owner, ring, readerVars>>

Record(f) ==
  /\ Goto(f, "on.record", "on.run")
  /\ streaming_pid' = IF CanRecord(f) THEN [streaming_pid EXCEPT ![Dev(f)] = Pid(f)]
                                     ELSE streaming_pid
  /\ TaintIf(~CanRecord(f), f)
  /\ UNCHANGED <<proc, open, others, owner, ring, readerVars>>

(* vb2_ioctl_streamon itself: one file at a time owns the queue, and the   *)
(* call may fail for reasons of its own.                                   *)
RunOn(f) ==
  /\ Goto(f, "on.run", "none")
  /\ owner[Dev(f)] \in {NoFile, f}
  /\ owner' = [owner EXCEPT ![Dev(f)] = f]
  /\ UNCHANGED <<proc, open, pidVars, ring, readerVars, tainted>>

RunOnFails(f) ==
  /\ Goto(f, "on.run", "none")
  /\ owner[Dev(f)] # f
  /\ TaintIf(TRUE, f)
  /\ UNCHANGED <<proc, kernelVars, ring, readerVars>>

-----------------------------------------------------------------------------
(* kprobe_vb2_ioctl_streamoff                                              *)

EmitOff(f) ==
  /\ Goto(f, "off.emit", "off.clear")
  /\ Emit(Off, Ioctl, f) /\ TaintIf(~HasRoom, f)
  /\ UNCHANGED <<proc, kernelVars, readerVars>>

Clear(f) ==
  /\ Goto(f, "off.clear", "off.run")
  /\ streaming_pid' = [streaming_pid EXCEPT ![Dev(f)] = NoPid]
  /\ UNCHANGED <<proc, open, others, owner, ring, readerVars, tainted>>

Disown(f) == [owner EXCEPT ![Dev(f)] = IF @ = f THEN NoFile ELSE @]

(* vb2_ioctl_streamoff: refused while another file owns the queue.         *)
RunOff(f) ==
  /\ Goto(f, "off.run", "none")
  /\ owner' = Disown(f)
  /\ TaintIf(owner[Dev(f)] \notin {NoFile, f}, f)
  /\ UNCHANGED <<proc, open, pidVars, ring, readerVars>>

-----------------------------------------------------------------------------
(* kprobe_vb2_fop_release                                                  *)

(* Slip: any process's close ends the stream. *)
AnyEntry(f) == streaming_pid[Dev(f)] # NoPid
(* Slip: the comparison is the wrong way round. *)
OthersEntry(f) == streaming_pid[Dev(f)] # Pid(f)

OwnEntry(f) == streaming_pid[Dev(f)] = Pid(f)

(* check_streaming_pid_and_clear looks the entry up and then deletes it:   *)
(* two helper calls.                                                       *)
Check(f) ==
  /\ Goto(f, "close.check", IF OwnEntry(f) THEN "close.delete" ELSE "close.run")
  /\ UNCHANGED <<proc, kernelVars, ring, readerVars, tainted>>

Delete(f) ==
  /\ Goto(f, "close.delete", "close.emit")
  /\ streaming_pid' = [streaming_pid EXCEPT ![Dev(f)] = NoPid]
  /\ UNCHANGED <<proc, open, others, owner, ring, readerVars, tainted>>

EmitRelease(f) ==
  /\ Goto(f, "close.emit", "close.run")
  /\ Emit(Off, FopRelease, f) /\ TaintIf(~HasRoom, f)
  /\ UNCHANGED <<proc, kernelVars, readerVars>>

(* vb2_fop_release: the file is gone and its stream stopped.               *)
RunClose(f) ==
  /\ Goto(f, "close.run", "none")
  /\ open' = open \ {f}
  /\ owner' = Disown(f)
  /\ UNCHANGED <<proc, pidVars, ring, readerVars, tainted>>

-----------------------------------------------------------------------------
(* The reader goroutine of the detector                                    *)

(* kill(pid, 0) also finds a process that has closed its files but has not *)
(* been reaped, and a new process under an old PID.                        *)
Alive(p) == proc[p] # "gone"
Filtered(e) == e.src = FopRelease /\ Alive(e.pid)

Discard ==
  /\ ring # <<>> /\ Filtered(Head(ring))
  /\ ring' = Tail(ring)
  /\ tainted' = tainted \cup {Head(ring).dev}
  /\ UNCHANGED <<proc, call, kernelVars, readerVars>>

(* The event reaches the coordinator, which will query the device.         *)
Forward ==
  /\ ring # <<>> /\ ~Filtered(Head(ring))
  /\ ring' = Tail(ring)
  /\ told' = [told EXCEPT ![Head(ring).dev] = Head(ring).type]
  /\ queries' = queries \cup {Head(ring).dev}
  /\ UNCHANGED <<proc, call, kernelVars, tainted>>

-----------------------------------------------------------------------------
(* Processes: the daemon's query, and the programs that use cameras        *)

Query(f) ==
  /\ Pid(f) = Self /\ f \notin open /\ Dev(f) \in queries
  /\ open' = open \cup {f}
  /\ queries' = queries \ {Dev(f)}
  /\ UNCHANGED <<proc, call, pidVars, owner, ring, told, tainted>>

Open(f) ==
  /\ Running(f) /\ f \notin open
  /\ open' = open \cup {f}
  /\ UNCHANGED <<proc, call, pidVars, owner, ring, readerVars, tainted>>

Life(p, from, to) ==
  /\ p # Self /\ proc[p] = from
  /\ proc' = [proc EXCEPT ![p] = to]
  /\ UNCHANGED <<call, kernelVars, ring, readerVars, tainted>>

Spawn(p) == Life(p, "gone", "running")
Exit(p) == Life(p, "running", "exiting")
Reap(p) == Life(p, "exiting", "gone") /\ \A f \in open : Pid(f) # p

(* Streams on devices outside Devices fill the map and free it again.      *)
OtherStarts ==
  /\ others < OthersCap /\ ~MapFull
  /\ others' = others + 1
  /\ UNCHANGED <<proc, open, call, streaming_pid, owner, ring, readerVars, tainted>>

OtherEnds ==
  /\ others > 0
  /\ others' = others - 1
  /\ UNCHANGED <<proc, open, call, streaming_pid, owner, ring, readerVars, tainted>>

Probe(f) ==
  \/ EmitOn(f) \/ Record(f) \/ RunOn(f) \/ RunOnFails(f)
  \/ EmitOff(f) \/ Clear(f) \/ RunOff(f)
  \/ Check(f) \/ Delete(f) \/ EmitRelease(f) \/ RunClose(f)

Read == Discard \/ Forward

Next ==
  \/ \E f \in Files : \/ StreamOn(f) \/ StreamOff(f) \/ Close(f)
                      \/ Probe(f) \/ Query(f) \/ Open(f)
  \/ Read
  \/ \E p \in Procs : Spawn(p) \/ Exit(p) \/ Reap(p)
  \/ OtherStarts \/ OtherEnds

Spec == Init /\ [][Next]_vars

(* Calls that have begun end, a dying process closes its files and is      *)
(* reaped, and the reader reads.  Nobody has to use a camera.              *)
Fairness ==
  /\ \A f \in Files : /\ WF_vars(Probe(f))
                      /\ WF_vars(proc[Pid(f)] = "exiting" /\ Close(f))
  /\ \A p \in Procs : WF_vars(Reap(p))
  /\ WF_vars(Read)

FairSpec == Spec /\ Fairness

-----------------------------------------------------------------------------
(* Properties                                                              *)

Steps == {"none", "on.emit", "on.record", "on.run", "off.emit", "off.clear", "off.run",
          "close.check", "close.delete", "close.emit", "close.run"}

TypeOK ==
  /\ proc \in [Procs -> {"running", "exiting", "gone"}]
  /\ open \subseteq Files
  /\ call \in [Files -> Steps]
  /\ \A f \in Files : call[f] # "none" => f \in open
  /\ streaming_pid \in [Devices -> Procs \cup {NoPid}]
  /\ others \in Nat
  /\ owner \in [Devices -> Files \cup {NoFile}]
  /\ ring \in Seq(Events) /\ Len(ring) <= RingCap
  /\ told \in [Devices -> {On, Off}]
  /\ queries \subseteq Devices /\ tainted \subseteq Devices

(* The daemon's own closes, one for every event it is told, never cause    *)
(* another event: there is no endless recursion through vb2_fop_release.   *)
SelfCloseSilent == \A i \in 1 .. Len(ring) : ring[i].pid # Self

(* Nothing about device d is under way.                                    *)
Quiet(d) ==
  /\ \A f \in Users : Dev(f) = d => call[f] = "none"
  /\ \A i \in 1 .. Len(ring) : ring[i].dev # d

(* With nothing under way, the last event sent for a device says whether   *)
(* it streams, unless one of the known weaknesses bit since the last clean *)
(* ON: overlapping calls, a full ring buffer or map, a call the kernel     *)
(* refused after the probe had reported it, or a release whose process     *)
(* kill found.                                                             *)
ReportsTrackStreaming ==
  \A d \in Devices : Quiet(d) /\ d \notin tainted => (told[d] = On <=> owner[d] # NoFile)

(* The end of a stream is eventually reported, under the same proviso.     *)
EndIsReported ==
  \A d \in Devices :
    owner[d] = NoFile ~> (told[d] = Off \/ owner[d] # NoFile \/ d \in tainted)

(* "if it matches the current task remove the entry": the release probe    *)
(* removes no entry but its own process's, unless calls overlap.  Between  *)
(* its lookup and its deletion a STREAMON on another CPU can replace it.   *)
ClearsOnlyOwnEntry ==
  [][\A f \in Files : Delete(f) /\ Dev(f) \notin tainted => streaming_pid[Dev(f)] = Pid(f)]_vars

(* "This covers the case where a process that started streaming is         *)
(* terminated without first calling VIDIOC_STREAMOFF": its end is reported,*)
(* unless the device streams again.                                        *)
KilledStreamerReported ==
  \A f \in Users :
    (owner[Dev(f)] = f /\ proc[Pid(f)] = "exiting")
      ~> (told[Dev(f)] = Off \/ proc[Pid(f)] = "running")

=============================================================================
