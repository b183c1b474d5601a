-------------------------- MODULE Vb2ProbesProofs --------------------------
(***************************************************************************)
(* Proofs about Vb2Probes for every set of processes, devices and files    *)
(* and every size of the ring buffer.                                      *)
(***************************************************************************)
EXTENDS Vb2Probes, SequenceTheorems, TLAPS

(* A file belongs to a process and a device.                               *)
LEMMA FileParts ==
  ASSUME NEW f \in Files
  PROVE  Pid(f) \in Procs /\ Dev(f) \in Devices
BY FilesAssumption DEF Pid, Dev

(* An event emitted by a file of process p appends at most one event, of p,*)
(* and never overfills the ring buffer.                                    *)
LEMMA EmitAppends ==
  ASSUME ring \in Seq(Events), Len(ring) <= RingCap,
         NEW f \in Files, NEW type \in {On, Off}, NEW src \in {Ioctl, FopRelease},
         Emit(type, src, f)
  PROVE  /\ ring' \in Seq(Events) /\ Len(ring') <= RingCap
         /\ \A i \in 1 .. Len(ring') :
              \/ i \in 1 .. Len(ring) /\ ring'[i] = ring[i]
              \/ ring'[i].pid = Pid(f)
<1> DEFINE e == [type |-> type, src |-> src, pid |-> Pid(f), dev |-> Dev(f)]
<1>1. e \in Events /\ e.pid = Pid(f)
  BY FileParts DEF Events
<1>2. CASE HasRoom
  <2>1. ring' = Append(ring, e)
    BY <1>2 DEF Emit
  <2> HIDE DEF e
  <2> QED
    BY <1>1, <1>2, <2>1, RingAssumption DEF HasRoom
<1>3. CASE ~HasRoom
  BY <1>3 DEF Emit
<1> QED
  BY <1>2, <1>3

(* Reading takes the oldest event and keeps the others.                    *)
LEMMA ReadShortens ==
  ASSUME ring \in Seq(Events), Len(ring) <= RingCap, ring # <<>>, ring' = Tail(ring)
  PROVE  /\ ring' \in Seq(Events) /\ Len(ring') <= RingCap
         /\ Head(ring).type \in {On, Off} /\ Head(ring).dev \in Devices
         /\ \A i \in 1 .. Len(ring') : i + 1 \in 1 .. Len(ring) /\ ring'[i] = ring[i + 1]
<1>1. Head(ring) \in Events /\ Len(ring) \in Nat /\ Len(ring) >= 1
  BY EmptySeq, HeadTailProperties
<1> QED
  BY <1>1, HeadTailProperties, RingAssumption DEF Events

-----------------------------------------------------------------------------
(* Every reachable state of the detector is of the declared type: calls    *)
(* only run through open files and the ring buffer is never overfilled.    *)
THEOREM TypeCorrect == Spec => []TypeOK
<1> USE SelfAssumption, RingAssumption, PidAssumption DEF On, Off, Ioctl, FopRelease
<1>1. Init => TypeOK
  BY DEF Init, TypeOK, Steps
<1>2. TypeOK /\ [Next]_vars => TypeOK'
  <2> SUFFICES ASSUME TypeOK, [Next]_vars PROVE TypeOK'
    OBVIOUS
  <2> USE DEF TypeOK, kernelVars, readerVars, pidVars
  <2>1. ASSUME NEW f \in Files, StreamOn(f) \/ StreamOff(f) \/ Close(f) PROVE TypeOK'
    <3>1. \E s \in Steps : Begin(f, s)
      BY <2>1 DEF StreamOn, StreamOff, Close, Steps
    <3>2. tainted' \subseteq Devices
      BY <3>1, FileParts DEF Begin
    <3> QED
      BY <3>1, <3>2 DEF Begin
  <2>2. ASSUME NEW f \in Files, EmitOn(f) \/ EmitOff(f) \/ EmitRelease(f) PROVE TypeOK'
    <3>1. ring' \in Seq(Events) /\ Len(ring') <= RingCap
      BY <2>2, EmitAppends DEF EmitOn, EmitOff, EmitRelease
    <3>2. tainted' \subseteq Devices
      BY <2>2, FileParts DEF EmitOn, EmitOff, EmitRelease, TaintIf
    <3>3. call' \in [Files -> Steps] /\ \A g \in Files : call'[g] # "none" => g \in open'
      BY <2>2 DEF EmitOn, EmitOff, EmitRelease, Goto, Steps
    <3>4. UNCHANGED <<proc, kernelVars, readerVars>>
      BY <2>2 DEF EmitOn, EmitOff, EmitRelease
    <3> QED
      BY <3>1, <3>2, <3>3, <3>4
  <2>3. ASSUME NEW f \in Files, Record(f) \/ Clear(f) \/ Delete(f) PROVE TypeOK'
    <3>1. streaming_pid' \in [Devices -> Procs \cup {NoPid}]
      BY <2>3, FileParts DEF Record, Clear, Delete
    <3>2. call' \in [Files -> Steps] /\ \A g \in Files : call'[g] # "none" => g \in open'
      BY <2>3 DEF Record, Clear, Delete, Goto, Steps
    <3>3. tainted' \subseteq Devices /\ UNCHANGED <<proc, open, others, owner, ring, readerVars>>
      BY <2>3, FileParts DEF Record, Clear, Delete, TaintIf
    <3> QED
      BY <3>1, <3>2, <3>3
  <2>4. ASSUME NEW f \in Files, Check(f) PROVE TypeOK'
    BY <2>4 DEF Check, Goto, Steps
  <2>5. ASSUME NEW f \in Files, RunOn(f) \/ RunOnFails(f) \/ RunOff(f) \/ RunClose(f)
        PROVE TypeOK'
    <3>1. owner' \in [Devices -> Files \cup {NoFile}]
      BY <2>5, FileParts DEF RunOn, RunOnFails, RunOff, RunClose, Disown
    <3>2. tainted' \subseteq Devices
      BY <2>5, FileParts DEF RunOn, RunOnFails, RunOff, RunClose, TaintIf
    <3>3. call' \in [Files -> Steps] /\ \A g \in Files : call'[g] # "none" => g \in open'
      BY <2>5 DEF RunOn, RunOnFails, RunOff, RunClose, Goto, Steps
    <3>4. open' \subseteq Files /\ UNCHANGED <<proc, pidVars, ring, readerVars>>
      BY <2>5 DEF RunOn, RunOnFails, RunOff, RunClose
    <3> QED
      BY <3>1, <3>2, <3>3, <3>4
  <2>6. ASSUME Discard PROVE TypeOK'
    BY <2>6, ReadShortens DEF Discard
  <2>7. ASSUME Forward PROVE TypeOK'
    BY <2>7, ReadShortens DEF Forward
  <2>8. ASSUME NEW f \in Files, Query(f) \/ Open(f) PROVE TypeOK'
    BY <2>8 DEF Query, Open
  <2>9. ASSUME NEW p \in Procs, Spawn(p) \/ Exit(p) \/ Reap(p) PROVE TypeOK'
    BY <2>9 DEF Spawn, Exit, Reap, Life
  <2>10. CASE OtherStarts \/ OtherEnds
    BY <2>10 DEF OtherStarts, OtherEnds
  <2>11. CASE UNCHANGED vars
    BY <2>11 DEF vars
  <2> QED
    BY <2>1, <2>2, <2>3, <2>4, <2>5, <2>6, <2>7, <2>8, <2>9, <2>10, <2>11 DEF Next, Probe, Read
<1> QED
  BY <1>1, <1>2, PTL DEF Spec

-----------------------------------------------------------------------------
(* The daemon only opens and closes, and owns no entry of streaming_pid:   *)
(* so the check of its own close finds nothing and emits nothing.          *)
SelfInv ==
  /\ \A f \in Files : Pid(f) = Self => call[f] \in {"none", "close.check", "close.run"}
  /\ \A d \in Devices : streaming_pid[d] # Self
  /\ SelfCloseSilent

(* The daemon's calls stay closes that find no entry of its own.           *)
LEMMA SelfCorrect == Spec => []SelfInv
<1> USE SelfAssumption DEF On, Off, Ioctl, FopRelease
<1>1. Init => SelfInv
  BY DEF Init, SelfInv, SelfCloseSilent
<1>2. TypeOK /\ SelfInv /\ [Next]_vars => SelfInv'
  <2> SUFFICES ASSUME TypeOK, SelfInv, [Next]_vars PROVE SelfInv'
    OBVIOUS
  <2> USE DEF SelfInv, SelfCloseSilent, kernelVars, readerVars, pidVars
  <2>t. /\ call \in [Files -> Steps] /\ ring \in Seq(Events) /\ Len(ring) <= RingCap
        /\ streaming_pid \in [Devices -> Procs \cup {NoPid}]
    BY DEF TypeOK
  <2>1. ASSUME NEW f \in Files, StreamOn(f) \/ StreamOff(f) PROVE SelfInv'
    BY <2>1, <2>t DEF StreamOn, StreamOff, Begin, Running, Users
  <2>2. ASSUME NEW f \in Files, Close(f) PROVE SelfInv'
    BY <2>2, <2>t DEF Close, Begin
  <2>3. ASSUME NEW f \in Files, EmitOn(f) \/ EmitOff(f) \/ EmitRelease(f) PROVE SelfInv'
    <3>1. Pid(f) # Self
      BY <2>3 DEF EmitOn, EmitOff, EmitRelease, Goto
    <3>2. \A i \in 1 .. Len(ring') : \/ i \in 1 .. Len(ring) /\ ring'[i] = ring[i]
                                     \/ ring'[i].pid = Pid(f)
      BY <2>3, <2>t, EmitAppends DEF EmitOn, EmitOff, EmitRelease
    <3>3. \A i \in 1 .. Len(ring') : ring'[i].pid # Self
      BY <3>1, <3>2
    <3>4. \A g \in Files : Pid(g) = Self => call'[g] = call[g]
      BY <2>3, <2>t, <3>1 DEF EmitOn, EmitOff, EmitRelease, Goto
    <3>5. UNCHANGED streaming_pid
      BY <2>3 DEF EmitOn, EmitOff, EmitRelease
    <3> QED
      BY <3>3, <3>4, <3>5
  <2>4. ASSUME NEW f \in Files, Record(f) \/ Clear(f) \/ Delete(f) PROVE SelfInv'
    <3>1. Pid(f) # Self
      BY <2>4 DEF Record, Clear, Delete, Goto
    <3>2. \A g \in Files : Pid(g) = Self => call'[g] = call[g]
      BY <2>4, <2>t, <3>1 DEF Record, Clear, Delete, Goto
    <3>3. \A d \in Devices : streaming_pid'[d] # Self
      BY <2>4, <2>t, <3>1 DEF Record, Clear, Delete
    <3>4. UNCHANGED ring
      BY <2>4 DEF Record, Clear, Delete
    <3> QED
      BY <3>2, <3>3, <3>4
  <2>5. ASSUME NEW f \in Files, Check(f) PROVE SelfInv'
    <3>1. Pid(f) = Self => ~OwnEntry(f)
      BY FileParts DEF OwnEntry
    <3> QED
      BY <2>5, <2>t, <3>1 DEF Check, Goto
  <2>6. ASSUME NEW f \in Files, RunOn(f) \/ RunOnFails(f) \/ RunOff(f) \/ RunClose(f)
        PROVE SelfInv'
    BY <2>6, <2>t DEF RunOn, RunOnFails, RunOff, RunClose, Goto
  <2>7. CASE Discard \/ Forward
    <3>1. UNCHANGED <<call, streaming_pid>>
      BY <2>7 DEF Discard, Forward
    <3>2. \A i \in 1 .. Len(ring') : i + 1 \in 1 .. Len(ring) /\ ring'[i] = ring[i + 1]
      BY <2>7, <2>t, ReadShortens DEF Discard, Forward
    <3> QED
      BY <3>1, <3>2
  <2>8. ASSUME NEW f \in Files, Query(f) \/ Open(f) PROVE SelfInv'
    BY <2>8 DEF Query, Open
  <2>9. ASSUME NEW p \in Procs, Spawn(p) \/ Exit(p) \/ Reap(p) PROVE SelfInv'
    BY <2>9 DEF Spawn, Exit, Reap, Life
  <2>10. CASE OtherStarts \/ OtherEnds
    BY <2>10 DEF OtherStarts, OtherEnds
  <2>11. CASE UNCHANGED vars
    BY <2>11 DEF vars
  <2> QED
    BY <2>1, <2>2, <2>3, <2>4, <2>5, <2>6, <2>7, <2>8, <2>9, <2>10, <2>11 DEF Next, Probe, Read
<1> QED
  BY <1>1, <1>2, TypeCorrect, PTL DEF Spec

(* The closes the daemon makes to query a device never cause an event, so  *)
(* an event never makes the daemon cause another one: no endless recursion *)
(* through vb2_fop_release, whatever other processes do with the device.   *)
THEOREM NoRecursion == Spec => []SelfCloseSilent
<1>1. SelfInv => SelfCloseSilent
  BY DEF SelfInv
<1> QED
  BY <1>1, SelfCorrect, PTL

-----------------------------------------------------------------------------
(* Two user calls under way on one device have tainted it, and only those  *)
(* can come between the lookup and the deletion of a release probe.        *)
OverlapTaints ==
  \A f, g \in Users :
    f # g /\ Dev(f) = Dev(g) /\ call[f] # "none" /\ call[g] # "none" => Dev(f) \in tainted

DeleteInv ==
  \A f \in Files :
    call[f] = "close.delete" /\ Dev(f) \notin tainted => streaming_pid[Dev(f)] = Pid(f)

(* A step that starts no call and clears no taint keeps OverlapTaints.     *)
LEMMA OverlapKept ==
  ASSUME OverlapTaints, tainted \subseteq tainted',
         \A f \in Files : call'[f] # "none" => call[f] # "none"
  PROVE  OverlapTaints'
BY DEF OverlapTaints, Users, Dev, Pid

(* A step in which no file arrives at its deletion, no entry of a file     *)
(* that is there changes and no taint is cleared keeps DeleteInv.          *)
LEMMA DeleteKept ==
  ASSUME DeleteInv, tainted \subseteq tainted',
         \A f \in Files : call'[f] = "close.delete" =>
           /\ call[f] = "close.delete"
           /\ streaming_pid'[Dev(f)] = streaming_pid[Dev(f)] \/ Dev(f) \in tainted
  PROVE  DeleteInv'
BY DEF DeleteInv, Dev, Pid

(* The daemon, which makes no calls but closes, deletes nothing.           *)
LEMMA DeletersAreUsers ==
  ASSUME SelfInv, NEW f \in Files, call[f] \notin {"none", "close.check", "close.run"}
  PROVE  f \in Users
BY DEF SelfInv, Users

(* Both are invariant.                                                     *)
LEMMA OverlapCorrect == Spec => [](OverlapTaints /\ DeleteInv)
<1> USE SelfAssumption DEF On, Off, Ioctl, FopRelease
<1>1. Init => OverlapTaints /\ DeleteInv
  BY DEF Init, OverlapTaints, DeleteInv, Users
<1>2. TypeOK /\ SelfInv /\ OverlapTaints /\ DeleteInv /\ [Next]_vars
        => OverlapTaints' /\ DeleteInv'
  <2> SUFFICES ASSUME TypeOK, SelfInv, OverlapTaints, DeleteInv, [Next]_vars
               PROVE  OverlapTaints' /\ DeleteInv'
    OBVIOUS
  <2> USE DEF kernelVars, readerVars, pidVars
  <2>t. /\ call \in [Files -> Steps] /\ tainted \subseteq Devices
        /\ streaming_pid \in [Devices -> Procs \cup {NoPid}]
    BY DEF TypeOK
  <2>1. ASSUME NEW f \in Files, StreamOn(f) \/ StreamOff(f) \/ Close(f)
        PROVE  OverlapTaints' /\ DeleteInv'
    <3>1. PICK s \in {"on.emit", "off.emit", "close.check"} : Begin(f, s)
      BY <2>1 DEF StreamOn, StreamOff, Close
    <3>2. \A g \in Files : call'[g] = IF g = f THEN s ELSE call[g]
      BY <3>1, <2>t DEF Begin
    <3>3. tainted \subseteq tainted' /\ (f \in Users /\ Overlap(f) => Dev(f) \in tainted')
      BY <3>1 DEF Begin
    <3>4. OverlapTaints'
      <4> SUFFICES ASSUME NEW g \in Users, NEW h \in Users, g # h, Dev(g) = Dev(h),
                          call'[g] # "none", call'[h] # "none"
                   PROVE  Dev(g) \in tainted'
        BY DEF OverlapTaints, Users, Dev, Pid
      <4>1. CASE g = f
        BY <4>1, <3>2, <3>3 DEF Overlap, Users
      <4>2. CASE h = f
        BY <4>2, <3>2, <3>3 DEF Overlap, Users
      <4>3. CASE g # f /\ h # f
        BY <4>3, <3>2, <3>3 DEF OverlapTaints, Users
      <4> QED
        BY <4>1, <4>2, <4>3
    <3>5. UNCHANGED streaming_pid
      BY <3>1 DEF Begin
    <3> QED
      BY <3>2, <3>3, <3>4, <3>5, DeleteKept
  <2>2. ASSUME NEW f \in Files, EmitOn(f) PROVE OverlapTaints' /\ DeleteInv'
    <3>1. /\ call[f] = "on.emit" /\ UNCHANGED streaming_pid
          /\ \A g \in Files : call'[g] = IF g = f THEN "on.record" ELSE call[g]
      BY <2>2, <2>t DEF EmitOn, Goto
    <3>2. f \in Users
      BY <3>1, DeletersAreUsers
    <3>3. CASE Overlap(f) \/ ~HasRoom
      <4>1. tainted \subseteq tainted'
        BY <3>3, <2>2 DEF EmitOn
      <4> QED
        BY <4>1, <3>1, OverlapKept, DeleteKept
    <3>4. CASE ~Overlap(f) /\ HasRoom
      <4>1. tainted' = tainted \ {Dev(f)}
        BY <3>4, <2>2 DEF EmitOn
      <4>2. \A g \in Users : g # f /\ Dev(g) = Dev(f) => call[g] = "none"
        BY <3>4 DEF Overlap
      <4>3. OverlapTaints'
        BY <4>1, <4>2, <3>1, <3>2 DEF OverlapTaints, Users, Dev, Pid
      <4>4. \A g \in Files : call'[g] = "close.delete" => g \in Users /\ Dev(g) # Dev(f)
        BY <4>2, <3>1, DeletersAreUsers
      <4>5. DeleteInv'
        BY <4>1, <4>4, <3>1 DEF DeleteInv, Dev, Pid
      <4> QED
        BY <4>3, <4>5
    <3> QED
      BY <3>3, <3>4
  <2>3. ASSUME NEW f \in Files, EmitOff(f) \/ EmitRelease(f) PROVE OverlapTaints' /\ DeleteInv'
    <3>1. tainted \subseteq tainted' /\ UNCHANGED streaming_pid
      BY <2>3 DEF EmitOff, EmitRelease, TaintIf
    <3>2. /\ call[f] # "none"
          /\ \A g \in Files : g # f => call'[g] = call[g]
          /\ call'[f] \in {"off.clear", "close.run"}
      BY <2>3, <2>t DEF EmitOff, EmitRelease, Goto
    <3> QED
      BY <3>1, <3>2, OverlapKept, DeleteKept
  <2>4. ASSUME NEW f \in Files, Record(f) \/ Clear(f) \/ Delete(f)
        PROVE  OverlapTaints' /\ DeleteInv'
    <3>1. tainted \subseteq tainted'
      BY <2>4 DEF Record, Clear, Delete, TaintIf
    <3>2. /\ call[f] \in {"on.record", "off.clear", "close.delete"}
          /\ \A g \in Files : g # f => call'[g] = call[g]
          /\ call'[f] \in {"on.run", "off.run", "close.emit"}
      BY <2>4, <2>t DEF Record, Clear, Delete, Goto
    <3>3. \A d \in Devices : d # Dev(f) => streaming_pid'[d] = streaming_pid[d]
      BY <2>4, <2>t DEF Record, Clear, Delete
    <3>4. ASSUME NEW g \in Files, call'[g] = "close.delete", Dev(g) = Dev(f)
          PROVE  Dev(g) \in tainted
      <4>1. g # f /\ call[g] = "close.delete"
        BY <3>2, <3>4
      <4>2. f \in Users /\ g \in Users
        BY <4>1, <3>2, DeletersAreUsers
      <4> QED
        BY <4>1, <4>2, <3>2, <3>4 DEF OverlapTaints
    <3> QED
      BY <3>1, <3>2, <3>3, <3>4, FileParts, OverlapKept, DeleteKept
  <2>5. ASSUME NEW f \in Files, Check(f) PROVE OverlapTaints' /\ DeleteInv'
    <3>1. /\ call[f] = "close.check" /\ UNCHANGED <<streaming_pid, tainted>>
          /\ \A g \in Files : g # f => call'[g] = call[g]
          /\ call'[f] = "close.delete" => OwnEntry(f)
      BY <2>5, <2>t DEF Check, Goto
    <3>2. OverlapTaints'
      BY <3>1, OverlapKept
    <3>3. DeleteInv'
      BY <3>1 DEF DeleteInv, OwnEntry, Dev, Pid
    <3> QED
      BY <3>2, <3>3
  <2>6. ASSUME NEW f \in Files, RunOn(f) \/ RunOnFails(f) \/ RunOff(f) \/ RunClose(f)
        PROVE  OverlapTaints' /\ DeleteInv'
    <3>1. tainted \subseteq tainted' /\ UNCHANGED streaming_pid
      BY <2>6 DEF RunOn, RunOnFails, RunOff, RunClose, TaintIf
    <3>2. \A g \in Files : call'[g] = IF g = f THEN "none" ELSE call[g]
      BY <2>6, <2>t DEF RunOn, RunOnFails, RunOff, RunClose, Goto
    <3> QED
      BY <3>1, <3>2, OverlapKept, DeleteKept
  <2>7. CASE Discard \/ Forward
    <3>1. tainted \subseteq tainted' /\ UNCHANGED <<call, streaming_pid>>
      BY <2>7 DEF Discard, Forward
    <3> QED
      BY <3>1, OverlapKept, DeleteKept
  <2>8. ASSUME NEW f \in Files, Query(f) \/ Open(f) PROVE OverlapTaints' /\ DeleteInv'
    <3>1. UNCHANGED <<call, streaming_pid, tainted>>
      BY <2>8 DEF Query, Open
    <3> QED
      BY <3>1, OverlapKept, DeleteKept
  <2>9. ASSUME NEW p \in Procs, Spawn(p) \/ Exit(p) \/ Reap(p)
        PROVE  OverlapTaints' /\ DeleteInv'
    <3>1. UNCHANGED <<call, streaming_pid, tainted>>
      BY <2>9 DEF Spawn, Exit, Reap, Life
    <3> QED
      BY <3>1, OverlapKept, DeleteKept
  <2>10. CASE OtherStarts \/ OtherEnds \/ UNCHANGED vars
    <3>1. UNCHANGED <<call, streaming_pid, tainted>>
      BY <2>10 DEF OtherStarts, OtherEnds, vars
    <3> QED
      BY <3>1, OverlapKept, DeleteKept
  <2> QED
    BY <2>1, <2>2, <2>3, <2>4, <2>5, <2>6, <2>7, <2>8, <2>9, <2>10 DEF Next, Probe, Read
<1> QED
  BY <1>1, <1>2, TypeCorrect, SelfCorrect, PTL DEF Spec

(* The release probe deletes no entry but its own process's, unless calls  *)
(* on the device overlap, for any number of processes, devices and files.  *)
THEOREM OnlyOwnEntry == Spec => ClearsOnlyOwnEntry
<1>1. DeleteInv => [\A f \in Files : Delete(f) /\ Dev(f) \notin tainted
                                    => streaming_pid[Dev(f)] = Pid(f)]_vars
  BY DEF DeleteInv, Delete, Goto
<1> QED
  BY <1>1, OverlapCorrect, PTL DEF ClearsOnlyOwnEntry

-----------------------------------------------------------------------------
(* What the coordinator will have been told of d when the ring buffer has  *)
(* been read, and whether a release of p is still to be read.              *)
SaidOn(d) ==
  \/ told[d] = On /\ \A i \in 1 .. Len(ring) : ring[i].dev # d
  \/ \E i \in 1 .. Len(ring) :
       /\ ring[i].dev = d /\ ring[i].type = On
       /\ \A j \in 1 .. Len(ring) : j > i => ring[j].dev # d
Released(p, d) ==
  \E i \in 1 .. Len(ring) : ring[i].dev = d /\ ring[i].pid = p /\ ring[i].src = FopRelease

(* A queue is owned by an open file of its device, of a living program.    *)
OwnerInv ==
  /\ \A d \in Devices : owner[d] # NoFile =>
       owner[d] \in open /\ owner[d] \in Users /\ Dev(owner[d]) = d
  /\ \A f \in Users : f \in open => proc[Pid(f)] # "gone"

(* What has been said of d is what its queue does, and streaming_pid knows *)
(* whose it is; or the owner's process has closed another file, which was  *)
(* said to be the end, and the reader has yet to find the process alive.   *)
Stable(d) ==
  IF SaidOn(d) THEN owner[d] # NoFile /\ streaming_pid[d] = Pid(owner[d])
               ELSE owner[d] # NoFile => Released(Pid(owner[d]), d)

(* What each place in a call adds to that or suspends.                     *)
MidCall == {"on.record", "on.run", "off.clear", "off.run", "close.emit"}
CallInv(f) ==
  /\ call[f] \in {"on.record", "on.run"} => SaidOn(Dev(f))
  /\ call[f] = "on.run" => streaming_pid[Dev(f)] = Pid(f)
  /\ call[f] \in {"off.clear", "off.run"} => ~SaidOn(Dev(f))
  /\ call[f] = "close.emit" => \/ owner[Dev(f)] = NoFile
                              \/ Pid(owner[Dev(f)]) = Pid(f)
                              \/ Released(Pid(owner[Dev(f)]), Dev(f))
  /\ call[f] = "close.run" => (owner[Dev(f)] = f => ~SaidOn(Dev(f)))

TrackAt(d) ==
  /\ (\A f \in Users : Dev(f) = d => call[f] \notin MidCall) => Stable(d)
  /\ \A f \in Users : Dev(f) = d => CallInv(f)
TrackInv == \A d \in Devices : d \notin tainted => TrackAt(d)

(* An event that fits is the last word on its device.                      *)
LEMMA EmitSays ==
  ASSUME TypeOK, HasRoom, NEW f \in Files, NEW type \in {On, Off},
         NEW src \in {Ioctl, FopRelease}, Emit(type, src, f), told' = told
  PROVE  /\ SaidOn(Dev(f))' <=> type = On
         /\ \A d \in Devices : d # Dev(f) => (SaidOn(d)' <=> SaidOn(d))
         /\ \A p \in Procs, d \in Devices : Released(p, d) => Released(p, d)'
         /\ src = FopRelease => Released(Pid(f), Dev(f))'
<1> DEFINE e == [type |-> type, src |-> src, pid |-> Pid(f), dev |-> Dev(f)]
           n == Len(ring)
<1>1. e \in Events /\ e.dev = Dev(f) /\ e.type = type /\ e.pid = Pid(f) /\ e.src = src
  BY FileParts DEF Events
<1>2. ring' = Append(ring, e) /\ ring \in Seq(Events)
  BY DEF Emit, TypeOK
<1> HIDE DEF e
<1>3. /\ n \in Nat /\ Len(ring') = n + 1 /\ ring'[n + 1] = e
      /\ \A i \in 1 .. n : ring'[i] = ring[i]
  BY <1>1, <1>2
<1>4. \A i \in 1 .. n + 1 : i = n + 1 \/ i \in 1 .. n
  BY <1>3
<1>5. n + 1 \in 1 .. n + 1 /\ \A i \in 1 .. n : i \in 1 .. n + 1 /\ n + 1 > i
  BY <1>3
<1> HIDE DEF n
<1>6. SaidOn(Dev(f))' <=> type = On
  <2>1. ASSUME type = On PROVE SaidOn(Dev(f))'
    <3>1. ring'[n + 1].dev = Dev(f) /\ ring'[n + 1].type = On
      BY <1>1, <1>3, <2>1
    <3>2. \A j \in 1 .. n + 1 : ~(j > n + 1)
      BY <1>3
    <3> QED
      BY <1>3, <1>5, <3>1, <3>2 DEF SaidOn, Dev
  <2>2. ASSUME type # On PROVE ~SaidOn(Dev(f))'
    <3>1. ring'[n + 1].dev = Dev(f) /\ ring'[n + 1].type # On
      BY <1>1, <1>3, <2>2
    <3> QED
      BY <1>3, <1>4, <1>5, <3>1 DEF SaidOn, Dev
  <2> QED
    BY <2>1, <2>2
<1>7. ASSUME NEW d \in Devices, d # Dev(f) PROVE SaidOn(d)' <=> SaidOn(d)
  <2>1. ring'[n + 1].dev # d
    BY <1>1, <1>3, <1>7
  <2>2. SaidOn(d) => SaidOn(d)'
    BY <1>3, <1>4, <1>5, <2>1 DEF SaidOn, n
  <2>3. SaidOn(d)' => SaidOn(d)
    BY <1>3, <1>4, <1>5, <2>1 DEF SaidOn, n
  <2> QED
    BY <2>2, <2>3
<1>8. \A p \in Procs, d \in Devices : Released(p, d) => Released(p, d)'
  BY <1>3, <1>5 DEF Released, n
<1>9. src = FopRelease => Released(Pid(f), Dev(f))'
  BY <1>1, <1>3, <1>5 DEF Released, Pid, Dev
<1> QED
  BY <1>6, <1>7, <1>8, <1>9

(* Reading the oldest event says nothing new, if the coordinator is told.  *)
LEMMA ReadSays ==
  ASSUME TypeOK, ring # <<>>, ring' = Tail(ring),
         \/ told' = told
         \/ told' = [told EXCEPT ![Head(ring).dev] = Head(ring).type]
  PROVE  /\ \A d \in Devices : d # Head(ring).dev => (SaidOn(d)' <=> SaidOn(d))
         /\ told' = [told EXCEPT ![Head(ring).dev] = Head(ring).type]
              => \A d \in Devices : SaidOn(d)' <=> SaidOn(d)
         /\ \A p \in Procs, d \in Devices :
              Released(p, d) => \/ Released(p, d)'
                                \/ /\ Head(ring).dev = d /\ Head(ring).pid = p
                                   /\ Head(ring).src = FopRelease
<1> DEFINE e == Head(ring)
           n == Len(ring)
<1>1. /\ n \in Nat /\ n >= 1 /\ e = ring[1] /\ e \in Events
      /\ Len(ring') = n - 1 /\ \A i \in 1 .. n - 1 : ring'[i] = ring[i + 1]
  BY EmptySeq, HeadTailProperties DEF TypeOK
<1>2. \A i \in 1 .. n - 1 : i + 1 \in 1 .. n
  BY <1>1
<1>3. \A i \in 1 .. n : i = 1 \/ (i - 1 \in 1 .. n - 1 /\ (i - 1) + 1 = i)
  BY <1>1
<1>4. e.dev \in Devices /\ e.type \in {On, Off} /\ told \in [Devices -> {On, Off}]
  BY <1>1 DEF Events, TypeOK
<1>5. 1 \in 1 .. n /\ \A i \in 1 .. n - 1 : i + 1 > 1
  BY <1>1
<1>6. \A i, j \in 1 .. n : j > i /\ i # 1 => j # 1 /\ j - 1 > i - 1
  BY <1>1
<1>7. \A i, j \in 1 .. n - 1 : j > i => j + 1 > i + 1
  BY <1>1
<1> DEFINE None(d) == \A i \in 1 .. n - 1 : ring'[i].dev # d
           Last(d) == \E i \in 1 .. n - 1 :
                        /\ ring'[i].dev = d /\ ring'[i].type = On
                        /\ \A j \in 1 .. n - 1 : j > i => ring'[j].dev # d
<1>8. \A d \in Devices : (\A i \in 1 .. n : ring[i].dev # d) <=> e.dev # d /\ None(d)
  BY <1>1, <1>2, <1>3, <1>5
<1>9. ASSUME NEW d \in Devices
      PROVE  (\E i \in 1 .. n : /\ ring[i].dev = d /\ ring[i].type = On
                               /\ \A j \in 1 .. n : j > i => ring[j].dev # d)
               <=> Last(d) \/ (e.dev = d /\ e.type = On /\ None(d))
  <2>1. ASSUME NEW i \in 1 .. n, ring[i].dev = d, ring[i].type = On,
               \A j \in 1 .. n : j > i => ring[j].dev # d
        PROVE  Last(d) \/ (e.dev = d /\ e.type = On /\ None(d))
    <3>1. CASE i = 1
      BY <1>1, <1>2, <1>5, <2>1, <3>1
    <3>2. CASE i # 1
      <4>1. i - 1 \in 1 .. n - 1 /\ ring'[i - 1] = ring[i]
        BY <1>1, <1>3, <3>2
      <4>2. ASSUME NEW j \in 1 .. n - 1, j > i - 1 PROVE ring'[j].dev # d
        <5>1. j + 1 \in 1 .. n /\ j + 1 > i
          BY <1>1, <4>2
        <5> QED
          BY <1>1, <2>1, <5>1
      <4> QED
        BY <2>1, <4>1, <4>2
    <3> QED
      BY <3>1, <3>2
  <2>2. ASSUME NEW i \in 1 .. n - 1, ring'[i].dev = d, ring'[i].type = On,
               \A j \in 1 .. n - 1 : j > i => ring'[j].dev # d
        PROVE  /\ i + 1 \in 1 .. n /\ ring[i + 1].dev = d /\ ring[i + 1].type = On
               /\ \A j \in 1 .. n : j > i + 1 => ring[j].dev # d
    <3>1. i + 1 \in 1 .. n /\ ring'[i] = ring[i + 1]
      BY <1>1, <1>2
    <3>2. ASSUME NEW j \in 1 .. n, j > i + 1 PROVE ring[j].dev # d
      <4>1. j - 1 \in 1 .. n - 1 /\ j - 1 > i /\ (j - 1) + 1 = j
        BY <1>1, <3>2
      <4> QED
        BY <1>1, <2>2, <4>1
    <3> QED
      BY <2>2, <3>1, <3>2
  <2>3. ASSUME e.dev = d, e.type = On, None(d)
        PROVE  /\ ring[1].dev = d /\ ring[1].type = On
               /\ \A j \in 1 .. n : j > 1 => ring[j].dev # d
    <3>1. ASSUME NEW j \in 1 .. n, j > 1 PROVE ring[j].dev # d
      <4>1. j - 1 \in 1 .. n - 1 /\ (j - 1) + 1 = j
        BY <1>1, <3>1
      <4> QED
        BY <1>1, <2>3, <4>1
    <3> QED
      BY <1>1, <2>3, <3>1
  <2> HIDE DEF None, n, e
  <2> QED
    BY <1>5, <2>1, <2>2, <2>3
<1>10. \A d \in Devices :
         SaidOn(d) <=> \/ told[d] = On /\ e.dev # d /\ None(d)
                       \/ Last(d) \/ (e.dev = d /\ e.type = On /\ None(d))
  BY <1>8, <1>9 DEF SaidOn
<1>11. \A d \in Devices : SaidOn(d)' <=> (told'[d] = On /\ None(d)) \/ Last(d)
  BY <1>1 DEF SaidOn
<1> HIDE DEF None, Last
<1>12. \A d \in Devices : d # e.dev => (SaidOn(d)' <=> SaidOn(d))
  BY <1>4, <1>10, <1>11
<1>13. ASSUME told' = [told EXCEPT ![e.dev] = e.type], NEW d \in Devices
       PROVE  SaidOn(d)' <=> SaidOn(d)
  <2>1. told'[e.dev] = e.type
    BY <1>4, <1>13
  <2>2. CASE d = e.dev
    BY <2>1, <2>2, <1>10, <1>11
  <2> QED
    BY <1>12, <2>2
<1>14. ASSUME NEW p \in Procs, NEW d \in Devices, Released(p, d)
       PROVE  Released(p, d)' \/ (e.dev = d /\ e.pid = p /\ e.src = FopRelease)
  <2>1. PICK i \in 1 .. n : ring[i].dev = d /\ ring[i].pid = p /\ ring[i].src = FopRelease
    BY <1>14 DEF Released
  <2>2. i = 1 \/ (i - 1 \in 1 .. n - 1 /\ ring'[i - 1] = ring[i])
    BY <1>1, <1>3
  <2> QED
    BY <1>1, <2>1, <2>2 DEF Released
<1> QED
  BY <1>12, <1>13, <1>14

(* A queue belongs to an open file of a program that has not been reaped.  *)
LEMMA OwnerCorrect == Spec => []OwnerInv
<1> USE SelfAssumption
<1>1. Init => OwnerInv
  BY DEF Init, OwnerInv
<1>2. TypeOK /\ SelfInv /\ OwnerInv /\ [Next]_vars => OwnerInv'
  <2> SUFFICES ASSUME TypeOK, SelfInv, OwnerInv, [Next]_vars PROVE OwnerInv'
    OBVIOUS
  <2> USE DEF kernelVars, readerVars, pidVars
  <2>t. /\ owner \in [Devices -> Files \cup {NoFile}] /\ open \subseteq Files
        /\ proc \in [Procs -> {"running", "exiting", "gone"}]
        /\ \A f \in Files : call[f] # "none" => f \in open
    BY DEF TypeOK
  <2>0. ASSUME UNCHANGED <<owner, open, proc>> PROVE OwnerInv'
    BY <2>0 DEF OwnerInv, Users, Dev, Pid
  <2>1. ASSUME NEW f \in Files, RunOn(f) PROVE OwnerInv'
    <3>1. f \in open /\ f \in Users /\ UNCHANGED <<open, proc>>
      BY <2>1, <2>t, DeletersAreUsers DEF RunOn, Goto
    <3>2. \A d \in Devices : owner'[d] = IF d = Dev(f) THEN f ELSE owner[d]
      BY <2>1, <2>t DEF RunOn
    <3> QED
      BY <3>1, <3>2 DEF OwnerInv, Users, Dev, Pid
  <2>2. ASSUME NEW f \in Files, RunOff(f) \/ RunClose(f) PROVE OwnerInv'
    <3>1. \A d \in Devices : owner'[d] = IF d = Dev(f) /\ owner[d] = f THEN NoFile ELSE owner[d]
      BY <2>2, <2>t DEF RunOff, RunClose, Disown
    <3>2. open' \subseteq open /\ open \ {f} \subseteq open' /\ UNCHANGED proc
      BY <2>2 DEF RunOff, RunClose
    <3>3. ASSUME NEW d \in Devices, owner'[d] # NoFile
          PROVE  owner'[d] = owner[d] /\ owner[d] # f
      <4>1. owner[d] = f => Dev(f) = d
        BY <2>t, SelfAssumption, <3>3, <3>1 DEF OwnerInv, Users
      <4> QED
        BY <3>1, <3>3, <4>1
    <3> QED
      BY <3>2, <3>3 DEF OwnerInv, Users, Dev, Pid
  <2>3. ASSUME NEW f \in Files, Query(f) \/ Open(f) PROVE OwnerInv'
    <3>1. UNCHANGED <<owner, proc>> /\ open' = open \cup {f}
      BY <2>3 DEF Query, Open
    <3>2. f \in Users => proc[Pid(f)] # "gone"
      BY <2>3 DEF Query, Open, Running, Users
    <3> QED
      BY <3>1, <3>2 DEF OwnerInv, Users, Dev, Pid
  <2>4. ASSUME NEW p \in Procs, Spawn(p) \/ Exit(p) \/ Reap(p) PROVE OwnerInv'
    <3>1. UNCHANGED <<owner, open>>
      BY <2>4 DEF Spawn, Exit, Reap, Life
    <3>2. \A q \in Procs : proc'[q] = "gone" =>
            proc[q] = "gone" \/ (q = p /\ \A f \in open : Pid(f) # p)
      BY <2>4, <2>t DEF Spawn, Exit, Reap, Life
    <3>3. \A f \in Users : f \in open => proc'[Pid(f)] # "gone"
      BY <3>2, FileParts DEF OwnerInv, Users
    <3> QED
      BY <3>1, <3>3 DEF OwnerInv, Users, Dev, Pid
  <2>5. ASSUME NEW f \in Files,
               StreamOn(f) \/ StreamOff(f) \/ Close(f) \/ EmitOn(f) \/ Record(f) \/ RunOnFails(f)
               \/ EmitOff(f) \/ Clear(f) \/ Check(f) \/ Delete(f) \/ EmitRelease(f)
        PROVE  OwnerInv'
    <3>1. UNCHANGED <<owner, open, proc>>
      BY <2>5 DEF StreamOn, StreamOff, Close, Begin, EmitOn, Record, RunOnFails, EmitOff, Clear,
                  Check, Delete, EmitRelease
    <3> QED
      BY <2>0, <3>1
  <2>6. CASE Discard \/ Forward \/ OtherStarts \/ OtherEnds \/ UNCHANGED vars
    <3>1. UNCHANGED <<owner, open, proc>>
      BY <2>6 DEF Discard, Forward, OtherStarts, OtherEnds, vars
    <3> QED
      BY <2>0, <3>1
  <2> QED
    BY <2>1, <2>2, <2>3, <2>4, <2>5, <2>6 DEF Next, Probe, Read
<1> QED
  BY <1>1, <1>2, TypeCorrect, SelfCorrect, PTL DEF Spec

(* A device stays tracked when neither its queue, its entry, its events    *)
(* nor the calls in their middle change.                                   *)
LEMMA TrackFrame ==
  ASSUME NEW d \in Devices, TrackAt(d),
         owner'[d] = owner[d], streaming_pid'[d] = streaming_pid[d],
         SaidOn(d)' <=> SaidOn(d),
         owner[d] # NoFile /\ Released(Pid(owner[d]), d) => Released(Pid(owner[d]), d)',
         \A g \in Users : Dev(g) = d =>
           \/ call'[g] = call[g]
           \/ call'[g] \in {"none", "on.emit", "off.emit", "close.check"} /\ call[g] \notin MidCall
  PROVE  TrackAt(d)'
<1>1. Stable(d) => Stable(d)'
  BY DEF Stable, Pid
<1>2. (\A g \in Users : Dev(g) = d => call'[g] \notin MidCall)
        => \A g \in Users : Dev(g) = d => call[g] \notin MidCall
  BY DEF MidCall
<1>3. ASSUME NEW g \in Users, Dev(g) = d PROVE CallInv(g)'
  <2>1. CallInv(g)
    BY <1>3 DEF TrackAt
  <2>2. /\ owner'[Dev(g)] = owner[Dev(g)] /\ streaming_pid'[Dev(g)] = streaming_pid[Dev(g)]
        /\ SaidOn(Dev(g))' <=> SaidOn(Dev(g))
    BY <1>3 DEF SaidOn, Dev
  <2> QED
    BY <1>3, <2>1, <2>2 DEF CallInv, Dev, Pid
<1> QED
  BY <1>1, <1>2, <1>3 DEF TrackAt, Users, Dev, Pid

(* Only the ring buffer and the coordinator's knowledge make the words.    *)
LEMMA SameWords ==
  ASSUME ring' = ring, told' = told
  PROVE  \A d : (SaidOn(d)' <=> SaidOn(d)) /\ \A p : Released(p, d)' <=> Released(p, d)
BY DEF SaidOn, Released

(* The same where no release is taken from the ring buffer.                *)
LEMMA TrackKept ==
  ASSUME TypeOK, NEW d \in Devices, TrackAt(d),
         owner'[d] = owner[d], streaming_pid'[d] = streaming_pid[d],
         SaidOn(d)' <=> SaidOn(d), \A p \in Procs : Released(p, d) => Released(p, d)',
         \A g \in Users : Dev(g) = d =>
           \/ call'[g] = call[g]
           \/ call'[g] \in {"none", "on.emit", "off.emit", "close.check"} /\ call[g] \notin MidCall
  PROVE  TrackAt(d)'
<1>1. owner[d] # NoFile => Pid(owner[d]) \in Procs
  BY FileParts DEF TypeOK
<1>2. ASSUME owner[d] # NoFile, Released(Pid(owner[d]), d) PROVE Released(Pid(owner[d]), d)'
  <2> DEFINE p == Pid(owner[d])
  <2>1. PICK q \in Procs : q = p
    BY <1>1, <1>2
  <2>2. Released(q, d)'
    BY <1>2, <2>1
  <2>3. Pid(owner[d])' = q
    BY <2>1 DEF Pid
  <2> HIDE DEF p
  <2> QED
    BY <2>2, <2>3 DEF Released
<1> QED
  BY <1>2, TrackFrame

(* The device of a call is tracked after it when only that call is on its  *)
(* way and says what its place demands.                                    *)
LEMMA TrackCall ==
  ASSUME NEW f \in Users, \A g \in Users : g # f /\ Dev(g) = Dev(f) => call'[g] = "none",
         CallInv(f)', call'[f] \notin MidCall => Stable(Dev(f))'
  PROVE  TrackAt(Dev(f))'
<1>1. ASSUME NEW g \in Users, Dev(g) = Dev(f) PROVE CallInv(g)'
  <2>1. CASE g = f
    BY <2>1
  <2>2. CASE g # f
    BY <1>1, <2>2 DEF CallInv
  <2> QED
    BY <2>1, <2>2
<1> QED
  BY <1>1 DEF TrackAt, Users, Dev, Pid

(* What a step of one call leaves alone.                                   *)
OnlyCall(f) ==
  /\ \A g \in Files : g # f => call'[g] = call[g]
  /\ \A d \in Devices : d # Dev(f) =>
       owner'[d] = owner[d] /\ streaming_pid'[d] = streaming_pid[d]
  /\ told' = told

(* So devices other than the call's are tracked as before.                 *)
LEMMA TrackOthers ==
  ASSUME TypeOK, NEW f \in Files, OnlyCall(f), NEW d \in Devices, d # Dev(f), TrackAt(d),
         \/ ring' = ring
         \/ HasRoom /\ \E type \in {On, Off}, src \in {Ioctl, FopRelease} : Emit(type, src, f)
  PROVE  TrackAt(d)'
<1>1. (SaidOn(d)' <=> SaidOn(d)) /\ \A p \in Procs : Released(p, d) => Released(p, d)'
  <2>1. CASE ring' = ring
    BY <2>1, SameWords DEF OnlyCall
  <2>2. CASE HasRoom /\ \E type \in {On, Off}, src \in {Ioctl, FopRelease} : Emit(type, src, f)
    BY <2>2, EmitSays DEF OnlyCall
  <2> QED
    BY <2>1, <2>2
<1>2. \A g \in Users : Dev(g) = d => call'[g] = call[g]
  BY DEF OnlyCall, Users
<1> QED
  BY <1>1, <1>2, TrackKept DEF OnlyCall

(* The emissions: afterwards the last word on the device is the event's.   *)
LEMMA TrackEmit ==
  ASSUME TypeOK, SelfInv, OverlapTaints, OwnerInv, TrackInv,
         NEW f \in Files, EmitOn(f) \/ EmitOff(f) \/ EmitRelease(f)
  PROVE  TrackInv'
<1> USE DEF kernelVars, readerVars, pidVars
<1>t. call \in [Files -> Steps] /\ tainted \subseteq Devices
  BY DEF TypeOK
<1>1. /\ f \in Users /\ call[f] \in {"on.emit", "off.emit", "close.emit"}
      /\ \A g \in Files : g # f => call'[g] = call[g]
      /\ UNCHANGED <<owner, streaming_pid, told>>
  BY <1>t, DeletersAreUsers DEF EmitOn, EmitOff, EmitRelease, Goto
<1>2. OnlyCall(f)
  BY <1>1 DEF OnlyCall
<1>3. \A d \in Devices : d # Dev(f) /\ d \notin tainted' => d \notin tainted
  BY DEF EmitOn, EmitOff, EmitRelease, TaintIf
<1>4. \E type \in {On, Off}, src \in {Ioctl, FopRelease} : Emit(type, src, f)
  BY DEF EmitOn, EmitOff, EmitRelease
<1>5. ASSUME NEW d \in Devices, d # Dev(f), d \notin tainted' PROVE TrackAt(d)'
  <2>1. ring' = ring \/ HasRoom
    BY <1>4 DEF Emit
  <2> QED
    BY <1>2, <1>3, <1>4, <1>5, <2>1, TrackOthers DEF TrackInv
<1>6. ASSUME Dev(f) \notin tainted' PROVE TrackAt(Dev(f))'
  <2>1. HasRoom
    BY <1>6, <1>t, FileParts DEF EmitOn, EmitOff, EmitRelease, TaintIf
  <2>2. \A g \in Users : g # f /\ Dev(g) = Dev(f) => call[g] = "none"
    <3>1. CASE EmitOn(f)
      BY <1>1, <1>6, <2>1, <3>1 DEF EmitOn, Overlap, OverlapTaints
    <3>2. CASE EmitOff(f) \/ EmitRelease(f)
      BY <1>1, <1>6, <2>1, <3>2 DEF EmitOff, EmitRelease, TaintIf, OverlapTaints
    <3> QED
      BY <3>1, <3>2
  <2>3. \A g \in Users : g # f /\ Dev(g) = Dev(f) => call'[g] = "none"
    BY <1>1, <2>2 DEF Users
  <2>4. CASE EmitOn(f)
    <3>1. SaidOn(Dev(f))' /\ call'[f] = "on.record"
      BY <1>1, <1>t, <2>1, <2>4, EmitSays DEF EmitOn, Goto
    <3> QED
      BY <1>1, <2>3, <3>1, TrackCall DEF CallInv, MidCall
  <2>5. CASE EmitOff(f)
    <3>1. ~SaidOn(Dev(f))' /\ call'[f] = "off.clear"
      BY <1>1, <1>t, <2>1, <2>5, EmitSays DEF EmitOff, Goto, On, Off
    <3> QED
      BY <1>1, <2>3, <3>1, TrackCall DEF CallInv, MidCall
  <2>6. CASE EmitRelease(f)
    <3> DEFINE d == Dev(f)
    <3>1. /\ ~SaidOn(d)' /\ call'[f] = "close.run" /\ Released(Pid(f), d)'
          /\ \A p \in Procs : Released(p, d) => Released(p, d)'
      BY <1>1, <1>t, <2>1, <2>6, FileParts, EmitSays DEF EmitRelease, Goto, On, Off
    <3>2. owner[d] = NoFile \/ Pid(owner[d]) = Pid(f) \/ Released(Pid(owner[d]), d)
      <4>1. d \in Devices /\ d \notin tainted /\ call[f] = "close.emit"
        BY <1>6, <2>1, <2>6, FileParts DEF EmitRelease, TaintIf, Goto
      <4> QED
        BY <1>1, <4>1 DEF TrackInv, TrackAt, CallInv
    <3>3. ASSUME owner[d] # NoFile PROVE Released(Pid(owner[d]), d)'
      <4>1. PICK q \in Procs : q = Pid(owner[d])
        BY <3>3, FileParts DEF TypeOK
      <4>2. Released(q, d)'
        BY <3>1, <3>2, <3>3, <4>1 DEF Released, Pid
      <4>3. Pid(owner[d])' = q
        BY <1>1, <4>1 DEF Pid, Dev
      <4> QED
        BY <4>2, <4>3 DEF Released
    <3>4. Stable(d)'
      BY <1>1, <3>1, <3>3 DEF Stable, Dev
    <3>5. CallInv(f)'
      BY <3>1 DEF CallInv, Dev
    <3> QED
      BY <1>1, <2>3, <3>4, <3>5, TrackCall
  <2> QED
    BY <2>4, <2>5, <2>6
<1> QED
  BY <1>5, <1>6 DEF TrackInv, Dev

(* A call that begins disturbs no device.                                  *)
LEMMA TrackBegin ==
  ASSUME TypeOK, TrackInv, NEW f \in Files, StreamOn(f) \/ StreamOff(f) \/ Close(f)
  PROVE  TrackInv'
<1>1. PICK s \in {"on.emit", "off.emit", "close.check"} : Begin(f, s)
  BY DEF StreamOn, StreamOff, Close
<1>2. /\ UNCHANGED <<owner, streaming_pid, ring, told>> /\ tainted \subseteq tainted'
      /\ \A g \in Files : \/ call'[g] = call[g]
                         \/ /\ call'[g] \in {"none", "on.emit", "off.emit", "close.check"}
                            /\ call[g] \notin MidCall
  BY <1>1 DEF Begin, TypeOK, kernelVars, readerVars, pidVars, MidCall
<1>3. \A d \in Devices : d \notin tainted' => TrackAt(d)'
  BY <1>2, SameWords, TrackKept DEF TrackInv, Users
<1> QED
  BY <1>3 DEF TrackInv

(* The other steps of a call, in the kernel and on streaming_pid, leave    *)
(* its device tracked.                                                     *)
LEMMA TrackProbe ==
  ASSUME TypeOK, SelfInv, OverlapTaints, DeleteInv, OwnerInv, TrackInv, NEW f \in Users,
         \/ Record(f) \/ RunOn(f) \/ RunOnFails(f) \/ Clear(f) \/ RunOff(f)
         \/ Check(f) \/ Delete(f) \/ RunClose(f)
  PROVE  TrackInv'
<1> USE DEF kernelVars, readerVars, pidVars
<1> DEFINE d == Dev(f)
<1>t. /\ call \in [Files -> Steps] /\ tainted \subseteq Devices /\ f \in Files /\ d \in Devices
      /\ owner \in [Devices -> Files \cup {NoFile}]
      /\ streaming_pid \in [Devices -> Procs \cup {NoPid}]
  BY FileParts DEF TypeOK, Users
<1>1. /\ OnlyCall(f) /\ UNCHANGED ring /\ tainted \subseteq tainted' /\ call[f] # "none"
  BY <1>t DEF OnlyCall, Record, RunOn, RunOnFails, Clear, RunOff, Check, Delete, RunClose, Goto,
              Disown, TaintIf
<1>2. ASSUME NEW c \in Devices, c # d, c \notin tainted' PROVE TrackAt(c)'
  BY <1>1, <1>2, <1>t, TrackOthers DEF TrackInv
<1>3. ASSUME d \notin tainted' PROVE TrackAt(d)'
  <2>1. \A g \in Users : g # f /\ Dev(g) = d => call[g] = "none" /\ call'[g] = "none"
    BY <1>1, <1>3, <1>t DEF OverlapTaints, OnlyCall, Users
  <2>2. /\ CallInv(f) /\ (SaidOn(d)' <=> SaidOn(d))
        /\ call[f] \notin MidCall => Stable(d)
    <3>1. d \notin tainted
      BY <1>1, <1>3
    <3>2. TrackAt(d)
      BY <1>t, <3>1 DEF TrackInv
    <3>3. CallInv(f) /\ (call[f] \notin MidCall => Stable(d))
      BY <2>1, <3>2 DEF TrackAt, MidCall
    <3>4. SaidOn(d)' <=> SaidOn(d)
      BY <1>1, SameWords DEF OnlyCall, Dev, SaidOn
    <3> QED
      BY <3>3, <3>4
  <2>r. \A p : Released(p, d)' <=> Released(p, d)
    BY <1>1, SameWords DEF OnlyCall, Released, Dev
  <2> SUFFICES CallInv(f)' /\ (call'[f] \notin MidCall => Stable(d)')
    BY <2>1, TrackCall
  <2>3. CASE Record(f)
    BY <1>3, <1>t, <2>2, <2>3 DEF Record, Goto, TaintIf, CallInv, MidCall, Dev, Pid
  <2>4. CASE RunOn(f)
    BY <1>t, <2>2, <2>4, SelfAssumption DEF RunOn, Goto, CallInv, Stable, Dev, Pid
  <2>5. CASE RunOnFails(f)
    BY <1>3, <2>5 DEF RunOnFails, TaintIf
  <2>6. CASE Clear(f)
    BY <1>t, <2>2, <2>6 DEF Clear, Goto, CallInv, MidCall, Dev
  <2>7. CASE RunOff(f)
    BY <1>3, <1>t, <2>2, <2>7 DEF RunOff, Goto, Disown, TaintIf, CallInv, Stable, Dev
  <2>8. CASE Check(f)
    BY <1>t, <2>2, <2>r, <2>8 DEF Check, Goto, OwnEntry, CallInv, Stable, MidCall, Dev, Pid
  <2>9. CASE Delete(f)
    BY <1>1, <1>3, <1>t, <2>2, <2>r, <2>9 DEF Delete, Goto, DeleteInv, CallInv, Stable, MidCall, Dev, Pid
  <2>10. CASE RunClose(f)
    BY <1>t, <2>2, <2>r, <2>10 DEF RunClose, Goto, Disown, CallInv, Stable, MidCall, Dev, Pid
  <2> QED
    BY <2>3, <2>4, <2>5, <2>6, <2>7, <2>8, <2>9, <2>10
<1> QED
  BY <1>2, <1>3 DEF TrackInv, Dev

(* The closes of the daemon's queries change nothing that is tracked.      *)
LEMMA TrackSelf ==
  ASSUME TypeOK, OwnerInv, TrackInv, NEW f \in Files, f \notin Users, Check(f) \/ RunClose(f)
  PROVE  TrackInv'
<1>1. /\ UNCHANGED <<streaming_pid, ring, told, tainted>>
      /\ \A g \in Users : call'[g] = call[g]
  BY DEF Check, RunClose, Goto, TypeOK, Users, kernelVars, readerVars, pidVars
<1>2. \A d \in Devices : owner'[d] = owner[d]
  BY SelfAssumption DEF Check, RunClose, Disown, OwnerInv, TypeOK, kernelVars
<1>3. \A d \in Devices : d \notin tainted' => TrackAt(d)'
  BY <1>1, <1>2, SameWords, TrackKept DEF TrackInv
<1> QED
  BY <1>3 DEF TrackInv

(* What is forwarded is no news, and what is discarded taints; a release   *)
(* of the queue's owner is not forwarded, for the owner is alive.          *)
LEMMA TrackRead ==
  ASSUME TypeOK, OwnerInv, TrackInv, Discard \/ Forward
  PROVE  TrackInv'
<1>1. /\ ring # <<>> /\ ring' = Tail(ring) /\ tainted \subseteq tainted'
      /\ UNCHANGED <<call, owner, streaming_pid>>
  BY DEF Discard, Forward, kernelVars, readerVars, pidVars
<1>2. ASSUME NEW d \in Devices, d \notin tainted' PROVE TrackAt(d)'
  <2>1. TrackAt(d)
    BY <1>1, <1>2 DEF TrackInv
  <2>2. SaidOn(d)' <=> SaidOn(d)
    <3>1. CASE Discard
      BY <1>1, <1>2, <3>1, ReadSays DEF Discard, readerVars
    <3>2. CASE Forward
      BY <1>1, <3>2, ReadSays DEF Forward
    <3> QED
      BY <3>1, <3>2
  <2>3. ASSUME owner[d] # NoFile, Released(Pid(owner[d]), d)
        PROVE  Released(Pid(owner[d]), d)'
    <3>1. /\ owner[d] \in Users /\ owner[d] \in open /\ proc[Pid(owner[d])] # "gone"
      BY <2>3 DEF OwnerInv
    <3>2. PICK q \in Procs : q = Pid(owner[d])
      BY <3>1, FileParts DEF Users
    <3>3. Released(q, d)' \/ (Head(ring).dev = d /\ Head(ring).pid = q /\ Head(ring).src = FopRelease)
      <4>1. told' = told \/ told' = [told EXCEPT ![Head(ring).dev] = Head(ring).type]
        BY DEF Discard, Forward, readerVars
      <4> QED
        BY <1>1, <2>3, <3>2, <4>1, ReadSays
    <3>4. Released(q, d)'
      BY <1>2, <3>1, <3>2, <3>3 DEF Discard, Forward, Filtered, Alive
    <3>5. Pid(owner[d])' = q
      BY <1>1, <3>2 DEF Pid
    <3> QED
      BY <3>4, <3>5 DEF Released
  <2> QED
    BY <1>1, <2>1, <2>2, <2>3, TrackFrame
<1> QED
  BY <1>2 DEF TrackInv

(* With nothing under way on an untainted device, the last event sent for  *)
(* it says whether it streams: with any number of programs, of devices and *)
(* of files, several of one process included.                              *)
THEOREM ReportsCorrect == Spec => []ReportsTrackStreaming
<1> USE SelfAssumption DEF On, Off
<1>1. Init => TrackInv
  BY DEF Init, TrackInv, TrackAt, CallInv, Stable, SaidOn, Users
<1>2. TypeOK /\ SelfInv /\ OverlapTaints /\ DeleteInv /\ OwnerInv /\ TrackInv /\ [Next]_vars
        => TrackInv'
  <2> SUFFICES ASSUME TypeOK, SelfInv, OverlapTaints, DeleteInv, OwnerInv, TrackInv, [Next]_vars
               PROVE  TrackInv'
    OBVIOUS
  <2>1. ASSUME NEW f \in Files, StreamOn(f) \/ StreamOff(f) \/ Close(f) PROVE TrackInv'
    BY <2>1, TrackBegin
  <2>2. ASSUME NEW f \in Files, EmitOn(f) \/ EmitOff(f) \/ EmitRelease(f) PROVE TrackInv'
    BY <2>2, TrackEmit
  <2>3. ASSUME NEW f \in Files,
               \/ Record(f) \/ RunOn(f) \/ RunOnFails(f) \/ Clear(f) \/ RunOff(f)
               \/ Check(f) \/ Delete(f) \/ RunClose(f)
        PROVE  TrackInv'
    <3>1. CASE f \in Users
      BY <2>3, <3>1, TrackProbe
    <3>2. CASE f \notin Users
      <4>1. Check(f) \/ RunClose(f)
        BY <2>3, <3>2, DeletersAreUsers
           DEF Record, RunOn, RunOnFails, Clear, RunOff, Delete, Goto
      <4> QED
        BY <3>2, <4>1, TrackSelf
    <3> QED
      BY <3>1, <3>2
  <2>4. CASE Discard \/ Forward
    BY <2>4, TrackRead
  <2>5. ASSUME UNCHANGED <<call, owner, streaming_pid, ring, told, tainted>> PROVE TrackInv'
    <3>1. \A d \in Devices : d \notin tainted' => TrackAt(d)'
      BY <2>5, SameWords, TrackKept DEF TrackInv
    <3> QED
      BY <3>1 DEF TrackInv
  <2>6. ASSUME NEW f \in Files, Query(f) \/ Open(f) PROVE TrackInv'
    BY <2>5, <2>6 DEF Query, Open, pidVars, readerVars
  <2>7. ASSUME NEW p \in Procs, Spawn(p) \/ Exit(p) \/ Reap(p) PROVE TrackInv'
    BY <2>5, <2>7 DEF Spawn, Exit, Reap, Life, kernelVars, readerVars, pidVars
  <2>8. CASE OtherStarts \/ OtherEnds \/ UNCHANGED vars
    BY <2>5, <2>8 DEF OtherStarts, OtherEnds, vars, readerVars, pidVars
  <2> QED
    BY <2>1, <2>2, <2>3, <2>4, <2>6, <2>7, <2>8 DEF Next, Probe, Read
<1>3. TypeOK /\ TrackInv => ReportsTrackStreaming
  <2> SUFFICES ASSUME TypeOK, TrackInv, NEW d \in Devices, Quiet(d), d \notin tainted
               PROVE  told[d] = On <=> owner[d] # NoFile
    BY DEF ReportsTrackStreaming
  <2>1. Stable(d)
    BY DEF TrackInv, TrackAt, Quiet, MidCall
  <2>2. (SaidOn(d) <=> told[d] = On) /\ \A p : ~Released(p, d)
    BY DEF Quiet, SaidOn, Released
  <2> QED
    BY <2>1, <2>2 DEF Stable
<1> QED
  BY <1>1, <1>2, <1>3, TypeCorrect, SelfCorrect, OverlapCorrect, OwnerCorrect, PTL DEF Spec

=============================================================================
