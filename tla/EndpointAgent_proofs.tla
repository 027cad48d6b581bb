------------------------ MODULE EndpointAgent_proofs ------------------------
(***************************************************************************)
(* Proofs about EndpointAgent, for every set of probes, every order of them,*)
(* every set of configurations and every number of events and restarts.     *)
(* IInv is inductive: each step of either thread, each failure, a signal,   *)
(* the loss of the process and its restart preserve it.  So are, beside it, *)
(* TailInv (the output files), FlowInv (the order of the events), CoverInv  *)
(* (the status) and AccountInv (what became of each event).                 *)
(***************************************************************************)
EXTENDS EndpointAgent, FiniteSetTheorems, TLAPS

-----------------------------------------------------------------------------
(* Types.                                                                   *)

\* The types of the configuration the agent runs with.
LEMMA ConfTypes ==
  ASSUME TypeOK
  PROVE  /\ conf.keep \in Nat /\ conf.retries \in Nat /\ conf.queue \in Nat
         /\ conf.limit \in Int /\ conf.rotate \in Int /\ conf.bytes \in Int
         /\ conf.heartbeat \in BOOLEAN
  BY ConfigAssumption DEF TypeOK

\* The files and the buffer are sequences of records, so that their lengths are numbers.
LEMMA FileTypes ==
  ASSUME TypeOK
  PROVE  /\ 0 \in 0..conf.keep /\ disk[0] \in Seq(Event) /\ Len(disk[0]) \in Nat
         /\ \A i \in 0..conf.keep : Len(disk[i]) \in Nat
         /\ buffer \in Seq(Event) /\ Len(buffer) \in Nat
         /\ tries \in Nat /\ tries <= conf.retries
  <1>1. 0 \in 0..conf.keep
    BY ConfTypes
  <1>2. disk \in [0..conf.keep -> Seq(Event)] /\ buffer \in Seq(Event)
    BY DEF TypeOK
  <1>3. tries \in Nat /\ tries <= conf.retries
    BY ConfTypes DEF TypeOK
  <1> QED BY <1>1, <1>2, <1>3

\* The counters stay counters when one of them goes up.
LEMMA CountTypes ==
  /\ NoCount \in Count
  /\ \A c \in Count : /\ [c EXCEPT !.read = @ + 1] \in Count
                      /\ [c EXCEPT !.events = @ + 1] \in Count
                      /\ [c EXCEPT !.rotations = @ + 1] \in Count
                      /\ [c EXCEPT !.backpressure = @ + 1] \in Count
  /\ \A c \in Count, n \in Nat : [c EXCEPT !.written = @ + 1, !.shed = @ + n] \in Count
  <1>1. NoCount \in Count
    BY DEF NoCount, Count
  <1>2. ASSUME NEW c \in Count PROVE [c EXCEPT !.read = @ + 1] \in Count
    BY DEF Count
  <1>3. ASSUME NEW c \in Count PROVE [c EXCEPT !.events = @ + 1] \in Count
    BY DEF Count
  <1>4. ASSUME NEW c \in Count PROVE [c EXCEPT !.rotations = @ + 1] \in Count
    BY DEF Count
  <1>5. ASSUME NEW c \in Count PROVE [c EXCEPT !.backpressure = @ + 1] \in Count
    BY DEF Count
  <1>6. ASSUME NEW c \in Count, NEW n \in Nat
        PROVE  [c EXCEPT !.written = @ + 1, !.shed = @ + n] \in Count
    <2>1. c.written + 1 \in Nat /\ c.shed + n \in Nat
      BY DEF Count
    <2> QED BY <2>1, Zenon DEF Count
  <1> QED BY <1>1, <1>2, <1>3, <1>4, <1>5, <1>6

\* Whoever writes the status file writes a status.
LEMMA StatusTypes ==
  ASSUME TypeOK
  PROVE  /\ NoStatus \in Status
         /\ \A r \in Reasons : Snapshot(r) \in Status
         /\ \A r \in Reasons : WriteStatus(r) => status' \in Status /\ recent' \in BOOLEAN
  <1>1. NoStatus \in Status
    BY CountTypes DEF NoStatus, Status, Reasons
  <1>2. ASSUME NEW r \in Reasons PROVE Snapshot(r) \in Status
    BY DEF TypeOK, Snapshot, Status
  <1>3. ASSUME NEW r \in Reasons, WriteStatus(r) PROVE status' \in Status /\ recent' \in BOOLEAN
    BY <1>2, <1>3, ConfTypes DEF WriteStatus, TypeOK
  <1> QED BY <1>1, <1>2, <1>3

\* The order of the probes is a sequence.
LEMMA ProbeTypes == ProbeOrder \in Seq(Probes) /\ Len(ProbeOrder) \in Nat
  BY OrderAssumption

\* cleanup() keeps the types of the session.
LEMMA CleanupType == ASSUME SessionTypeOK, Cleanup PROVE SessionTypeOK'
  <1>1. queue' \in [Probes -> Seq(Event)] /\ batch' \in Seq(Event)
    BY DEF Cleanup
  <1>2. turn' \in 1 .. Len(ProbeOrder) + 1
    BY ProbeTypes DEF Cleanup
  <1> QED BY <1>1, <1>2 DEF SessionTypeOK, Cleanup

\* So does a session that starts anew.
LEMMA ResetType == ASSUME SessionTypeOK, SessionReset PROVE SessionTypeOK'
  <1>1. queue' \in [Probes -> Seq(Event)] /\ batch' \in Seq(Event)
    BY DEF SessionReset
  <1>2. turn' \in 1 .. Len(ProbeOrder) + 1
    BY ProbeTypes DEF SessionReset
  <1> QED BY <1>1, <1>2 DEF SessionTypeOK, SessionReset

-----------------------------------------------------------------------------
(* The output files.                                                        *)

\* The length of a concatenation.
LEMMA ConcatLength ==
  ASSUME NEW S, NEW a \in Seq(S), NEW b \in Seq(S)
  PROVE  a \o b \in Seq(S) /\ Len(a \o b) = Len(a) + Len(b)
  OBVIOUS

\* What a flush or a close puts into the active file.
LEMMA SpilledFacts ==
  ASSUME TypeOK, Spilled
  PROVE  /\ disk' \in [0..conf.keep -> Seq(Event)] /\ log' \in Seq(Event)
         /\ Len(disk'[0]) = Len(disk[0]) + Len(buffer)
         /\ \A i \in 0..conf.keep : i # 0 => disk'[i] = disk[i]
  <1>1. 0 \in 0..conf.keep /\ disk[0] \in Seq(Event)
    BY FileTypes
  <1>2. disk[0] \o buffer \in Seq(Event) /\ Len(disk[0] \o buffer) = Len(disk[0]) + Len(buffer)
    BY <1>1 DEF TypeOK
  <1>3. log' \in Seq(Event)
    BY DEF TypeOK, Spilled
  <1>4. disk' = [disk EXCEPT ![0] = disk[0] \o buffer] /\ disk \in [0..conf.keep -> Seq(Event)]
    BY DEF TypeOK, Spilled
  <1> QED BY <1>1, <1>2, <1>3, <1>4

\* A step of the rotation moves a file or removes one, and the last one leaves no
\* active file.
LEMMA RotateFacts ==
  ASSUME TypeOK, RotateStep
  PROVE  /\ disk' \in [0..conf.keep -> Seq(Event)]
         /\ \A i \in 0..conf.keep : disk'[i] = <<>> \/ \E j \in 0..conf.keep : disk'[i] = disk[j]
         /\ rot = 0 => disk'[0] = <<>>
         /\ disk'[0] = <<>> \/ disk'[0] = disk[0]
  <1> USE ConfTypes
  <1>1. rot \in 0..conf.keep /\ disk \in [0..conf.keep -> Seq(Event)] /\ 0 \in 0..conf.keep
    BY DEF TypeOK
  <1>2. CASE disk' = [disk EXCEPT ![rot] = <<>>]
    BY <1>1, <1>2
  <1>3. CASE disk' = disk /\ disk[rot] = <<>>
    BY <1>1, <1>3
  <1>4. CASE rot # conf.keep /\ disk' = [disk EXCEPT ![rot] = <<>>, ![rot + 1] = disk[rot]]
    <2>1. rot + 1 \in 0..conf.keep /\ rot + 1 # 0 /\ rot + 1 # rot
      BY <1>1, <1>4
    <2>2. disk[rot] \in Seq(Event)
      BY <1>1
    <2>3. disk' \in [0..conf.keep -> Seq(Event)]
      <3> DEFINE d == [disk EXCEPT ![rot] = <<>>]
      <3>1. d \in [0..conf.keep -> Seq(Event)]
        BY <1>1
      <3>2. disk' = [d EXCEPT ![rot + 1] = disk[rot]]
        BY <1>4
      <3> QED BY <2>1, <2>2, <3>1, <3>2
    <2>4. disk'[rot] = <<>> /\ disk'[rot + 1] = disk[rot]
      BY <1>1, <1>4, <2>1
    <2>5. \A i \in 0..conf.keep : i # rot /\ i # rot + 1 => disk'[i] = disk[i]
      BY <1>1, <1>4, <2>1
    <2> QED BY <1>1, <2>1, <2>3, <2>4, <2>5
  <1> QED BY <1>2, <1>3, <1>4 DEF RotateStep

-----------------------------------------------------------------------------
(* The generator.                                                           *)

\* The perf callbacks fill the queue of the probe in turn with events of that probe.
LEMMA EnqueueType ==
  ASSUME SessionTypeOK, NEW p \in Probes, NEW k \in Nat, NEW max \in Nat, Enqueue(p, k, max)
  PROVE  /\ fired' \in [Probes -> Nat]
         /\ queue' \in [Probes -> Seq(Event)]
         /\ dropped' \subseteq Event
  <1> DEFINE room == IF max > Len(queue[p]) THEN max - Len(queue[p]) ELSE 0
             take == IF k < room THEN k ELSE room
             new  == [i \in 1..take |-> <<p, fired[p] + i>>]
  <1>1. queue[p] \in Seq(Event) /\ fired[p] \in Nat
    BY DEF SessionTypeOK
  <1>2. take \in Nat
    BY <1>1
  <1>3. \A i \in Nat \ {0} : <<p, fired[p] + i>> \in Event
    BY <1>1 DEF Event
  <1>4. new \in Seq(Event)
    BY <1>2, <1>3
  <1>5. queue[p] \o new \in Seq(Event)
    BY <1>1, <1>4, ConcatLength
  <1>6. queue' = [queue EXCEPT ![p] = queue[p] \o new]
    BY DEF Enqueue
  <1>7. queue' \in [Probes -> Seq(Event)]
    BY <1>5, <1>6 DEF SessionTypeOK
  <1>8. dropped' = dropped \cup {<<p, fired[p] + i>> : i \in take + 1 .. k}
    BY DEF Enqueue
  <1>9. dropped' \subseteq Event
    <2> HIDE DEF take
    <2>1. \A i \in take + 1 .. k : i \in Nat \ {0}
      BY <1>2
    <2>2. \A i \in take + 1 .. k : <<p, fired[p] + i>> \in Event
      BY <1>3, <2>1
    <2> QED BY <1>8, <2>2, Zenon DEF SessionTypeOK
  <1>10. fired' \in [Probes -> Nat]
    BY <1>1 DEF Enqueue, SessionTypeOK
  <1> QED BY <1>7, <1>9, <1>10

\* The probe whose turn it is.
LEMMA TurnType == ASSUME SessionTypeOK, turn <= Len(ProbeOrder) PROVE ProbeOrder[turn] \in Probes
  BY ProbeTypes DEF SessionTypeOK

\* Every step of BccProbeSession.iter_events keeps the types of the session, whatever the limit and the
\* length of the queue.
LEMMA SessionTypes ==
  ASSUME SessionTypeOK, NEW limit \in Int, NEW max \in Nat,
         gen \in {"drain", "batch", "yielded"} => turn <= Len(ProbeOrder)
  PROVE  /\ \A S \in SUBSET Probes : Attach(S) => SessionTypeOK'
         /\ SourceGone \/ BeginRound(limit) \/ SkipProbe \/ Drain \/ Yield(limit)
            \/ BatchDone(limit) \/ EndRound(limit) \/ Finish(limit) => SessionTypeOK'
         /\ \A k \in Nat, ok \in BOOLEAN : Poll(limit, max, k, ok) => SessionTypeOK'
  <1> USE ProbeTypes
  <1>1. ASSUME NEW S \in SUBSET Probes, Attach(S) PROVE SessionTypeOK'
    BY <1>1 DEF SessionTypeOK, Attach
  <1>2. ASSUME SourceGone PROVE SessionTypeOK'
    BY <1>2 DEF SessionTypeOK, SourceGone
  <1>3. ASSUME BeginRound(limit) PROVE SessionTypeOK'
    <2>1. turn' \in 1 .. Len(ProbeOrder) + 1
      BY <1>3 DEF BeginRound
    <2> QED BY <1>3, <2>1 DEF SessionTypeOK, BeginRound
  <1>4. ASSUME SkipProbe PROVE SessionTypeOK'
    BY <1>4 DEF SessionTypeOK, SkipProbe
  <1>5. ASSUME Drain PROVE SessionTypeOK'
    <2>1. ProbeOrder[turn] \in Probes
      BY <1>5, TurnType DEF Drain
    <2>2. queue[ProbeOrder[turn]] \in Seq(Event)
      BY <2>1 DEF SessionTypeOK
    <2>3. queue' \in [Probes -> Seq(Event)]
      BY <1>5, <2>1 DEF Drain, SessionTypeOK
    <2> QED BY <1>5, <2>2, <2>3 DEF SessionTypeOK, Drain
  <1>6. ASSUME Yield(limit) PROVE SessionTypeOK'
    <2>1. Tail(batch) \in Seq(Event)
      BY <1>6 DEF Yield, SessionTypeOK
    <2> QED BY <1>6, <2>1 DEF SessionTypeOK, Yield
  <1>7. ASSUME BatchDone(limit) PROVE SessionTypeOK'
    <2>1. turn' \in 1 .. Len(ProbeOrder) + 1
      BY <1>7 DEF SessionTypeOK, BatchDone
    <2> QED BY <1>7, <2>1 DEF SessionTypeOK, BatchDone
  <1>8. ASSUME EndRound(limit) PROVE SessionTypeOK'
    BY <1>8 DEF SessionTypeOK, EndRound
  <1>9. ASSUME Finish(limit) PROVE SessionTypeOK'
    BY <1>9, CleanupType DEF Finish
  <1>10. ASSUME NEW k \in Nat, NEW ok \in BOOLEAN, Poll(limit, max, k, ok) PROVE SessionTypeOK'
    <2>1. ProbeOrder[turn] \in Probes
      BY <1>10, TurnType DEF Poll
    <2>2. fired' \in [Probes -> Nat] /\ queue' \in [Probes -> Seq(Event)] /\ dropped' \subseteq Event
      BY <1>10, <2>1, EnqueueType DEF Poll
    <2>3. polled' \in BOOLEAN
      BY <1>10 DEF Poll, SessionTypeOK
    <2> QED BY <1>10, <2>2, <2>3 DEF SessionTypeOK, Poll
  <1> QED BY <1>1, <1>2, <1>3, <1>4, <1>5, <1>6, <1>7, <1>8, <1>9, <1>10

\* One step of the mock generator.
LEMMA MockType ==
  ASSUME IInv, MockNext
  PROVE  /\ SessionTypeOK'
         /\ pc' \in {"record", "after"} /\ hand' \in Seq(Event) /\ Len(hand') <= 1
         /\ pc' = "record" => Len(hand') = 1
         /\ UNCHANGED <<status, recent>> /\ conf.source = "mock"
  <1>1. SessionTypeOK /\ hand \in Seq(Event) /\ Len(hand) <= 1
    BY DEF IInv, TypeOK
  <1>2. CASE emitted < Len(ProbeOrder)
    <2> DEFINE p == ProbeOrder[emitted + 1]
    <2>1. p \in Probes
      BY <1>1, <1>2, ProbeTypes DEF SessionTypeOK
    <2>2. fired[p] \in Nat /\ <<p, fired[p] + 1>> \in Event
      BY <1>1, <2>1 DEF SessionTypeOK, Event
    <2>3. pc' = "record" /\ hand' = <<<<p, fired[p] + 1>>>>
      BY <1>2 DEF MockNext, Deliver
    <2>4. hand' \in Seq(Event) /\ Len(hand') = 1
      BY <2>2, <2>3
    <2>5. fired' \in [Probes -> Nat]
      BY <1>1, <1>2, <2>1, <2>2 DEF MockNext, SessionTypeOK
    <2>6. SessionTypeOK'
      BY <1>1, <1>2, <2>5 DEF MockNext, SessionTypeOK
    <2> QED BY <2>3, <2>4, <2>6 DEF MockNext
  <1>3. CASE ~(emitted < Len(ProbeOrder))
    BY <1>1, <1>3 DEF MockNext, SessionTypeOK
  <1> QED BY <1>2, <1>3

\* One step of the Linux generator.
LEMMA LinuxType ==
  ASSUME IInv, pc = "next", LinuxNext
  PROVE  /\ SessionTypeOK'
         /\ pc' \in {"next", "record", "after"} /\ hand' \in Seq(Event) /\ Len(hand') <= 1
         /\ pc' = "record" => Len(hand') = 1
         /\ status' \in Status /\ recent' \in BOOLEAN /\ conf.source = "linux"
  <1>1. TypeOK /\ SessionTypeOK /\ conf.source = "linux" /\ hand \in Seq(Event) /\ Len(hand) <= 1
        /\ status \in Status /\ recent \in BOOLEAN
    BY DEF IInv, TypeOK, LinuxNext
  <1>2. gen \in {"drain", "batch", "yielded"} => turn <= Len(ProbeOrder)
    BY <1>1 DEF IInv, SourceInv
  <1>3. conf.limit \in Int /\ conf.queue \in Nat
    BY <1>1, ConfTypes
  <1>4. Notify \/ UNCHANGED <<status, recent>> => status' \in Status /\ recent' \in BOOLEAN
    BY <1>1, StatusTypes DEF Notify, Reasons
  <1>5. ASSUME NEW k \in 0..MaxEvents PROVE k \in Nat
    BY EventsAssumption
  <1>6. SessionTypeOK'
    BY <1>1, <1>2, <1>3, <1>5, SessionTypes DEF LinuxNext
  <1>7. status' \in Status /\ recent' \in BOOLEAN
    BY <1>4 DEF LinuxNext, NotifyIf
  <1>8. CASE Yield(conf.limit) /\ Deliver(Head(batch))
    <2>1. Head(batch) \in Event
      BY <1>1, <1>8 DEF Yield, SessionTypeOK
    <2>2. hand' \in Seq(Event) /\ Len(hand') = 1 /\ pc' = "record"
      BY <1>8, <2>1 DEF Deliver
    <2> QED BY <1>1, <1>6, <1>7, <2>2
  <1>9. CASE UNCHANGED hand /\ pc' \in {"next", "after"}
    BY <1>1, <1>6, <1>7, <1>9
  <1> QED BY <1>8, <1>9 DEF LinuxNext

\* What the generator promises the loop about the limit.
LEMMA LinuxSource ==
  ASSUME IInv, pc = "next", LinuxNext, UNCHANGED <<conf, count>>
  PROVE  SourceInv'
  <1> USE DEF Reached
  <1>1. /\ conf.source = "linux" /\ emitted = count.written /\ emitted \in Nat /\ count.written \in Nat
        /\ conf.limit \in Int
        /\ gen \in {"drain", "batch", "yielded"} => turn <= Len(ProbeOrder)
        /\ gen \in {"drain", "batch"} => ~Reached(conf.limit, emitted)
        /\ conf.limit >= 0 => emitted <= conf.limit
    BY ConfTypes DEF IInv, TypeOK, SessionTypeOK, Count, SourceInv, LinuxNext
  <1>2. ASSUME NEW S \in SUBSET Probes, Attach(S), UNCHANGED pc PROVE SourceInv'
    BY <1>1, <1>2 DEF Attach, SourceInv
  <1>3. ASSUME SourceGone, pc' = "after" PROVE SourceInv'
    BY <1>1, <1>3 DEF SourceGone, SourceInv
  <1>4. ASSUME BeginRound(conf.limit), UNCHANGED pc PROVE SourceInv'
    BY <1>1, <1>4 DEF BeginRound, SourceInv
  <1>5. ASSUME SkipProbe, UNCHANGED pc PROVE SourceInv'
    BY <1>1, <1>5 DEF SkipProbe, SourceInv
  <1>6. ASSUME NEW k \in 0..MaxEvents, NEW ok \in BOOLEAN, Poll(conf.limit, conf.queue, k, ok), UNCHANGED pc
        PROVE  SourceInv'
    BY <1>1, <1>6 DEF Poll, SourceInv
  <1>7. ASSUME Drain, UNCHANGED pc PROVE SourceInv'
    BY <1>1, <1>7 DEF Drain, SourceInv
  <1>8. ASSUME Yield(conf.limit), pc' = "record" PROVE SourceInv'
    BY <1>1, <1>8 DEF Yield, SourceInv
  <1>9. ASSUME BatchDone(conf.limit), UNCHANGED pc PROVE SourceInv'
    BY <1>1, <1>9 DEF BatchDone, SourceInv
  <1>10. ASSUME EndRound(conf.limit), UNCHANGED pc PROVE SourceInv'
    BY <1>1, <1>10 DEF EndRound, SourceInv
  <1>11. ASSUME Finish(conf.limit), pc' = "after" PROVE SourceInv'
    BY <1>1, <1>11 DEF Finish, Cleanup, SourceInv
  <1> QED BY <1>2, <1>3, <1>4, <1>5, <1>6, <1>7, <1>8, <1>9, <1>10, <1>11 DEF LinuxNext, Deliver

\* A step of the generator, mock or Linux, inside next().
LEMMA GenerateStep == ASSUME IInv, Generate PROVE IInv'
<1> USE DEF IInv
<1>1. /\ pc = "next" /\ buffer = <<>>
      /\ UNCHANGED <<reason, rot, tries, shed, buffer, count, failed, hpc, hstop, hsnap,
                     disk, ingested, log, base, outcome, starts, conf>>
  BY DEF Generate, KeepLoop, BufferInv, Trying, beatVars, fileVars, pastVars
<1>2. /\ SessionTypeOK' /\ pc' \in {"next", "record", "after"} /\ hand' \in Seq(Event) /\ Len(hand') <= 1
      /\ pc' = "record" => Len(hand') = 1
      /\ status' \in Status /\ recent' \in BOOLEAN
  BY <1>1, MockType, LinuxType DEF Generate, TypeOK
<1>3. outcome \notin {"returned", "failed"}
  BY <1>1 DEF BeatInv
<1>4. TypeOK'
  BY <1>1, <1>2 DEF TypeOK
<1>5. IdleInv'
  BY <1>1, <1>2 DEF IdleInv
<1>6. SourceInv'
  <2>1. CASE MockNext
    BY <1>1, <2>1 DEF MockNext, SourceInv
  <2>2. CASE LinuxNext
    BY <1>1, <2>2, LinuxSource
  <2> QED BY <2>1, <2>2 DEF Generate
<1>7. BeatInv' /\ ReportInv' /\ FailureIsSeen'
  BY <1>1, <1>2, <1>3 DEF BeatInv, ReportInv, FailureIsSeen
<1>8. BufferInv' /\ FilesBounded'
  BY <1>1, <1>2 DEF BufferInv, FilesBounded, Trying
<1> QED BY <1>4, <1>5, <1>6, <1>7, <1>8

-----------------------------------------------------------------------------
(* One lemma per action.                                                    *)

\* The heartbeat thread takes its snapshot: the final status is not written before the thread is joined.
LEMMA HeartbeatSnapshotStep == ASSUME IInv, HeartbeatSnapshot PROVE IInv'
<1> USE DEF IInv
<1>1. TypeOK'
  <2>1. SessionTypeOK'
    BY DEF HeartbeatSnapshot, sessionVars, loopVars, fileVars, pastVars, SessionTypeOK, TypeOK
  <2>2. hsnap' \in Status
    BY StatusTypes DEF HeartbeatSnapshot, Reasons
  <2> QED BY <2>1, <2>2 DEF HeartbeatSnapshot, TypeOK, sessionVars, loopVars, fileVars, pastVars
<1>2. IdleInv' /\ SourceInv'
  BY ConfTypes DEF HeartbeatSnapshot, sessionVars, loopVars, pastVars, IdleInv, SourceInv, NoCount,
      Reached
<1>3. BeatInv' /\ ReportInv' /\ FailureIsSeen'
  BY DEF HeartbeatSnapshot, Snapshot, sessionVars, loopVars, pastVars, BeatInv, ReportInv,
      Reported, SourceInv, IdleInv, FailureIsSeen, Healthy
<1>4. BufferInv' /\ FilesBounded'
  BY ConfTypes, FileTypes DEF HeartbeatSnapshot, loopVars, fileVars, pastVars, BufferInv,
      FilesBounded, Trying, IdleInv
<1> QED BY <1>1, <1>2, <1>3, <1>4

\* The heartbeat thread replaces the status file, which no run that has reported can see.
LEMMA HeartbeatWriteStep == ASSUME IInv, HeartbeatWrite PROVE IInv'
<1> USE DEF IInv
<1>1. TypeOK'
  <2>1. SessionTypeOK'
    BY DEF HeartbeatWrite, sessionVars, loopVars, fileVars, pastVars, SessionTypeOK, TypeOK
  <2>2. hsnap' \in Status /\ status' \in Status
    BY StatusTypes DEF HeartbeatWrite, TypeOK
  <2> QED BY <2>1, <2>2 DEF HeartbeatWrite, TypeOK, sessionVars, loopVars, fileVars, pastVars
<1>2. IdleInv' /\ SourceInv'
  BY ConfTypes DEF HeartbeatWrite, sessionVars, loopVars, pastVars, IdleInv, SourceInv, NoCount,
      Reached
<1>3. BeatInv' /\ ReportInv' /\ FailureIsSeen'
  BY DEF HeartbeatWrite, sessionVars, loopVars, pastVars, BeatInv, ReportInv, Reported, SourceInv,
      IdleInv, FailureIsSeen, Healthy
<1>4. BufferInv' /\ FilesBounded'
  BY ConfTypes, FileTypes DEF HeartbeatWrite, loopVars, fileVars, pastVars, BufferInv,
      FilesBounded, Trying, IdleInv
<1> QED BY <1>1, <1>2, <1>3, <1>4

\* The heartbeat thread ends.
LEMMA HeartbeatEndStep == ASSUME IInv, HeartbeatEnd PROVE IInv'
<1> USE DEF IInv
<1>1. TypeOK'
  <2>1. SessionTypeOK'
    BY DEF HeartbeatEnd, sessionVars, loopVars, fileVars, pastVars, SessionTypeOK, TypeOK
  <2> QED BY <2>1 DEF HeartbeatEnd, TypeOK, sessionVars, loopVars, fileVars, pastVars
<1>2. IdleInv' /\ SourceInv'
  BY ConfTypes DEF HeartbeatEnd, sessionVars, loopVars, pastVars, IdleInv, SourceInv, NoCount,
      Reached
<1>3. BeatInv' /\ ReportInv' /\ FailureIsSeen'
  BY DEF HeartbeatEnd, sessionVars, loopVars, pastVars, BeatInv, ReportInv, Reported, SourceInv,
      IdleInv, FailureIsSeen, Healthy
<1>4. BufferInv' /\ FilesBounded'
  BY ConfTypes, FileTypes DEF HeartbeatEnd, loopVars, fileVars, pastVars, BufferInv, FilesBounded,
      Trying, IdleInv
<1> QED BY <1>1, <1>2, <1>3, <1>4

\* The interval passes.
LEMMA TickStep == ASSUME IInv, Tick PROVE IInv'
<1> USE DEF IInv
<1>1. TypeOK'
  <2>1. SessionTypeOK'
    BY DEF Tick, sessionVars, loopVars, beatVars, fileVars, pastVars, SessionTypeOK, TypeOK
  <2> QED BY <2>1 DEF Tick, TypeOK, sessionVars, loopVars, beatVars, fileVars, pastVars
<1>2. IdleInv' /\ SourceInv'
  BY ConfTypes DEF Tick, sessionVars, loopVars, beatVars, pastVars, IdleInv, SourceInv, NoCount,
      Reached
<1>3. BeatInv' /\ ReportInv' /\ FailureIsSeen'
  BY DEF Tick, sessionVars, loopVars, beatVars, pastVars, BeatInv, ReportInv, Reported, SourceInv,
      IdleInv, FailureIsSeen, Healthy
<1>4. BufferInv' /\ FilesBounded'
  BY ConfTypes, FileTypes DEF Tick, loopVars, fileVars, pastVars, BufferInv, FilesBounded, Trying,
      IdleInv
<1> QED BY <1>1, <1>2, <1>3, <1>4

\* A start that fails leaves an unhealthy status.
LEMMA BuildFailsStep == ASSUME IInv, BuildFails PROVE IInv'
<1> USE DEF IInv
<1>1. TypeOK'
  <2>1. SessionTypeOK'
    BY DEF BuildFails, sessionVars, beatVars, fileVars, SessionTypeOK, TypeOK
  <2>2. reason' \in Reasons /\ status' \in Status
    <3>1. PICK available \in BOOLEAN :
             /\ status' = [reason |-> IF available THEN "error" ELSE "collector_unavailable",
                           count |-> NoCount, error |-> TRUE, available |-> available]
             /\ reason' = status'.reason
      BY DEF BuildFails
    <3> QED BY <3>1, CountTypes DEF Status, Reasons
  <2> QED BY <2>1, <2>2 DEF BuildFails, TypeOK, sessionVars, beatVars, fileVars
<1>2. IdleInv' /\ SourceInv'
  BY ConfTypes DEF BuildFails, sessionVars, beatVars, IdleInv, SourceInv, NoCount, Reached
<1>3. BeatInv' /\ ReportInv' /\ FailureIsSeen'
  BY DEF BuildFails, sessionVars, beatVars, BeatInv, ReportInv, Reported, SourceInv, IdleInv,
      FailureIsSeen, Healthy
<1>4. BufferInv' /\ FilesBounded'
  BY ConfTypes, FileTypes DEF BuildFails, fileVars, BufferInv, FilesBounded, Trying, IdleInv
<1> QED BY <1>1, <1>2, <1>3, <1>4

\* The first status and the heartbeat thread.
LEMMA StartStep == ASSUME IInv, Start PROVE IInv'
<1> USE DEF IInv
<1>1. TypeOK'
  <2>1. SessionTypeOK'
    BY DEF Start, sessionVars, loopVars, fileVars, pastVars, SessionTypeOK, TypeOK
  <2>2. status' \in Status /\ recent' \in BOOLEAN
    BY StatusTypes DEF Start, Reasons
  <2> QED BY <2>1, <2>2 DEF Start, TypeOK, sessionVars, loopVars, fileVars, pastVars
<1>2. IdleInv' /\ SourceInv'
  BY ConfTypes DEF Start, sessionVars, loopVars, pastVars, IdleInv, SourceInv, NoCount, Reached
<1>3. BeatInv' /\ ReportInv' /\ FailureIsSeen'
  BY DEF Start, WriteStatus, Throttled, LockFree, Snapshot, sessionVars, loopVars, pastVars,
      BeatInv, ReportInv, Reported, SourceInv, IdleInv, FailureIsSeen, Healthy
<1>4. BufferInv' /\ FilesBounded'
  BY ConfTypes, FileTypes DEF Start, loopVars, fileVars, pastVars, BufferInv, FilesBounded, Trying,
      IdleInv
<1> QED BY <1>1, <1>2, <1>3, <1>4

\* The output file is opened.
LEMMA OpenOutputStep == ASSUME IInv, OpenOutput PROVE IInv'
<1> USE DEF IInv
<1>1. TypeOK'
  <2>1. SessionTypeOK'
    BY DEF OpenOutput, sessionVars, loopVars, beatVars, fileVars, pastVars, SessionTypeOK, TypeOK
  <2> QED BY <2>1 DEF OpenOutput, TypeOK, sessionVars, loopVars, beatVars, fileVars, pastVars
<1>2. IdleInv' /\ SourceInv'
  BY ConfTypes DEF OpenOutput, sessionVars, loopVars, beatVars, pastVars, IdleInv, SourceInv,
      NoCount, Reached
<1>3. BeatInv' /\ ReportInv' /\ FailureIsSeen'
  BY DEF OpenOutput, sessionVars, loopVars, beatVars, pastVars, BeatInv, ReportInv, Reported,
      SourceInv, IdleInv, FailureIsSeen, Healthy
<1>4. BufferInv' /\ FilesBounded'
  BY ConfTypes, FileTypes DEF OpenOutput, loopVars, fileVars, pastVars, BufferInv, FilesBounded,
      Trying, IdleInv
<1> QED BY <1>1, <1>2, <1>3, <1>4

\* The generator raises inside next().
LEMMA GeneratorFailsStep == ASSUME IInv, GeneratorFails PROVE IInv'
<1> USE DEF IInv
<1>1. TypeOK'
  <2>1. SessionTypeOK'
    <3>1. CASE AttachFails \/ Cleanup
      BY <3>1, CleanupType DEF AttachFails, TypeOK
    <3>2. CASE \E S \in SUBSET Probes : AttachUnseen(S)
      BY <3>2 DEF AttachUnseen, TypeOK, SessionTypeOK
    <3> QED BY <3>1, <3>2 DEF GeneratorFails
  <2>2. status' \in Status /\ recent' \in BOOLEAN
    BY StatusTypes DEF GeneratorFails, Notify, Reasons, TypeOK
  <2>3. reason' \in Reasons
    BY DEF GeneratorFails, Reasons
  <2>4. hand' \in Seq(Event) /\ Len(hand') <= 1
    BY DEF GeneratorFails
  <2> QED BY <2>1, <2>2, <2>3, <2>4 DEF GeneratorFails, TypeOK, beatVars, fileVars, pastVars
<1>2. IdleInv' /\ SourceInv'
  BY ConfTypes DEF GeneratorFails, AttachFails, AttachUnseen, Cleanup, beatVars, pastVars, IdleInv, SourceInv,
      NoCount, Reached
<1>3. BeatInv' /\ ReportInv' /\ FailureIsSeen'
  BY DEF GeneratorFails, Notify, WriteStatus, Throttled, LockFree, Snapshot, beatVars, pastVars,
      BeatInv, ReportInv, Reported, SourceInv, IdleInv, FailureIsSeen, Healthy
<1>4. BufferInv' /\ FilesBounded'
  BY ConfTypes, FileTypes DEF GeneratorFails, fileVars, pastVars, BufferInv, FilesBounded, Trying,
      IdleInv
<1> QED BY <1>1, <1>2, <1>3, <1>4

\* The head of the loop body: a file that is written to has room for the line.
LEMMA TakeRecordStep == ASSUME IInv, TakeRecord PROVE IInv'
<1> USE DEF IInv
<1>1. TypeOK'
  <2>1. SessionTypeOK'
    BY DEF TakeRecord, sessionVars, beatVars, fileVars, pastVars, SessionTypeOK, TypeOK
  <2>2. rot' \in 0..conf.keep /\ tries' \in 0..conf.retries /\ shed' \in Nat
    BY ConfTypes DEF TakeRecord, TypeOK
  <2>3. hand' \in Seq(Event) /\ Len(hand') <= 1
    <3>1. CASE hand' = hand
      BY <3>1 DEF TypeOK
    <3>2. CASE hand' = <<>>
      BY <3>2
    <3> QED BY <3>1, <3>2 DEF TakeRecord
  <2>4. UNCHANGED <<conf, log, disk>>
    BY DEF TakeRecord, pastVars, fileVars
  <2> QED BY <2>1, <2>2, <2>3, <2>4 DEF TakeRecord, TypeOK, sessionVars, beatVars, fileVars,
      pastVars
<1>2. IdleInv'
  BY ConfTypes DEF TakeRecord, Reached, sessionVars, beatVars, pastVars, IdleInv, NoCount
<1>3. SourceInv'
  <2>1. UNCHANGED <<gen, turn, emitted, conf, reason, count>> /\ pc = "record"
    BY DEF TakeRecord, sessionVars, pastVars
  <2>2. count.written \in Nat /\ emitted \in Nat /\ conf.limit \in Int
    BY ConfTypes DEF TypeOK, SessionTypeOK, Count
  <2>3. conf.source = "linux" => emitted = count.written + 1 /\ (conf.limit >= 0 => emitted <= conf.limit)
    BY <2>1 DEF SourceInv
  <2>4. conf.source = "linux" => ~Reached(conf.limit, count.written)
    BY <2>2, <2>3 DEF Reached
  <2>5. conf.source = "linux" => pc' \in {"rotate", "write"}
    BY <2>4 DEF TakeRecord
  <2> QED BY <2>1, <2>3, <2>5 DEF SourceInv
<1>4. BeatInv' /\ FailureIsSeen'
  BY DEF TakeRecord, ShouldRotate, Reached, sessionVars, beatVars, fileVars, pastVars, BeatInv,
      ReportInv, IdleInv, FailureIsSeen, Healthy
<1>5. ReportInv'
  BY DEF TakeRecord, sessionVars, beatVars, pastVars, ReportInv, Reported, BeatInv, SourceInv,
      IdleInv
<1>6. BufferInv' /\ FilesBounded'
  BY ConfTypes, FileTypes DEF TakeRecord, ShouldRotate, fileVars, pastVars, BufferInv,
      FilesBounded, Trying, IdleInv
<1> QED BY <1>1, <1>2, <1>3, <1>4, <1>5, <1>6

\* One file operation of the rotation.
LEMMA RotateStepStep == ASSUME IInv, RotateStep PROVE IInv'
<1> USE DEF IInv
<1>1. TypeOK'
  <2>1. SessionTypeOK'
    BY DEF RotateStep, sessionVars, beatVars, pastVars, SessionTypeOK, TypeOK
  <2>2. rot' \in 0..conf.keep
    BY ConfTypes DEF RotateStep, TypeOK
  <2>3. disk' \in [0..conf.keep -> Seq(Event)]
    BY RotateFacts
  <2>4. count' \in Count
    BY CountTypes DEF RotateStep, TypeOK
  <2>5. reason' \in Reasons /\ failed' \in BOOLEAN
    BY DEF RotateStep, TypeOK, Reasons
  <2>6. pc' \in {"rotate", "write", "closing"}
    BY DEF RotateStep
  <2> QED BY <2>1, <2>2, <2>3, <2>4, <2>5, <2>6 DEF RotateStep, TypeOK, sessionVars, beatVars, pastVars
<1>2. IdleInv'
  BY ConfTypes DEF RotateStep, sessionVars, beatVars, pastVars, IdleInv, NoCount
<1>3. SourceInv'
  <2>1. count.written \in Nat /\ count'.written = count.written
    BY DEF RotateStep, TypeOK, Count
  <2>2. /\ UNCHANGED <<gen, turn, emitted, conf>> /\ pc = "rotate"
        /\ \/ pc' \in {"rotate", "write"} /\ reason' = reason
           \/ pc' = "closing" /\ reason' = "error"
    BY DEF RotateStep, sessionVars, pastVars
  <2> QED BY <2>1, <2>2 DEF SourceInv
<1>4. BeatInv' /\ FailureIsSeen'
  BY DEF RotateStep, sessionVars, beatVars, pastVars, BeatInv, ReportInv, IdleInv, FailureIsSeen,
      Healthy
<1>5. ReportInv'
  BY DEF RotateStep, sessionVars, beatVars, pastVars, ReportInv, Reported, BeatInv, SourceInv,
      IdleInv
<1>6. BufferInv' /\ FilesBounded'
  <2>1. /\ pc = "rotate" /\ pc' \in {"rotate", "write", "closing"} /\ (pc' = "write" => rot = 0)
        /\ UNCHANGED <<buffer, tries, conf>>
    BY DEF RotateStep, pastVars
  <2>2. buffer = <<>> /\ tries = 0
    BY <2>1 DEF BufferInv, Trying
  <2>3. Len(disk'[0]) = 0 \/ disk'[0] = disk[0]
    BY RotateFacts
  <2>4. pc' = "write" => Len(disk'[0]) = 0
    BY <2>1, RotateFacts
  <2>5. BufferInv'
    BY <2>1, <2>2, <2>3, <2>4, ConfTypes, FileTypes DEF BufferInv, Trying
  <2>6. conf.rotate > 0 => \A i \in 0..conf.keep : Len(disk'[i]) <= conf.rotate + conf.retries
    BY RotateFacts, ConfTypes DEF FilesBounded
  <2> QED BY <2>1, <2>5, <2>6 DEF FilesBounded
<1> QED BY <1>1, <1>2, <1>3, <1>4, <1>5, <1>6

\* The line joins what failed flushes have left in the buffer.
LEMMA WriteLineStep == ASSUME IInv, WriteLine PROVE IInv'
<1> USE DEF IInv
<1>1. TypeOK'
  <2>1. SessionTypeOK'
    BY DEF WriteLine, sessionVars, beatVars, fileVars, pastVars, SessionTypeOK, TypeOK
  <2> QED BY <2>1 DEF WriteLine, TypeOK, sessionVars, beatVars, fileVars, pastVars
<1>2. IdleInv' /\ SourceInv'
  BY ConfTypes DEF WriteLine, sessionVars, beatVars, pastVars, IdleInv, SourceInv, NoCount, Reached
<1>3. BeatInv' /\ ReportInv' /\ FailureIsSeen'
  BY DEF WriteLine, sessionVars, beatVars, pastVars, BeatInv, ReportInv, Reported, SourceInv,
      IdleInv, FailureIsSeen, Healthy
<1>4. BufferInv' /\ FilesBounded'
  <2>1. hand \in Seq(Event) /\ buffer \in Seq(Event) /\ Len(hand) = 1 /\ Len(buffer) = tries /\ pc = "write"
    BY DEF BufferInv, IdleInv, TypeOK, WriteLine
  <2>2. Len(buffer \o hand) = tries + 1
    BY <2>1, ConcatLength
  <2>3. pc' = "flush" /\ Len(buffer') = tries + 1 /\ UNCHANGED <<disk, conf, tries>>
    BY <2>2 DEF WriteLine, fileVars, pastVars
  <2> QED BY <2>1, <2>3, ConfTypes, FileTypes DEF BufferInv, FilesBounded, Trying
<1> QED BY <1>1, <1>2, <1>3, <1>4

\* The buffer gets to the active file.
LEMMA FlushStep == ASSUME IInv, Flush PROVE IInv'
<1> USE DEF IInv
<1>1. TypeOK'
  <2>1. SessionTypeOK'
    BY DEF Flush, sessionVars, beatVars, pastVars, SessionTypeOK, TypeOK
  <2>2. disk' \in [0..conf.keep -> Seq(Event)] /\ log' \in Seq(Event) /\ buffer' \in Seq(Event)
    BY SpilledFacts DEF Flush, Spill
  <2> QED BY <2>1, <2>2 DEF Flush, TypeOK, sessionVars, beatVars, pastVars
<1>2. IdleInv' /\ SourceInv'
  BY ConfTypes DEF Flush, Spill, sessionVars, beatVars, pastVars, IdleInv, SourceInv, NoCount,
      Reached
<1>3. BeatInv' /\ ReportInv' /\ FailureIsSeen'
  BY DEF Flush, sessionVars, beatVars, pastVars, BeatInv, ReportInv, Reported, SourceInv, IdleInv,
      FailureIsSeen, Healthy
<1>4. BufferInv' /\ FilesBounded'
  <2>1. UNCHANGED conf /\ pc' = "retain" /\ buffer' = <<>> /\ Spilled
    BY DEF Flush, Spill, pastVars
  <2>2. conf.rotate > 0 => Len(disk'[0]) <= conf.rotate + conf.retries
    BY <2>1, SpilledFacts DEF BufferInv
  <2>3. BufferInv'
    BY <2>1, <2>2, ConfTypes, FileTypes DEF BufferInv, Trying
  <2>4. FilesBounded'
    BY <2>1, <2>2, SpilledFacts DEF FilesBounded
  <2> QED BY <2>3, <2>4
<1> QED BY <1>1, <1>2, <1>3, <1>4

\* A retry adds one copy of the line to the buffer.
LEMMA RetryWriteStep == ASSUME IInv, RetryWrite PROVE IInv'
<1> USE DEF IInv
<1>1. TypeOK'
  <2>1. SessionTypeOK'
    BY DEF RetryWrite, sessionVars, beatVars, fileVars, pastVars, SessionTypeOK, TypeOK
  <2>2. count' \in Count
    BY CountTypes DEF RetryWrite, TypeOK
  <2>3. tries' \in 0..conf.retries
    BY ConfTypes DEF RetryWrite, RetryLeft, TypeOK
  <2> QED BY <2>1, <2>2, <2>3 DEF RetryWrite, TypeOK, sessionVars, beatVars, fileVars, pastVars
<1>2. IdleInv' /\ SourceInv'
  BY ConfTypes DEF RetryWrite, sessionVars, beatVars, pastVars, IdleInv, SourceInv, NoCount,
      Reached
<1>3. BeatInv' /\ ReportInv' /\ FailureIsSeen'
  BY DEF RetryWrite, sessionVars, beatVars, pastVars, BeatInv, ReportInv, Reported, SourceInv,
      IdleInv, FailureIsSeen, Healthy
<1>4. BufferInv' /\ FilesBounded'
  BY ConfTypes, FileTypes DEF RetryWrite, RetryLeft, fileVars, pastVars, BufferInv, FilesBounded,
      Trying, IdleInv
<1> QED BY <1>1, <1>2, <1>3, <1>4

\* A rotated file is removed.
LEMMA TrimOldestStep == ASSUME IInv, TrimOldest PROVE IInv'
<1> USE DEF IInv
<1>1. TypeOK'
  <2>1. SessionTypeOK'
    BY DEF TrimOldest, sessionVars, beatVars, pastVars, SessionTypeOK, TypeOK
  <2> QED BY <2>1 DEF TrimOldest, Rotated, TypeOK, sessionVars, beatVars, pastVars
<1>2. IdleInv' /\ SourceInv'
  BY ConfTypes DEF TrimOldest, Rotated, sessionVars, beatVars, pastVars, IdleInv, SourceInv,
      NoCount, Reached
<1>3. BeatInv' /\ ReportInv' /\ FailureIsSeen'
  BY DEF TrimOldest, Rotated, sessionVars, beatVars, pastVars, BeatInv, ReportInv, Reported,
      SourceInv, IdleInv, FailureIsSeen, Healthy
<1>4. BufferInv' /\ FilesBounded'
  BY ConfTypes, FileTypes DEF TrimOldest, Rotated, pastVars, BufferInv, FilesBounded, Trying,
      IdleInv
<1> QED BY <1>1, <1>2, <1>3, <1>4

\* The record counts as written.
LEMMA CountWrittenStep == ASSUME IInv, CountWritten PROVE IInv'
<1> USE DEF IInv
<1>1. TypeOK'
  <2>1. SessionTypeOK'
    BY DEF CountWritten, sessionVars, beatVars, fileVars, pastVars, SessionTypeOK, TypeOK
  <2>2. count' \in Count
    BY CountTypes DEF CountWritten, TypeOK
  <2> QED BY <2>1, <2>2 DEF CountWritten, TypeOK, sessionVars, beatVars, fileVars, pastVars
<1>2. IdleInv' /\ SourceInv'
  BY ConfTypes DEF CountWritten, sessionVars, beatVars, pastVars, IdleInv, SourceInv, NoCount,
      Reached
<1>3. BeatInv' /\ ReportInv' /\ FailureIsSeen'
  BY DEF CountWritten, sessionVars, beatVars, pastVars, BeatInv, ReportInv, Reported, SourceInv,
      IdleInv, FailureIsSeen, Healthy
<1>4. BufferInv' /\ FilesBounded'
  BY ConfTypes, FileTypes DEF CountWritten, fileVars, pastVars, BufferInv, FilesBounded, Trying,
      IdleInv
<1> QED BY <1>1, <1>2, <1>3, <1>4

\* The record counts as read.
LEMMA CountReadStep == ASSUME IInv, CountRead PROVE IInv'
<1> USE DEF IInv
<1>1. TypeOK'
  <2>1. SessionTypeOK'
    BY DEF CountRead, sessionVars, beatVars, fileVars, pastVars, SessionTypeOK, TypeOK
  <2>2. count' \in Count
    BY CountTypes DEF CountRead, TypeOK
  <2> QED BY <2>1, <2>2 DEF CountRead, TypeOK, sessionVars, beatVars, fileVars, pastVars
<1>2. IdleInv' /\ SourceInv'
  BY ConfTypes DEF CountRead, sessionVars, beatVars, pastVars, IdleInv, SourceInv, NoCount, Reached
<1>3. BeatInv' /\ ReportInv' /\ FailureIsSeen'
  BY DEF CountRead, sessionVars, beatVars, pastVars, BeatInv, ReportInv, Reported, SourceInv,
      IdleInv, FailureIsSeen, Healthy
<1>4. BufferInv' /\ FilesBounded'
  BY ConfTypes, FileTypes DEF CountRead, fileVars, pastVars, BufferInv, FilesBounded, Trying,
      IdleInv
<1> QED BY <1>1, <1>2, <1>3, <1>4

\* The record is stored.
LEMMA PersistStep == ASSUME IInv, Persist PROVE IInv'
<1> USE DEF IInv
<1>1. TypeOK'
  <2>1. SessionTypeOK'
    BY DEF Persist, sessionVars, loopVars, beatVars, pastVars, SessionTypeOK, TypeOK
  <2>2. ingested' \subseteq Event
    <3>1. hand \in Seq(Event) /\ Len(hand) = 1
      BY DEF Persist, TypeOK, IdleInv
    <3>2. hand[1] \in Event
      BY <3>1
    <3> QED BY <3>2 DEF Persist, TypeOK
  <2> QED BY <2>1, <2>2 DEF Persist, TypeOK, sessionVars, loopVars, beatVars, pastVars
<1>2. IdleInv' /\ SourceInv'
  BY ConfTypes DEF Persist, sessionVars, loopVars, beatVars, pastVars, IdleInv, SourceInv, NoCount,
      Reached
<1>3. BeatInv' /\ ReportInv' /\ FailureIsSeen'
  BY DEF Persist, sessionVars, loopVars, beatVars, pastVars, BeatInv, ReportInv, Reported,
      SourceInv, IdleInv, FailureIsSeen, Healthy
<1>4. BufferInv' /\ FilesBounded'
  BY ConfTypes, FileTypes DEF Persist, loopVars, pastVars, BufferInv, FilesBounded, Trying, IdleInv
<1> QED BY <1>1, <1>2, <1>3, <1>4

\* The record counts as an event.
LEMMA CountEventStep == ASSUME IInv, CountEvent PROVE IInv'
<1> USE DEF IInv
<1>1. TypeOK'
  <2>1. SessionTypeOK'
    BY DEF CountEvent, sessionVars, beatVars, fileVars, pastVars, SessionTypeOK, TypeOK
  <2>2. count' \in Count
    BY CountTypes DEF CountEvent, TypeOK
  <2> QED BY <2>1, <2>2 DEF CountEvent, TypeOK, sessionVars, beatVars, fileVars, pastVars
<1>2. IdleInv' /\ SourceInv'
  BY ConfTypes DEF CountEvent, sessionVars, beatVars, pastVars, IdleInv, SourceInv, NoCount,
      Reached
<1>3. BeatInv' /\ ReportInv' /\ FailureIsSeen'
  BY DEF CountEvent, sessionVars, beatVars, pastVars, BeatInv, ReportInv, Reported, SourceInv,
      IdleInv, FailureIsSeen, Healthy
<1>4. BufferInv' /\ FilesBounded'
  BY ConfTypes, FileTypes DEF CountEvent, fileVars, pastVars, BufferInv, FilesBounded, Trying,
      IdleInv
<1> QED BY <1>1, <1>2, <1>3, <1>4

\* The status after a record.
LEMMA PublishRecordStep == ASSUME IInv, PublishRecord PROVE IInv'
<1> USE DEF IInv
<1>1. TypeOK'
  <2>1. SessionTypeOK'
    BY DEF PublishRecord, sessionVars, beatVars, fileVars, pastVars, SessionTypeOK, TypeOK
  <2>2. status' \in Status /\ recent' \in BOOLEAN
    BY StatusTypes DEF PublishRecord, Reasons
  <2>3. hand' \in Seq(Event) /\ Len(hand') <= 1
    BY DEF PublishRecord
  <2> QED BY <2>1, <2>2, <2>3 DEF PublishRecord, TypeOK, sessionVars, beatVars, fileVars, pastVars
<1>2. IdleInv' /\ SourceInv'
  BY ConfTypes DEF PublishRecord, sessionVars, beatVars, pastVars, IdleInv, SourceInv, NoCount,
      Reached
<1>3. BeatInv' /\ ReportInv' /\ FailureIsSeen'
  BY DEF PublishRecord, WriteStatus, Throttled, LockFree, Snapshot, sessionVars, beatVars,
      pastVars, BeatInv, ReportInv, Reported, SourceInv, IdleInv, FailureIsSeen, Healthy
<1>4. BufferInv' /\ FilesBounded'
  BY ConfTypes, FileTypes DEF PublishRecord, fileVars, pastVars, BufferInv, FilesBounded, Trying,
      IdleInv
<1> QED BY <1>1, <1>2, <1>3, <1>4

\* The loop ends, with a Linux generator that has ended.
LEMMA LoopEndsStep == ASSUME IInv, LoopEnds PROVE IInv'
<1> USE DEF IInv
<1>1. TypeOK'
  <2>1. SessionTypeOK'
    BY DEF LoopEnds, sessionVars, beatVars, fileVars, pastVars, SessionTypeOK, TypeOK
  <2>2. reason' \in Reasons
    BY DEF LoopEnds, Reasons
  <2> QED BY <2>1, <2>2 DEF LoopEnds, TypeOK, sessionVars, beatVars, fileVars, pastVars
<1>2. IdleInv' /\ SourceInv'
  BY ConfTypes DEF LoopEnds, Reached, sessionVars, beatVars, pastVars, IdleInv, SourceInv, NoCount
<1>3. BeatInv' /\ ReportInv' /\ FailureIsSeen'
  BY DEF LoopEnds, sessionVars, beatVars, pastVars, BeatInv, ReportInv, Reported, SourceInv,
      IdleInv, FailureIsSeen, Healthy
<1>4. BufferInv' /\ FilesBounded'
  BY ConfTypes, FileTypes DEF LoopEnds, fileVars, pastVars, BufferInv, FilesBounded, Trying,
      IdleInv
<1> QED BY <1>1, <1>2, <1>3, <1>4

\* The loop body raises.
LEMMA BodyFailsStep == ASSUME IInv, BodyFails PROVE IInv'
<1> USE DEF IInv
<1>1. TypeOK'
  <2>1. SessionTypeOK'
    BY DEF BodyFails, sessionVars, beatVars, fileVars, pastVars, SessionTypeOK, TypeOK
  <2>2. reason' \in Reasons
    BY DEF BodyFails, Reasons
  <2> QED BY <2>1, <2>2 DEF BodyFails, TypeOK, sessionVars, beatVars, fileVars, pastVars
<1>2. IdleInv' /\ SourceInv'
  BY ConfTypes DEF BodyFails, sessionVars, beatVars, pastVars, IdleInv, SourceInv, NoCount, Reached
<1>3. BeatInv' /\ ReportInv' /\ FailureIsSeen'
  BY DEF BodyFails, LockFree, sessionVars, beatVars, pastVars, BeatInv, ReportInv, Reported,
      SourceInv, IdleInv, FailureIsSeen, Healthy
<1>4. BufferInv' /\ FilesBounded'
  BY ConfTypes, FileTypes DEF BodyFails, RetryLeft, fileVars, pastVars, BufferInv, FilesBounded,
      Trying, IdleInv
<1> QED BY <1>1, <1>2, <1>3, <1>4

\* A signal in the try block.
LEMMA SignalStep == ASSUME IInv, Signal PROVE IInv'
<1> USE DEF IInv
<1>1. TypeOK'
  <2>1. SessionTypeOK'
    <3>1. CASE UNCHANGED sessionVars
      BY <3>1 DEF SessionTypeOK, TypeOK, sessionVars
    <3>2. CASE Stop
      BY <3>2 DEF SessionTypeOK, TypeOK, Stop
    <3>3. CASE /\ gen' = "closed" /\ attached' = {} /\ turn' = 1 /\ batch' = <<>>
               /\ queue' = [p \in Probes |-> <<>>] /\ stop' = TRUE
               /\ UNCHANGED <<polled, emitted, fired, dropped>>
      <4>1. queue' \in [Probes -> Seq(Event)] /\ batch' \in Seq(Event)
        BY <3>3
      <4>2. turn' \in 1 .. Len(ProbeOrder) + 1
        BY <3>3, ProbeTypes
      <4> QED BY <3>3, <4>1, <4>2 DEF SessionTypeOK, TypeOK
    <3>4. conf.source \in {"mock", "linux"}
      BY ConfigAssumption DEF TypeOK
    <3> QED BY <3>1, <3>2, <3>3, <3>4 DEF Signal
  <2>2. reason' \in Reasons
    BY DEF Signal, Reasons
  <2>3. status' \in Status /\ recent' \in BOOLEAN
    BY StatusTypes DEF Signal, Notify, Reasons, TypeOK
  <2> QED BY <2>1, <2>2, <2>3 DEF Signal, TypeOK, sessionVars, beatVars, fileVars, pastVars
<1>2. IdleInv' /\ SourceInv'
  BY ConfTypes DEF Signal, Stop, Trying, sessionVars, beatVars, pastVars, IdleInv, SourceInv,
      NoCount, Reached
<1>3. BeatInv' /\ ReportInv' /\ FailureIsSeen'
  BY DEF Signal, Notify, Trying, WriteStatus, Throttled, LockFree, Snapshot, sessionVars, beatVars,
      pastVars, BeatInv, ReportInv, Reported, SourceInv, IdleInv, FailureIsSeen, Healthy
<1>4. BufferInv' /\ FilesBounded'
  BY ConfTypes, FileTypes DEF Signal, Trying, fileVars, pastVars, BufferInv, FilesBounded, IdleInv
<1> QED BY <1>1, <1>2, <1>3, <1>4

\* A signal outside the handlers.
LEMMA InterruptStep == ASSUME IInv, Interrupt PROVE IInv'
<1> USE DEF IInv
<1>1. TypeOK'
  <2>1. SessionTypeOK'
    BY DEF Interrupt, sessionVars, loopVars, beatVars, fileVars, SessionTypeOK, TypeOK
  <2> QED BY <2>1 DEF Interrupt, TypeOK, sessionVars, loopVars, beatVars, fileVars
<1>2. IdleInv' /\ SourceInv'
  BY ConfTypes DEF Interrupt, sessionVars, loopVars, beatVars, IdleInv, SourceInv, NoCount, Reached
<1>3. BeatInv' /\ ReportInv' /\ FailureIsSeen'
  BY DEF Interrupt, sessionVars, loopVars, beatVars, BeatInv, ReportInv, Reported, SourceInv,
      IdleInv, FailureIsSeen, Healthy
<1>4. BufferInv' /\ FilesBounded'
  BY ConfTypes, FileTypes DEF Interrupt, loopVars, fileVars, BufferInv, FilesBounded, Trying,
      IdleInv
<1> QED BY <1>1, <1>2, <1>3, <1>4

\* heartbeat_stop is set.
LEMMA StopHeartbeatStep == ASSUME IInv, StopHeartbeat PROVE IInv'
<1> USE DEF IInv
<1>1. TypeOK'
  <2>1. SessionTypeOK'
    BY DEF StopHeartbeat, sessionVars, loopVars, fileVars, pastVars, SessionTypeOK, TypeOK
  <2> QED BY <2>1 DEF StopHeartbeat, TypeOK, sessionVars, loopVars, fileVars, pastVars
<1>2. IdleInv' /\ SourceInv'
  BY ConfTypes DEF StopHeartbeat, sessionVars, loopVars, pastVars, IdleInv, SourceInv, NoCount,
      Reached
<1>3. BeatInv' /\ ReportInv' /\ FailureIsSeen'
  BY DEF StopHeartbeat, sessionVars, loopVars, pastVars, BeatInv, ReportInv, Reported, SourceInv,
      IdleInv, FailureIsSeen, Healthy
<1>4. BufferInv' /\ FilesBounded'
  BY ConfTypes, FileTypes DEF StopHeartbeat, loopVars, fileVars, pastVars, BufferInv, FilesBounded,
      Trying, IdleInv
<1> QED BY <1>1, <1>2, <1>3, <1>4

\* The heartbeat thread is joined.
LEMMA JoinHeartbeatStep == ASSUME IInv, JoinHeartbeat PROVE IInv'
<1> USE DEF IInv
<1>1. TypeOK'
  <2>1. SessionTypeOK'
    BY DEF JoinHeartbeat, sessionVars, loopVars, beatVars, fileVars, pastVars, SessionTypeOK,
        TypeOK
  <2> QED BY <2>1 DEF JoinHeartbeat, TypeOK, sessionVars, loopVars, beatVars, fileVars, pastVars
<1>2. IdleInv' /\ SourceInv'
  BY ConfTypes DEF JoinHeartbeat, sessionVars, loopVars, beatVars, pastVars, IdleInv, SourceInv,
      NoCount, Reached
<1>3. BeatInv' /\ ReportInv' /\ FailureIsSeen'
  BY DEF JoinHeartbeat, sessionVars, loopVars, beatVars, pastVars, BeatInv, ReportInv, Reported,
      SourceInv, IdleInv, FailureIsSeen, Healthy
<1>4. BufferInv' /\ FilesBounded'
  BY ConfTypes, FileTypes DEF JoinHeartbeat, loopVars, fileVars, pastVars, BufferInv, FilesBounded,
      Trying, IdleInv
<1> QED BY <1>1, <1>2, <1>3, <1>4

\* The close of the output file puts the buffer into it, or fails.
LEMMA CloseOutputStep == ASSUME IInv, CloseOutput PROVE IInv'
<1> USE DEF IInv
<1>1. TypeOK'
  <2>1. SessionTypeOK'
    BY DEF CloseOutput, sessionVars, beatVars, SessionTypeOK, TypeOK
  <2>2. disk' \in [0..conf.keep -> Seq(Event)] /\ log' \in Seq(Event) /\ buffer' \in Seq(Event)
    <3>1. CASE Spill
      BY <3>1, SpilledFacts DEF Spill
    <3>2. CASE buffer' = <<>> /\ UNCHANGED <<disk, log>>
      BY <3>2 DEF TypeOK
    <3> QED BY <3>1, <3>2 DEF CloseOutput
  <2>3. outcome' \in {"none", "returned", "failed", "interrupted", "unreported", "killed"}
    BY DEF CloseOutput, TypeOK
  <2> QED BY <2>1, <2>2, <2>3 DEF CloseOutput, TypeOK, sessionVars, beatVars
<1>2. IdleInv' /\ SourceInv'
  BY ConfTypes DEF CloseOutput, Spill, sessionVars, beatVars, IdleInv, SourceInv, NoCount, Reached
<1>3. BeatInv' /\ ReportInv' /\ FailureIsSeen'
  BY DEF CloseOutput, sessionVars, beatVars, BeatInv, ReportInv, Reported, SourceInv, IdleInv,
      FailureIsSeen, Healthy
<1>4. BufferInv' /\ FilesBounded'
  <2>1. UNCHANGED conf /\ pc' \in {"raised", "final"} /\ buffer' = <<>>
    BY DEF CloseOutput, Spill
  <2>2. CASE Spilled
    <3>1. conf.rotate > 0 => Len(disk'[0]) <= conf.rotate + conf.retries
      BY <2>2, SpilledFacts DEF BufferInv
    <3>2. BufferInv'
      BY <2>1, <3>1, ConfTypes, FileTypes DEF BufferInv, Trying
    <3>3. FilesBounded'
      BY <2>1, <2>2, <3>1, SpilledFacts DEF FilesBounded
    <3> QED BY <3>2, <3>3
  <2>3. CASE UNCHANGED disk
    BY <2>1, <2>3, ConfTypes, FileTypes DEF BufferInv, FilesBounded, Trying
  <2> QED BY <2>2, <2>3 DEF CloseOutput, Spill
<1> QED BY <1>1, <1>2, <1>3, <1>4

\* The final status: the run ends reported, or unreported.
LEMMA FinalStatusStep == ASSUME IInv, FinalStatus PROVE IInv'
<1> USE DEF IInv
<1>1. TypeOK'
  <2>1. SessionTypeOK'
    BY DEF FinalStatus, sessionVars, loopVars, beatVars, fileVars, SessionTypeOK, TypeOK
  <2>2. status' \in Status /\ recent' \in BOOLEAN
    BY StatusTypes DEF FinalStatus, TypeOK
  <2> QED BY <2>1, <2>2 DEF FinalStatus, TypeOK, sessionVars, loopVars, beatVars, fileVars
<1>2. IdleInv'
  BY ConfTypes DEF FinalStatus, sessionVars, loopVars, beatVars, IdleInv, NoCount
<1>3. SourceInv'
  BY ConfTypes DEF FinalStatus, sessionVars, loopVars, beatVars, SourceInv, IdleInv, Reached
<1>4. BeatInv' /\ FailureIsSeen'
  BY DEF FinalStatus, WriteStatus, Throttled, LockFree, Snapshot, sessionVars, loopVars, beatVars,
      fileVars, BeatInv, ReportInv, IdleInv, FailureIsSeen, Healthy
<1>5. ReportInv'
  <2>1. CASE status' = Snapshot(reason)
    BY <2>1 DEF FinalStatus, ReportInv, Reported, Snapshot, loopVars
  <2>2. CASE outcome' = "unreported"
    BY <2>2 DEF FinalStatus, ReportInv, loopVars
  <2> QED BY <2>1, <2>2 DEF FinalStatus, WriteStatus, Throttled, ReportInv
<1>6. BufferInv' /\ FilesBounded'
  BY ConfTypes, FileTypes DEF FinalStatus, loopVars, fileVars, BufferInv, FilesBounded, Trying,
      IdleInv
<1> QED BY <1>1, <1>2, <1>3, <1>4, <1>5, <1>6

\* The suspended generator goes and may publish once more.
LEMMA DropGeneratorStep == ASSUME IInv, DropGenerator PROVE IInv'
<1> USE DEF IInv
<1>1. TypeOK'
  <2>1. SessionTypeOK'
    <3>1. CASE Cleanup
      BY <3>1, CleanupType DEF TypeOK
    <3>2. CASE ~Cleanup
      BY <3>2 DEF DropGenerator, SessionTypeOK, TypeOK
    <3> QED BY <3>1, <3>2
  <2>2. status' \in Status /\ recent' \in BOOLEAN
    BY StatusTypes DEF DropGenerator, Notify, Reasons, TypeOK
  <2> QED BY <2>1, <2>2 DEF DropGenerator, TypeOK, loopVars, beatVars, fileVars, pastVars
<1>2. IdleInv' /\ SourceInv'
  BY ConfTypes DEF DropGenerator, Cleanup, loopVars, beatVars, pastVars, IdleInv, SourceInv,
      NoCount, Reached
<1>3. BeatInv' /\ ReportInv' /\ FailureIsSeen'
  BY DEF DropGenerator, Notify, WriteStatus, Throttled, LockFree, Snapshot, loopVars, beatVars,
      pastVars, BeatInv, ReportInv, Reported, SourceInv, IdleInv, FailureIsSeen, Healthy
<1>4. BufferInv' /\ FilesBounded'
  BY ConfTypes, FileTypes DEF DropGenerator, loopVars, fileVars, pastVars, BufferInv, FilesBounded,
      Trying, IdleInv
<1> QED BY <1>1, <1>2, <1>3, <1>4

\* The interpreter exits.
LEMMA ExitStep == ASSUME IInv, Exit PROVE IInv'
<1> USE DEF IInv
<1>1. TypeOK'
  <2>1. SessionTypeOK'
    BY ResetType DEF Exit, Gone, TypeOK
  <2>2. hsnap' \in Status /\ count' \in Count /\ reason' \in Reasons
    BY StatusTypes, CountTypes DEF Exit, Gone, Reasons
  <2>3. rot' \in 0..conf.keep /\ tries' \in 0..conf.retries
    BY ConfTypes DEF Exit, Gone
  <2>4. hand' \in Seq(Event) /\ Len(hand') <= 1 /\ buffer' \in Seq(Event)
    BY DEF Exit, Gone
  <2>5. disk' \in [0..conf.keep -> Seq(Event)] /\ log' \in Seq(Event)
    BY SpilledFacts DEF Exit, TypeOK
  <2> QED BY <2>1, <2>2, <2>3, <2>4, <2>5 DEF Exit, Gone, TypeOK, pastVars
<1>2. IdleInv' /\ SourceInv'
  BY ConfTypes DEF Exit, Gone, SessionReset, pastVars, IdleInv, SourceInv, NoCount, Reached
<1>3. BeatInv' /\ ReportInv' /\ FailureIsSeen'
  BY DEF Exit, Gone, pastVars, BeatInv, ReportInv, Reported, SourceInv, IdleInv, FailureIsSeen,
      Healthy
<1>4. BufferInv' /\ FilesBounded'
  <2>1. UNCHANGED conf /\ pc' \in {"exited"} /\ buffer' = <<>>
    BY DEF Exit, Gone, pastVars
  <2>2. CASE Spilled
    <3>1. conf.rotate > 0 => Len(disk'[0]) <= conf.rotate + conf.retries
      BY <2>2, SpilledFacts DEF BufferInv
    <3>2. BufferInv'
      BY <2>1, <3>1, ConfTypes, FileTypes DEF BufferInv, Trying
    <3>3. FilesBounded'
      BY <2>1, <2>2, <3>1, SpilledFacts DEF FilesBounded
    <3> QED BY <3>2, <3>3
  <2>3. CASE UNCHANGED disk
    BY <2>1, <2>3, ConfTypes, FileTypes DEF BufferInv, FilesBounded, Trying
  <2> QED BY <2>2, <2>3 DEF Exit
<1> QED BY <1>1, <1>2, <1>3, <1>4

\* The process is killed.
LEMMA KillStep == ASSUME IInv, Kill PROVE IInv'
<1> USE DEF IInv
<1>1. TypeOK'
  <2>1. SessionTypeOK'
    BY ResetType DEF Kill, Gone, TypeOK
  <2>2. hsnap' \in Status /\ count' \in Count /\ reason' \in Reasons
    BY StatusTypes, CountTypes DEF Kill, Gone, Reasons
  <2>3. rot' \in 0..conf.keep /\ tries' \in 0..conf.retries
    BY ConfTypes DEF Kill, Gone
  <2>4. hand' \in Seq(Event) /\ Len(hand') <= 1 /\ buffer' \in Seq(Event)
    BY DEF Kill, Gone
  <2> QED BY <2>1, <2>2, <2>3, <2>4 DEF Kill, Gone, TypeOK, fileVars
<1>2. IdleInv' /\ SourceInv'
  BY ConfTypes DEF Kill, Gone, SessionReset, IdleInv, SourceInv, NoCount, Reached
<1>3. BeatInv' /\ ReportInv' /\ FailureIsSeen'
  BY DEF Kill, Gone, BeatInv, ReportInv, Reported, SourceInv, IdleInv, FailureIsSeen, Healthy
<1>4. BufferInv' /\ FilesBounded'
  BY ConfTypes, FileTypes DEF Kill, Gone, fileVars, BufferInv, FilesBounded, Trying, IdleInv
<1> QED BY <1>1, <1>2, <1>3, <1>4

\* The agent starts again.
LEMMA RestartStep == ASSUME IInv, Restart PROVE IInv'
<1> USE DEF IInv
<1>1. TypeOK'
  <2>1. SessionTypeOK'
    BY DEF Restart, sessionVars, loopVars, beatVars, fileVars, SessionTypeOK, TypeOK
  <2>2. starts' \in 0..MaxRestarts
    BY RestartAssumption DEF Restart, TypeOK
  <2>3. base' \in [Probes -> Nat]
    BY DEF Restart, TypeOK, SessionTypeOK
  <2> QED BY <2>1, <2>2, <2>3 DEF Restart, TypeOK, sessionVars, loopVars, beatVars, fileVars
<1>2. IdleInv' /\ SourceInv'
  BY ConfTypes DEF Restart, sessionVars, loopVars, beatVars, IdleInv, SourceInv, NoCount, Reached
<1>3. BeatInv' /\ ReportInv' /\ FailureIsSeen'
  BY DEF Restart, sessionVars, loopVars, beatVars, BeatInv, ReportInv, Reported, SourceInv,
      IdleInv, FailureIsSeen, Healthy
<1>4. BufferInv' /\ FilesBounded'
  BY ConfTypes, FileTypes DEF Restart, loopVars, fileVars, BufferInv, FilesBounded, Trying, IdleInv
<1> QED BY <1>1, <1>2, <1>3, <1>4

-----------------------------------------------------------------------------
\* The agent starts with nothing under way and no output.
LEMMA InitInv == Init => IInv
<1> SUFFICES ASSUME Init PROVE IInv
  OBVIOUS
<1>1. conf \in Configs /\ conf.keep \in Nat /\ conf.retries \in Nat /\ conf.limit \in Int
  BY ConfigAssumption DEF Init
<1>2. SessionTypeOK
  <2>1. queue \in [Probes -> Seq(Event)] /\ batch \in Seq(Event)
    BY DEF Init, SessionInit
  <2>2. turn \in 1 .. Len(ProbeOrder) + 1
    BY ProbeTypes DEF Init, SessionInit
  <2> QED BY <2>1, <2>2 DEF Init, SessionInit, SessionTypeOK
<1>3. TypeOK
  <2>1. NoStatus \in Status /\ NoCount \in Count
    BY CountTypes DEF NoStatus, Status, Reasons
  <2>2. disk \in [0..conf.keep -> Seq(Event)]
    BY DEF Init
  <2>3. rot \in 0..conf.keep /\ tries \in 0..conf.retries /\ starts \in 0..MaxRestarts
    BY <1>1, RestartAssumption DEF Init
  <2>4. base \in [Probes -> Nat]
    BY <1>2 DEF Init, SessionTypeOK
  <2>5. hand \in Seq(Event) /\ Len(hand) <= 1 /\ buffer \in Seq(Event) /\ log \in Seq(Event)
    BY DEF Init
  <2> QED BY <1>1, <1>2, <2>1, <2>2, <2>3, <2>4, <2>5 DEF Init, TypeOK, Reasons
<1>4. IdleInv /\ SourceInv
  BY <1>1 DEF Init, SessionInit, IdleInv, SourceInv
<1>5. BeatInv /\ ReportInv /\ FailureIsSeen
  BY DEF Init, BeatInv, ReportInv, FailureIsSeen
<1>6. BufferInv /\ FilesBounded
  BY <1>1, ConfTypes, <1>3 DEF Init, BufferInv, FilesBounded, Trying
<1> QED BY <1>3, <1>4, <1>5, <1>6 DEF IInv

\* IInv speaks about the variables only.
LEMMA StutterInv == ASSUME IInv, UNCHANGED vars PROVE IInv'
<1> USE DEF IInv, vars, agentVars, sessionVars, loopVars, beatVars, fileVars, pastVars
<1>1. SessionTypeOK'
  BY DEF TypeOK, SessionTypeOK
<1>2. TypeOK'
  BY <1>1 DEF TypeOK
<1>3. IdleInv' /\ SourceInv'
  BY DEF IdleInv, SourceInv
<1>4. BeatInv' /\ ReportInv' /\ FailureIsSeen'
  BY DEF BeatInv, ReportInv, Reported, FailureIsSeen, Healthy
<1>5. BufferInv' /\ FilesBounded'
  BY DEF BufferInv, FilesBounded, Trying
<1> QED BY <1>2, <1>3, <1>4, <1>5

\* Every step of the agent preserves IInv.
LEMMA NextInv == IInv /\ [Next]_vars => IInv'
<1> SUFFICES ASSUME IInv, [Next]_vars PROVE IInv'
  OBVIOUS
<1>1. CASE Record
  BY <1>1, TakeRecordStep, RotateStepStep, WriteLineStep, FlushStep, RetryWriteStep,
      TrimOldestStep, CountWrittenStep, CountReadStep, PersistStep, CountEventStep,
      PublishRecordStep DEF Record
<1>2. CASE Ending
  BY <1>2, LoopEndsStep, StopHeartbeatStep, JoinHeartbeatStep, CloseOutputStep, FinalStatusStep DEF
      Ending
<1>3. CASE Heartbeat
  BY <1>3, HeartbeatSnapshotStep, HeartbeatWriteStep, HeartbeatEndStep DEF Heartbeat
<1>4. CASE UNCHANGED vars
  BY <1>4, StutterInv
<1> QED
  BY <1>1, <1>2, <1>3, <1>4, BuildFailsStep, StartStep, OpenOutputStep, GenerateStep,
      GeneratorFailsStep, BodyFailsStep, SignalStep, InterruptStep, DropGeneratorStep, TickStep,
      ExitStep, KillStep, RestartStep DEF Next

\* The inductive invariant holds in every state of the agent.
THEOREM Invariance == Spec => []IInv
  BY InitInv, NextInv, PTL DEF Spec

\* Every variable of the agent keeps its type.
THEOREM TypeCorrect == Spec => []TypeOK
<1>1. IInv => TypeOK
  BY DEF IInv
<1> QED BY <1>1, Invariance, PTL

\* No output file outgrows rotate_bytes by more than retry_count lines, whatever
\* failed flushes, failed rotations, kills and restarts came before.
THEOREM FilesCorrect == Spec => []FilesBounded
<1>1. IInv => FilesBounded
  BY DEF IInv
<1> QED BY <1>1, Invariance, PTL

\* After a run that failed and wrote its status, the status file reads unhealthy,
\* even when the suspended generator has notified once more since.
THEOREM FailureCorrect == Spec => []FailureIsSeen
<1>1. IInv => FailureIsSeen
  BY DEF IInv
<1> QED BY <1>1, Invariance, PTL

\* A final status is not overtaken: until the process exits the status file holds
\* the reason and the counters of the end, unless a Linux generator is left
\* suspended by a signal or an error.
THEOREM FinalCorrect == Spec => []FinalReport
<1>1. IInv => FinalReport
  BY DEF IInv, ReportInv, FinalReport
<1> QED BY <1>1, Invariance, PTL

-----------------------------------------------------------------------------
(* RetainedIsTheTail.                                                       *)

\* A file that the next rename would overwrite is gone.
RotInv == pc = "rotate" /\ rot < conf.keep => disk[rot + 1] = <<>>

\* File i holds lines cut[i + 1] + 1 to cut[i] of the lines w.
Pieces(d, w, keep, cut) ==
  /\ cut \in [0 .. keep + 1 -> 0..Len(w)] /\ cut[0] = Len(w)
  /\ \A i \in 0..keep : /\ cut[i + 1] <= cut[i]
                        /\ Len(d[i]) = cut[i] - cut[i + 1]
                        /\ \A k \in 1..Len(d[i]) : d[i][k] = w[cut[i + 1] + k]

TailInv == RotInv /\ \E cut : Pieces(disk, log, conf.keep, cut)

\* Line by line the pieces are subsequences.
LEMMA PieceIsSubSeq ==
  ASSUME NEW S, NEW w \in Seq(S), NEW d \in Seq(S), NEW a \in Nat, NEW b \in Nat, a <= b, b <= Len(w),
         Len(d) = b - a, \A k \in 1..Len(d) : d[k] = w[a + k]
  PROVE  d = SubSeq(w, a + 1, b)
  OBVIOUS

\* The files are the tail of what was written.
LEMMA TailIsRetained == ASSUME TypeOK, TailInv PROVE RetainedIsTheTail
<1>1. PICK cut : Pieces(disk, log, conf.keep, cut)
  BY DEF TailInv
<1>2. /\ cut \in [0 .. conf.keep + 1 -> 0..Len(log)] /\ cut[0] = Len(log) /\ log \in Seq(Event)
      /\ conf.keep \in Nat /\ Len(log) \in Nat
  <2>1. log \in Seq(Event) /\ conf.keep \in Nat
    BY ConfTypes DEF TypeOK
  <2> QED BY <1>1, <2>1 DEF Pieces
<1>3. ASSUME NEW i \in 0..conf.keep
      PROVE  cut[i + 1] <= cut[i] /\ disk[i] = SubSeq(log, cut[i + 1] + 1, cut[i])
  <2>1. i \in 0 .. conf.keep + 1 /\ i + 1 \in 0 .. conf.keep + 1
    BY <1>2
  <2>2. cut[i] \in Nat /\ cut[i + 1] \in Nat /\ cut[i] <= Len(log)
    BY <1>2, <2>1
  <2>3. /\ cut[i + 1] <= cut[i] /\ Len(disk[i]) = cut[i] - cut[i + 1] /\ disk[i] \in Seq(Event)
        /\ \A k \in 1..Len(disk[i]) : disk[i][k] = log[cut[i + 1] + k]
    BY <1>1 DEF Pieces, TypeOK
  <2> QED BY <1>2, <2>2, <2>3, PieceIsSubSeq
<1> QED BY <1>2, <1>3 DEF RetainedIsTheTail

\* A step that leaves the files alone.
LEMMA TailKept ==
  ASSUME TypeOK, TailInv, UNCHANGED <<disk, log, conf>>,
         pc' = "rotate" => rot' = conf.keep \/ (pc = "rotate" /\ rot' = rot)
  PROVE  TailInv'
<1>1. RotInv'
  BY ConfTypes DEF TailInv, RotInv
<1> QED BY <1>1 DEF TailInv

\* A place behind the first a lines of the active file, in the log and in the buffer.
LEMMA SpilledPlace ==
  ASSUME NEW a \in Nat, NEW b \in Nat, NEW c \in Nat, NEW l \in Nat, NEW k \in Nat,
         a = l - c, k > a, k <= a + b
  PROVE  \E m \in 1..b : c + k = l + m /\ k = a + m
<1>1. k - a \in 1..b /\ c + k = l + (k - a) /\ k = a + (k - a)
  OBVIOUS
<1> QED BY <1>1

\* What gets to the disk lengthens the active file and the log alike.
LEMMA TailSpilled ==
  ASSUME TypeOK, TailInv, Spilled, UNCHANGED conf, pc' # "rotate"
  PROVE  TailInv'
<1>1. PICK cut : Pieces(disk, log, conf.keep, cut)
  BY DEF TailInv
<1>2. conf.keep \in Nat /\ disk \in [0..conf.keep -> Seq(Event)] /\ log \in Seq(Event)
      /\ buffer \in Seq(Event) /\ Len(log) \in Nat /\ Len(buffer) \in Nat
  BY ConfTypes DEF TypeOK
<1> DEFINE new == [i \in 0 .. conf.keep + 1 |-> IF i = 0 THEN Len(log) + Len(buffer) ELSE cut[i]]
<1>3. /\ \A i \in 0..conf.keep : disk'[i] = IF i = 0 THEN disk[0] \o buffer ELSE disk[i]
      /\ log' = log \o buffer /\ Len(log') = Len(log) + Len(buffer)
      /\ \A k \in 1..Len(log) : log'[k] = log[k]
      /\ \A k \in 1..Len(buffer) : log'[Len(log) + k] = buffer[k]
  BY <1>2 DEF Spilled
<1>4. cut \in [0 .. conf.keep + 1 -> 0..Len(log)] /\ cut[0] = Len(log)
  BY <1>1 DEF Pieces
<1>5. /\ new \in [0 .. conf.keep + 1 -> 0..Len(log')] /\ new[0] = Len(log')
      /\ \A i \in 0..conf.keep : new[i + 1] = cut[i + 1] /\ (i # 0 => new[i] = cut[i])
  BY <1>2, <1>3, <1>4
<1> HIDE DEF new
<1>6. ASSUME NEW i \in 0..conf.keep
      PROVE  /\ new[i + 1] <= new[i]
             /\ Len(disk'[i]) = new[i] - new[i + 1]
             /\ \A k \in 1..Len(disk'[i]) : disk'[i][k] = log'[new[i + 1] + k]
  <2>1. /\ cut[i + 1] <= cut[i] /\ Len(disk[i]) = cut[i] - cut[i + 1]
        /\ \A k \in 1..Len(disk[i]) : disk[i][k] = log[cut[i + 1] + k]
    BY <1>1 DEF Pieces
  <2>2. cut[i] \in 0..Len(log) /\ cut[i + 1] \in 0..Len(log)
    <3>1. i \in 0 .. conf.keep + 1 /\ i + 1 \in 0 .. conf.keep + 1
      BY <1>2
    <3> QED BY <1>4, <3>1
  <2>3. CASE i # 0
    <3>1. \A k \in 1..Len(disk[i]) : cut[i + 1] + k \in 1..Len(log)
      BY <1>2, <2>1, <2>2
    <3> QED BY <1>3, <1>5, <2>1, <2>3, <3>1
  <2>4. CASE i = 0
    <3>1. disk[0] \in Seq(Event) /\ disk'[0] = disk[0] \o buffer /\ new[0] = Len(log) + Len(buffer)
      BY <1>2, <1>3, <1>5, <2>4
    <3>2. /\ Len(disk'[0]) = Len(disk[0]) + Len(buffer)
          /\ \A k \in 1..Len(disk[0]) : disk'[0][k] = disk[0][k]
          /\ \A k \in 1..Len(buffer) : disk'[0][Len(disk[0]) + k] = buffer[k]
      BY <1>2, <3>1
    <3>3. Len(disk[0]) = Len(log) - cut[1] /\ Len(disk[0]) \in Nat /\ cut[1] \in Nat
      BY <1>4, <2>1, <2>2, <2>4, <3>1
    <3>4. ASSUME NEW k \in 1..Len(disk'[0]) PROVE disk'[0][k] = log'[cut[1] + k]
      <4>0. k \in Nat /\ k >= 1 /\ k <= Len(disk[0]) + Len(buffer)
        BY <1>2, <3>2, <3>3
      <4>1. CASE k <= Len(disk[0])
        <5>1. k \in 1..Len(disk[0]) /\ cut[1] + k \in 1..Len(log)
          BY <1>2, <3>3, <4>1
        <5> QED BY <1>3, <2>1, <2>4, <3>2, <5>1
      <4>2. CASE k > Len(disk[0])
        <5>0. Len(disk[0]) \in Nat /\ Len(buffer) \in Nat /\ cut[1] \in Nat /\ Len(log) \in Nat
          BY <1>2, <3>3
        <5>1. PICK m \in 1..Len(buffer) : cut[1] + k = Len(log) + m /\ k = Len(disk[0]) + m
          <6>1. PICK a \in Nat, b \in Nat, c \in Nat, l \in Nat :
                  a = Len(disk[0]) /\ b = Len(buffer) /\ c = cut[1] /\ l = Len(log)
            BY <5>0
          <6>2. a = l - c /\ k > a /\ k <= a + b /\ k \in Nat
            BY <3>3, <4>0, <4>2, <6>1
          <6>3. PICK m \in 1..b : c + k = l + m /\ k = a + m
            BY <6>2, SpilledPlace
          <6> QED BY <6>1, <6>3
        <5>2. log'[Len(log) + m] = buffer[m] /\ disk'[0][Len(disk[0]) + m] = buffer[m]
          BY <1>3, <3>2, <5>1
        <5> QED BY <5>1, <5>2
      <4> QED BY <3>3, <4>0, <4>1, <4>2
    <3>5. new[1] = cut[1] /\ i + 1 = 1
      BY <1>5, <2>4
    <3>6. cut[1] <= Len(log) + Len(buffer)
          /\ Len(disk[0]) + Len(buffer) = (Len(log) + Len(buffer)) - cut[1]
      BY <1>2, <2>2, <2>4, <3>3
    <3> QED BY <2>4, <3>1, <3>2, <3>4, <3>5, <3>6
  <2> QED BY <2>3, <2>4
<1>7. Pieces(disk', log', conf'.keep, new)
  BY <1>5, <1>6 DEF Pieces
<1> QED BY <1>7 DEF TailInv, RotInv

\* A file that has nothing but empty files behind it can go.
LEMMA TailCut ==
  ASSUME TypeOK, TailInv, NEW i \in 0..conf.keep, UNCHANGED <<log, conf>>,
         disk' = [disk EXCEPT ![i] = <<>>],
         \A j \in 0..conf.keep : j > i => disk[j] = <<>>,
         pc' = "rotate" => rot' = conf.keep \/ rot' + 1 = i
  PROVE  TailInv'
<1>1. PICK cut : Pieces(disk, log, conf.keep, cut)
  BY DEF TailInv
<1>2. conf.keep \in Nat /\ disk \in [0..conf.keep -> Seq(Event)] /\ Len(log) \in Nat
      /\ cut \in [0 .. conf.keep + 1 -> 0..Len(log)] /\ cut[0] = Len(log)
  BY <1>1, ConfTypes DEF TypeOK, Pieces
<1> DEFINE new == [j \in 0 .. conf.keep + 1 |-> IF j > i THEN cut[i] ELSE cut[j]]
<1>3. \A j \in 0..conf.keep : disk'[j] = IF j >= i THEN <<>> ELSE disk[j]
  BY <1>2
<1>4. /\ new \in [0 .. conf.keep + 1 -> 0..Len(log)] /\ new[0] = Len(log)
      /\ \A j \in 0..conf.keep : /\ j >= i => new[j] = cut[i] /\ new[j + 1] = cut[i]
                                 /\ j < i => new[j] = cut[j] /\ new[j + 1] = cut[j + 1]
  BY <1>2
<1>a. cut[i] \in Nat
  BY <1>2
<1> HIDE DEF new
<1>5. ASSUME NEW j \in 0..conf.keep
      PROVE  /\ new[j + 1] <= new[j]
             /\ Len(disk'[j]) = new[j] - new[j + 1]
             /\ \A k \in 1..Len(disk'[j]) : disk'[j][k] = log[new[j + 1] + k]
  <2>1. CASE j >= i
    BY <1>3, <1>4, <1>a, <2>1
  <2>2. CASE j < i
    BY <1>1, <1>3, <1>4, <2>2 DEF Pieces
  <2> QED BY <1>2, <2>1, <2>2
<1>6. Pieces(disk', log', conf'.keep, new)
  BY <1>4, <1>5 DEF Pieces
<1>7. RotInv'
  BY <1>2, <1>3, <1>a DEF RotInv
<1> QED BY <1>6, <1>7 DEF TailInv

\* A rename into the place of a file that is gone.
LEMMA TailMoved ==
  ASSUME TypeOK, TailInv, UNCHANGED <<log, conf>>, rot \in 0..conf.keep, rot < conf.keep,
         pc = "rotate", disk' = [disk EXCEPT ![rot] = <<>>, ![rot + 1] = disk[rot]],
         pc' = "rotate" => rot' = rot - 1
  PROVE  TailInv'
<1>0. PICK r \in 0..conf.keep : r = rot
  OBVIOUS
<1>1. PICK cut : Pieces(disk, log, conf.keep, cut)
  BY DEF TailInv
<1>2. conf.keep \in Nat /\ disk \in [0..conf.keep -> Seq(Event)] /\ Len(log) \in Nat
      /\ cut \in [0 .. conf.keep + 1 -> 0..Len(log)] /\ cut[0] = Len(log)
  <2>1. conf.keep \in Nat /\ disk \in [0..conf.keep -> Seq(Event)] /\ log \in Seq(Event)
    BY ConfTypes DEF TypeOK
  <2> QED BY <1>1, <2>1 DEF Pieces
<1>a. \A j \in 0 .. conf.keep + 1 : cut[j] \in 0..Len(log)
  BY <1>2
<1> DEFINE new == [j \in 0 .. conf.keep + 1 |-> IF j = r + 1 THEN cut[r] ELSE cut[j]]
<1>3. /\ r + 1 \in 0..conf.keep /\ r \in 0 .. conf.keep + 1 /\ r + 1 \in 0 .. conf.keep + 1
      /\ r + 2 \in 0 .. conf.keep + 1 /\ r + 1 # 0 /\ (r + 1) + 1 = r + 2
  BY <1>0, <1>2
<1>4. /\ disk'[r] = <<>> /\ disk'[r + 1] = disk[r] /\ disk[r + 1] = <<>>
      /\ \A j \in 0..conf.keep : j # r /\ j # r + 1 => disk'[j] = disk[j]
  BY <1>0, <1>2, <1>3 DEF TailInv, RotInv
<1>5. /\ new \in [0 .. conf.keep + 1 -> 0..Len(log)] /\ new[0] = Len(log) /\ new[r + 1] = cut[r]
      /\ \A j \in 0 .. conf.keep + 1 : j # r + 1 => new[j] = cut[j]
  <2>1. cut[r] \in 0..Len(log) /\ 0 \in 0 .. conf.keep + 1
    <3>1. 0 \in 0 .. conf.keep + 1
      BY <1>2
    <3> QED BY <1>3, <1>a, <3>1
  <2>2. new[0] = cut[0] /\ new[r + 1] = cut[r]
    BY <1>3, <2>1
  <2> QED BY <1>2, <1>a, <2>1, <2>2
<1>6. cut[r + 2] = cut[r + 1] /\ cut[r] \in Nat /\ cut[r + 1] \in Nat
  <2>1. Len(disk[r + 1]) = cut[r + 1] - cut[r + 2]
    BY <1>1, <1>3 DEF Pieces
  <2>2. cut[r + 2] \in Nat /\ cut[r] \in Nat /\ cut[r + 1] \in Nat
    <3>1. cut[r + 2] \in 0..Len(log) /\ cut[r] \in 0..Len(log) /\ cut[r + 1] \in 0..Len(log)
      BY <1>3, <1>a
    <3> QED BY <1>2, <3>1
  <2>3. Len(disk[r + 1]) = 0
    BY <1>4
  <2> QED BY <2>1, <2>2, <2>3
<1>7. new[r] = cut[r] /\ new[r + 2] = cut[r + 1]
  BY <1>3, <1>5, <1>6
<1> HIDE DEF new
<1>8. ASSUME NEW j \in 0..conf.keep
      PROVE  /\ new[j + 1] <= new[j]
             /\ Len(disk'[j]) = new[j] - new[j + 1]
             /\ \A k \in 1..Len(disk'[j]) : disk'[j][k] = log[new[j + 1] + k]
  <2>1. CASE j = r
    <3>1. new[j + 1] = cut[r] /\ new[j] = cut[r] /\ disk'[j] = <<>>
      BY <1>4, <1>5, <1>7, <2>1
    <3>2. Len(disk'[j]) = 0 /\ cut[r] - cut[r] = 0 /\ cut[r] <= cut[r]
      BY <1>6, <3>1
    <3>3. \A k \in 1..Len(disk'[j]) : FALSE
      BY <3>2
    <3> QED BY <3>1, <3>2, <3>3
  <2>2. CASE j = r + 1
    <3>1. new[j + 1] = cut[r + 1] /\ new[j] = cut[r] /\ disk'[j] = disk[r]
      BY <1>3, <1>4, <1>5, <1>7, <2>2
    <3> QED BY <1>1, <3>1 DEF Pieces
  <2>3. CASE j # r /\ j # r + 1
    <3>1. j + 1 # r + 1 /\ j + 1 \in 0 .. conf.keep + 1 /\ j \in 0 .. conf.keep + 1
      BY <1>2, <2>3
    <3>2. new[j + 1] = cut[j + 1] /\ new[j] = cut[j] /\ disk'[j] = disk[j]
      BY <1>4, <1>5, <2>3, <3>1
    <3> QED BY <1>1, <3>2 DEF Pieces
  <2> QED BY <2>1, <2>2, <2>3
<1>9. Pieces(disk', log', conf'.keep, new)
  <2>1. Pieces(disk', log, conf.keep, new)
    BY <1>5, <1>8 DEF Pieces
  <2> QED BY <2>1
<1>10. RotInv'
  BY <1>0, <1>2, <1>4 DEF RotInv
<1> QED BY <1>9, <1>10 DEF TailInv

\* One file operation of the rotation.
LEMMA TailRotated == ASSUME TypeOK, TailInv, RotateStep PROVE TailInv'
<1>1. /\ rot \in 0..conf.keep /\ conf.keep \in Nat /\ disk \in [0..conf.keep -> Seq(Event)] /\ pc = "rotate"
      /\ UNCHANGED <<log, conf>> /\ (pc' = "rotate" => rot' = rot - 1)
  BY ConfTypes DEF TypeOK, RotateStep, pastVars
<1>2. CASE rot = conf.keep
  <2>1. disk' = [disk EXCEPT ![rot] = <<>>]
    BY <1>2 DEF RotateStep
  <2>2. \A j \in 0..conf.keep : j > rot => disk[j] = <<>>
    BY <1>1, <1>2
  <2>3. pc' = "rotate" => rot' + 1 = rot
    BY <1>1
  <2> QED BY <1>1, <2>1, <2>2, <2>3, TailCut
<1>3. CASE rot # conf.keep /\ disk[rot] = <<>>
  <2>1. disk' = disk
    BY <1>3 DEF RotateStep
  <2>2. RotInv'
    BY <1>1, <1>3, <2>1 DEF RotInv
  <2> QED BY <1>1, <2>1, <2>2 DEF TailInv
<1>4. CASE rot # conf.keep /\ disk[rot] # <<>>
  <2>1. disk' = [disk EXCEPT ![rot] = <<>>, ![rot + 1] = disk[rot]] /\ rot < conf.keep
    BY <1>1, <1>4 DEF RotateStep
  <2> QED BY <1>1, <2>1, TailMoved
<1> QED BY <1>2, <1>3, <1>4

\* One unlink of the retention.
LEMMA TailTrimmed == ASSUME TypeOK, TailInv, TrimOldest PROVE TailInv'
<1>1. PICK i \in Rotated : OldestFirst(i) /\ disk' = [disk EXCEPT ![i] = <<>>]
  BY DEF TrimOldest
<1>2. conf.keep \in Nat /\ i \in 0..conf.keep
  BY <1>1, ConfTypes DEF Rotated
<1>3. \A j \in 0..conf.keep : j > i => disk[j] = <<>>
  BY <1>1, <1>2 DEF OldestFirst, Rotated
<1>4. UNCHANGED <<log, conf>> /\ pc' # "rotate"
  BY DEF TrimOldest, pastVars
<1> QED BY <1>1, <1>2, <1>3, <1>4, TailCut

\* Every step of the agent keeps the files the tail of the log.
LEMMA TailNext == IInv /\ TailInv /\ [Next]_vars => TailInv'
<1> SUFFICES ASSUME IInv, TailInv, [Next]_vars PROVE TailInv'
  OBVIOUS
<1> USE DEF fileVars, pastVars
<1>0. TypeOK
  BY DEF IInv
<1>1. CASE BuildFails \/ Start \/ OpenOutput \/ BodyFails \/ Signal \/ Interrupt \/ GeneratorFails
  <2>1. UNCHANGED <<disk, log, conf>> /\ pc' # "rotate"
    BY <1>1 DEF BuildFails, Start, OpenOutput, BodyFails, Signal, Interrupt, GeneratorFails
  <2> QED BY <1>0, <2>1, TailKept
<1>2. CASE Generate
  <2>1. UNCHANGED <<disk, log, conf>> /\ pc' # "rotate"
    BY <1>2, MockType, LinuxType DEF Generate, KeepLoop
  <2> QED BY <1>0, <2>1, TailKept
<1>3. CASE TakeRecord
  <2>1. UNCHANGED <<disk, log, conf>> /\ (pc' = "rotate" => rot' = conf.keep)
    BY <1>3 DEF TakeRecord
  <2> QED BY <1>0, <1>3, <2>1, TailKept DEF TakeRecord
<1>4. CASE RotateStep
  BY <1>0, <1>4, TailRotated
<1>5. CASE WriteLine \/ RetryWrite \/ CountWritten \/ CountRead \/ Persist \/ CountEvent \/ PublishRecord
  <2>1. UNCHANGED <<disk, log, conf>> /\ pc' # "rotate"
    BY <1>5 DEF WriteLine, RetryWrite, CountWritten, CountRead, Persist, CountEvent, PublishRecord
  <2> QED BY <1>0, <2>1, TailKept
<1>6. CASE Flush
  BY <1>0, <1>6, TailSpilled DEF Flush, Spill
<1>7. CASE TrimOldest
  BY <1>0, <1>7, TailTrimmed
<1>8. CASE LoopEnds \/ StopHeartbeat \/ JoinHeartbeat \/ FinalStatus
  <2>1. UNCHANGED <<disk, log, conf>> /\ pc' # "rotate"
    BY <1>8 DEF LoopEnds, StopHeartbeat, JoinHeartbeat, FinalStatus
  <2> QED BY <1>0, <2>1, TailKept
<1>9. CASE CloseOutput
  <2>1. UNCHANGED conf /\ pc' # "rotate" /\ (Spilled \/ UNCHANGED <<disk, log>>)
    BY <1>9 DEF CloseOutput, Spill
  <2> QED BY <1>0, <2>1, TailKept, TailSpilled
<1>10. CASE Heartbeat \/ Tick \/ DropGenerator \/ UNCHANGED vars
  <2>1. UNCHANGED <<disk, log, conf, pc, rot>>
    BY <1>10 DEF Heartbeat, HeartbeatSnapshot, HeartbeatWrite, HeartbeatEnd, Tick, DropGenerator,
                loopVars, vars, agentVars
  <2> QED BY <1>0, <2>1, TailKept
<1>11. CASE Exit
  <2>1. UNCHANGED conf /\ pc' # "rotate" /\ (Spilled \/ UNCHANGED <<disk, log>>)
    BY <1>11 DEF Exit, Gone
  <2> QED BY <1>0, <2>1, TailKept, TailSpilled
<1>12. CASE Kill \/ Restart
  <2>1. UNCHANGED <<disk, log, conf>> /\ pc' # "rotate"
    BY <1>12 DEF Kill, Gone, Restart
  <2> QED BY <1>0, <2>1, TailKept
<1> QED
  BY <1>1, <1>2, <1>3, <1>4, <1>5, <1>6, <1>7, <1>8, <1>9, <1>10, <1>11, <1>12 DEF Next, Record, Ending

\* The first files are empty, and so is the log.
LEMMA TailInit == Init => TailInv
<1> SUFFICES ASSUME Init PROVE TailInv
  OBVIOUS
<1>1. conf.keep \in Nat /\ log = <<>> /\ pc = "build" /\ \A i \in 0..conf.keep : disk[i] = <<>>
  BY ConfigAssumption DEF Init
<1> DEFINE cut == [i \in 0 .. conf.keep + 1 |-> 0]
<1>2. cut \in [0 .. conf.keep + 1 -> 0..Len(log)] /\ cut[0] = Len(log)
  BY <1>1
<1>3. ASSUME NEW i \in 0..conf.keep
      PROVE  /\ cut[i + 1] <= cut[i] /\ Len(disk[i]) = cut[i] - cut[i + 1]
             /\ \A k \in 1..Len(disk[i]) : disk[i][k] = log[cut[i + 1] + k]
  <2>1. cut[i] = 0 /\ cut[i + 1] = 0 /\ Len(disk[i]) = 0
    BY <1>1
  <2>2. \A k \in 1..Len(disk[i]) : FALSE
    BY <2>1
  <2> QED BY <2>1, <2>2
<1> HIDE DEF cut
<1>4. Pieces(disk, log, conf.keep, cut)
  BY <1>2, <1>3 DEF Pieces
<1> QED BY <1>1, <1>4 DEF TailInv, RotInv

\* Rotation and retention lose the past and nothing else, for every number of
\* kept files, every size and every schedule of crashes and failures: from the
\* oldest to the newest the output files are the latest lines ever written.
THEOREM TailCorrect == Spec => []RetainedIsTheTail
<1>1. Init => IInv /\ TailInv
  BY InitInv, TailInit
<1>2. IInv /\ TailInv /\ [Next]_vars => (IInv /\ TailInv)'
  BY NextInv, TailNext
<1>3. IInv /\ TailInv => RetainedIsTheTail
  BY TailIsRetained DEF IInv
<1> QED BY <1>1, <1>2, <1>3, PTL DEF Spec

-----------------------------------------------------------------------------
(* CaptureOrder.  FlowInv follows the events of a probe on their way from   *)
(* the perf callback through queue, batch, hand and buffer to the log.      *)

\* Of the same probe, a was captured before b, or not after it.
Before(a, b) == a[1] = b[1] => a[2] < b[2]
NotAfter(a, b) == a[1] = b[1] => a[2] <= b[2]

\* The kernel has delivered e when it has delivered f[p] events of each probe p.
Captured(f, e) == e[2] <= f[e[1]]

\* e comes after all that the lines w, the store S and the hand h have of its probe.
Newer(w, S, h, e) ==
  /\ \A i \in DOMAIN w : Before(w[i], e)
  /\ \A x \in S : Before(x, e)
  /\ \A i \in DOMAIN h : Before(h[i], e)

InOrder(w) == \A i, j \in DOMAIN w : i < j => NotAfter(w[i], w[j])
Rising(q) == \A i, j \in DOMAIN q : i < j => Before(q[i], q[j])

\* The loop holds a record that is not stored yet.
Unstored == {"record", "rotate", "write", "flush", "retain", "ingest", "persist"}

LogFlow ==
  /\ InOrder(log)
  /\ \A i \in DOMAIN log : Captured(fired, log[i])
  /\ \A x \in ingested : Captured(fired, x)

\* A retry repeats the record in hand and nothing else.
HandFlow ==
  /\ \A h \in DOMAIN hand : /\ Captured(fired, hand[h])
                            /\ \A i \in DOMAIN log : NotAfter(log[i], hand[h])
                            /\ pc \in Unstored => \A x \in ingested : Before(x, hand[h])
  /\ \A k \in DOMAIN buffer : Len(hand) = 1 /\ buffer[k] = hand[1]

BatchFlow ==
  /\ \A k \in DOMAIN batch : Captured(fired, batch[k]) /\ Newer(log, ingested, hand, batch[k])
  /\ Rising(batch)

QueueFlow ==
  \A p \in Probes :
    /\ \A l \in DOMAIN queue[p] : /\ queue[p][l][1] = p /\ Captured(fired, queue[p][l])
                                  /\ Newer(log, ingested, hand, queue[p][l])
                                  /\ \A k \in DOMAIN batch : Before(batch[k], queue[p][l])
    /\ Rising(queue[p])

\* The mock collector has no queue.
MockFlow == conf.source = "mock" => batch = <<>> /\ \A p \in Probes : queue[p] = <<>>

FlowInv == LogFlow /\ HandFlow /\ BatchFlow /\ QueueFlow /\ MockFlow

\* The order of events.
LEMMA OrderFacts ==
  /\ \A a, b \in Event : Before(a, b) => NotAfter(a, b)
  /\ \A a \in Event : NotAfter(a, a)
  BY DEF Event, Before, NotAfter

\* Where the records are.
LEMMA FlowTypes ==
  ASSUME TypeOK
  PROVE  /\ log \in Seq(Event) /\ hand \in Seq(Event) /\ buffer \in Seq(Event) /\ batch \in Seq(Event)
         /\ \A p \in Probes : queue[p] \in Seq(Event)
         /\ \A i \in DOMAIN log : log[i] \in Event
         /\ \A i \in DOMAIN hand : hand[i] \in Event /\ i = 1 /\ Len(hand) = 1
         /\ Len(hand) = 1 => 1 \in DOMAIN hand
         /\ \A i \in DOMAIN batch : batch[i] \in Event
         /\ \A p \in Probes : \A i \in DOMAIN queue[p] : queue[p][i] \in Event
         /\ \A x \in ingested : x \in Event
<1>1. /\ log \in Seq(Event) /\ hand \in Seq(Event) /\ buffer \in Seq(Event) /\ batch \in Seq(Event)
      /\ queue \in [Probes -> Seq(Event)] /\ ingested \subseteq Event /\ Len(hand) <= 1
  BY DEF TypeOK, SessionTypeOK
<1>2. \A p \in Probes : queue[p] \in Seq(Event)
  BY <1>1
<1>3. \A i \in DOMAIN hand : hand[i] \in Event /\ i = 1 /\ Len(hand) = 1
  <2>1. Len(hand) \in Nat /\ DOMAIN hand = 1..Len(hand)
    BY <1>1
  <2> QED BY <1>1, <2>1
<1>4. Len(hand) = 1 => 1 \in DOMAIN hand
  BY <1>1
<1>5. \A i \in DOMAIN log : log[i] \in Event
  BY <1>1
<1>6. \A i \in DOMAIN batch : batch[i] \in Event
  BY <1>1
<1>7. \A p \in Probes : \A i \in DOMAIN queue[p] : queue[p][i] \in Event
  BY <1>2
<1> QED BY <1>1, <1>2, <1>3, <1>4, <1>5, <1>6, <1>7

\* A step that passes the record in hand on, to the log or to the store, or drops
\* what is on its way.
LEMMA FlowKept ==
  ASSUME TypeOK, FlowInv, UNCHANGED <<fired, conf>>,
         hand' = hand \/ hand' = <<>>,
         pc' \in Unstored => pc \in Unstored \/ hand' = <<>>,
         \A k \in DOMAIN buffer' : Len(hand') = 1 /\ buffer'[k] = hand'[1],
         \A i \in DOMAIN log' : \/ i \in DOMAIN log /\ log'[i] = log[i]
                                \/ i \notin DOMAIN log /\ Len(hand) = 1 /\ log'[i] = hand[1],
         \A i, j \in DOMAIN log' : i < j /\ j \in DOMAIN log => i \in DOMAIN log,
         \A x \in ingested' : x \in ingested \/ (Len(hand) = 1 /\ x = hand[1] /\ pc' \notin Unstored),
         batch' = batch \/ batch' = <<>>,
         \A p \in Probes : queue'[p] = queue[p] \/ queue'[p] = <<>>
  PROVE  FlowInv'
<1> USE FlowTypes, OrderFacts
<1>1. Len(hand) = 1 => /\ 1 \in DOMAIN hand /\ hand[1] \in Event /\ Captured(fired, hand[1])
                       /\ \A i \in DOMAIN log : NotAfter(log[i], hand[1])
  BY DEF FlowInv, HandFlow
<1>2. \A e : Newer(log, ingested, hand, e) => Newer(log', ingested', hand', e)
  BY <1>1 DEF Newer
<1>3. LogFlow'
  <2>1. InOrder(log')
    <3> SUFFICES ASSUME NEW i \in DOMAIN log', NEW j \in DOMAIN log', i < j
                 PROVE  NotAfter(log'[i], log'[j])
      BY DEF InOrder
    <3>1. CASE j \in DOMAIN log
      BY <3>1 DEF FlowInv, LogFlow, InOrder
    <3>2. CASE j \notin DOMAIN log
      BY <1>1, <3>2
    <3> QED BY <3>1, <3>2
  <2>2. \A i \in DOMAIN log' : Captured(fired', log'[i])
    BY <1>1 DEF FlowInv, LogFlow
  <2>3. \A x \in ingested' : Captured(fired', x)
    BY <1>1 DEF FlowInv, LogFlow
  <2> QED BY <2>1, <2>2, <2>3 DEF LogFlow
<1>4. HandFlow'
  <2>1. ASSUME NEW h \in DOMAIN hand'
        PROVE  /\ Captured(fired', hand'[h])
               /\ \A i \in DOMAIN log' : NotAfter(log'[i], hand'[h])
               /\ pc' \in Unstored => \A x \in ingested' : Before(x, hand'[h])
    <3>1. hand' = hand /\ h \in DOMAIN hand /\ h = 1
      BY <2>1
    <3> QED BY <1>1, <3>1 DEF FlowInv, HandFlow
  <2> QED BY <2>1 DEF HandFlow
<1>5. BatchFlow'
  <2>1. CASE batch' = batch
    BY <1>2, <2>1 DEF FlowInv, BatchFlow
  <2>2. CASE batch' = <<>>
    BY <2>2 DEF BatchFlow, Rising
  <2> QED BY <2>1, <2>2
<1>6. QueueFlow'
  <2> SUFFICES ASSUME NEW p \in Probes
               PROVE  /\ \A l \in DOMAIN queue'[p] :
                            /\ queue'[p][l][1] = p /\ Captured(fired', queue'[p][l])
                            /\ Newer(log', ingested', hand', queue'[p][l])
                            /\ \A k \in DOMAIN batch' : Before(batch'[k], queue'[p][l])
                      /\ Rising(queue'[p])
    BY DEF QueueFlow
  <2>1. CASE queue'[p] = queue[p]
    BY <1>2, <2>1 DEF FlowInv, QueueFlow
  <2>2. CASE queue'[p] = <<>>
    BY <2>2 DEF Rising
  <2> QED BY <2>1, <2>2
<1>7. MockFlow'
  BY DEF FlowInv, MockFlow
<1> QED BY <1>3, <1>4, <1>5, <1>6, <1>7 DEF FlowInv

\* A step that leaves the log, the store and the buffer alone.
LEMMA FlowQuiet ==
  ASSUME TypeOK, FlowInv, UNCHANGED <<fired, conf, log, ingested>>,
         \/ hand' = hand /\ buffer' = buffer
         \/ (hand' = hand \/ hand' = <<>>) /\ buffer' = <<>>,
         pc' \in Unstored => pc \in Unstored \/ hand' = <<>>,
         batch' = batch \/ batch' = <<>>,
         \A p \in Probes : queue'[p] = queue[p] \/ queue'[p] = <<>>
  PROVE  FlowInv'
<1>1. \A k \in DOMAIN buffer' : Len(hand') = 1 /\ buffer'[k] = hand'[1]
  BY DEF FlowInv, HandFlow
<1>2. \A i \in DOMAIN log' : i \in DOMAIN log /\ log'[i] = log[i]
  OBVIOUS
<1> QED BY <1>1, <1>2, FlowKept

\* What gets to the disk is the record in hand, any number of times.
LEMMA FlowSpilled ==
  ASSUME TypeOK, FlowInv, UNCHANGED <<fired, conf, ingested>>, Spilled, buffer' = <<>>,
         hand' = hand \/ hand' = <<>>,
         pc' \in Unstored => pc \in Unstored \/ hand' = <<>>,
         batch' = batch \/ batch' = <<>>,
         \A p \in Probes : queue'[p] = queue[p] \/ queue'[p] = <<>>
  PROVE  FlowInv'
<1>1. /\ log \in Seq(Event) /\ buffer \in Seq(Event) /\ log' = log \o buffer
      /\ \A k \in DOMAIN buffer : Len(hand) = 1 /\ buffer[k] = hand[1]
  BY FlowTypes DEF Spilled, FlowInv, HandFlow
<1>2. /\ DOMAIN log = 1..Len(log) /\ DOMAIN buffer = 1..Len(buffer) /\ Len(log) \in Nat /\ Len(buffer) \in Nat
      /\ DOMAIN log' = 1 .. Len(log) + Len(buffer)
      /\ \A i \in 1..Len(log) : log'[i] = log[i]
      /\ \A i \in 1 .. Len(log) + Len(buffer) : i \notin 1..Len(log) =>
            i - Len(log) \in 1..Len(buffer) /\ log'[i] = buffer[i - Len(log)]
  BY <1>1
<1>3. \A i \in DOMAIN log' : \/ i \in DOMAIN log /\ log'[i] = log[i]
                             \/ i \notin DOMAIN log /\ Len(hand) = 1 /\ log'[i] = hand[1]
  BY <1>1, <1>2
<1>4. \A i, j \in DOMAIN log' : i < j /\ j \in DOMAIN log => i \in DOMAIN log
  BY <1>2
<1>5. \A k \in DOMAIN buffer' : Len(hand') = 1 /\ buffer'[k] = hand'[1]
  OBVIOUS
<1> QED BY <1>3, <1>4, <1>5, FlowKept

\* The generator yields the oldest record of its batch.
LEMMA FlowYielded ==
  ASSUME TypeOK, FlowInv, batch # <<>>, hand' = <<Head(batch)>>, batch' = Tail(batch), buffer = <<>>,
         UNCHANGED <<log, ingested, fired, conf, queue, buffer>>
  PROVE  FlowInv'
<1>1. /\ 1 \in DOMAIN batch /\ DOMAIN hand' = {1} /\ hand'[1] = batch[1]
      /\ \A k \in DOMAIN batch' : k + 1 \in DOMAIN batch /\ batch'[k] = batch[k + 1] /\ 1 < k + 1
      /\ \A k, l \in DOMAIN batch' : k < l => k + 1 < l + 1
  BY FlowTypes
<1>2. Captured(fired, batch[1]) /\ Newer(log, ingested, hand, batch[1]) /\ batch[1] \in Event
  BY <1>1, FlowTypes DEF FlowInv, BatchFlow
<1>3. LogFlow'
  BY DEF FlowInv, LogFlow
<1>4. HandFlow'
  <2>1. \A i \in DOMAIN log : NotAfter(log[i], batch[1])
    BY <1>2, FlowTypes, OrderFacts DEF Newer
  <2> QED BY <1>1, <1>2, <2>1 DEF HandFlow, Newer
<1>5. BatchFlow'
  <2>1. \A k \in DOMAIN batch' : Before(batch[1], batch'[k])
    BY <1>1 DEF FlowInv, BatchFlow, Rising
  <2>2. \A k \in DOMAIN batch' : Captured(fired, batch'[k]) /\ Newer(log, ingested, hand', batch'[k])
    BY <1>1, <2>1 DEF FlowInv, BatchFlow, Newer
  <2>3. Rising(batch')
    BY <1>1 DEF FlowInv, BatchFlow, Rising
  <2> QED BY <2>2, <2>3 DEF BatchFlow
<1>6. QueueFlow'
  <2>1. \A p \in Probes : \A l \in DOMAIN queue[p] : Newer(log, ingested, hand', queue[p][l])
    BY <1>1 DEF FlowInv, QueueFlow, Newer
  <2>2. \A p \in Probes : \A l \in DOMAIN queue[p] : \A k \in DOMAIN batch' : Before(batch'[k], queue[p][l])
    BY <1>1 DEF FlowInv, QueueFlow
  <2> QED BY <2>1, <2>2 DEF FlowInv, QueueFlow
<1>7. MockFlow'
  BY DEF FlowInv, MockFlow
<1> QED BY <1>3, <1>4, <1>5, <1>6, <1>7 DEF FlowInv

\* _drain_probe hands over the events of one probe.
LEMMA FlowDrained ==
  ASSUME TypeOK, FlowInv, NEW d \in Probes, conf.source # "mock",
         batch' = queue[d], queue' = [queue EXCEPT ![d] = <<>>],
         UNCHANGED <<log, ingested, fired, conf, hand, buffer, pc>>
  PROVE  FlowInv'
<1>1. queue'[d] = <<>> /\ \A p \in Probes : p # d => queue'[p] = queue[p]
  BY DEF TypeOK, SessionTypeOK
<1>2. LogFlow' /\ HandFlow' /\ MockFlow'
  BY DEF FlowInv, LogFlow, HandFlow, MockFlow
<1>3. BatchFlow'
  BY DEF FlowInv, QueueFlow, BatchFlow
<1>4. QueueFlow'
  <2> SUFFICES ASSUME NEW p \in Probes
               PROVE  /\ \A l \in DOMAIN queue'[p] :
                            /\ queue'[p][l][1] = p /\ Captured(fired', queue'[p][l])
                            /\ Newer(log', ingested', hand', queue'[p][l])
                            /\ \A k \in DOMAIN batch' : Before(batch'[k], queue'[p][l])
                      /\ Rising(queue'[p])
    BY DEF QueueFlow
  <2>1. CASE p = d
    BY <1>1, <2>1 DEF Rising
  <2>2. CASE p # d
    <3>1. queue'[p] = queue[p]
      BY <1>1, <2>2
    <3>2. \A l \in DOMAIN queue[p], k \in DOMAIN batch' : Before(batch'[k], queue[p][l])
      BY <2>2 DEF FlowInv, QueueFlow, Before
    <3> QED BY <3>1, <3>2 DEF FlowInv, QueueFlow
  <2> QED BY <2>1, <2>2
<1> QED BY <1>2, <1>3, <1>4 DEF FlowInv

\* What the kernel has delivered stays delivered, and comes before what it delivers next.
LEMMA Fresh ==
  ASSUME SessionTypeOK, NEW p \in Probes, NEW k \in Nat, fired' = [fired EXCEPT ![p] = @ + k]
  PROVE  /\ \A e \in Event : Captured(fired, e) => Captured(fired', e)
         /\ \A e \in Event, n \in Nat \ {0} : Captured(fired, e) => Before(e, <<p, fired[p] + n>>)
         /\ \A n \in Nat \ {0} : /\ <<p, fired[p] + n>> \in Event
                                 /\ n <= k => Captured(fired', <<p, fired[p] + n>>)
<1>1. fired \in [Probes -> Nat] /\ fired' \in [Probes -> Nat] /\ fired'[p] = fired[p] + k
      /\ fired[p] \in Nat /\ \A q \in Probes : q # p => fired'[q] = fired[q]
  BY DEF SessionTypeOK
<1>2. ASSUME NEW e \in Event, Captured(fired, e) PROVE Captured(fired', e)
  <2>1. e[1] \in Probes /\ e[2] \in Nat /\ e[2] <= fired[e[1]] /\ fired[e[1]] \in Nat
    BY <1>1, <1>2 DEF Event, Captured
  <2>2. CASE e[1] = p
    BY <1>1, <2>1, <2>2 DEF Captured
  <2>3. CASE e[1] # p
    BY <1>1, <2>1, <2>3 DEF Captured
  <2> QED BY <2>2, <2>3
<1>3. ASSUME NEW e \in Event, NEW n \in Nat \ {0}, Captured(fired, e) PROVE Before(e, <<p, fired[p] + n>>)
  <2>1. e[2] \in Nat /\ e[2] <= fired[e[1]]
    BY <1>3 DEF Event, Captured
  <2> QED BY <1>1, <1>3, <2>1 DEF Before
<1>4. ASSUME NEW n \in Nat \ {0}
      PROVE  <<p, fired[p] + n>> \in Event /\ (n <= k => Captured(fired', <<p, fired[p] + n>>))
  BY <1>1 DEF Event, Captured
<1> QED BY <1>2, <1>3, <1>4

\* The mock collector's next record.
LEMMA FlowMocked ==
  ASSUME TypeOK, FlowInv, conf.source = "mock", NEW p \in Probes, buffer = <<>>,
         hand' = << <<p, fired[p] + 1>> >>, fired' = [fired EXCEPT ![p] = @ + 1],
         UNCHANGED <<log, ingested, conf, queue, batch, buffer>>
  PROVE  FlowInv'
<1>0. PICK n : n = <<p, fired[p] + 1>>
  OBVIOUS
<1>1. /\ \A e \in Event : Captured(fired, e) => Captured(fired', e) /\ Before(e, n)
      /\ n \in Event /\ Captured(fired', n)
  <2>1. SessionTypeOK /\ 1 \in Nat /\ 1 \in Nat \ {0} /\ 1 <= 1
    BY DEF TypeOK
  <2> QED BY <1>0, <2>1, Fresh
<1>2. hand' = <<n>> /\ DOMAIN hand' = {1} /\ hand'[1] = n /\ DOMAIN buffer' = {}
  BY <1>0
<1>3. LogFlow'
  BY <1>1, FlowTypes DEF FlowInv, LogFlow
<1>4. HandFlow'
  <2>1. \A i \in DOMAIN log : NotAfter(log[i], n)
    BY <1>1, FlowTypes, OrderFacts DEF FlowInv, LogFlow
  <2>2. \A x \in ingested : Before(x, n)
    BY <1>1, FlowTypes DEF FlowInv, LogFlow
  <2> QED BY <1>1, <1>2, <2>1, <2>2 DEF HandFlow
<1>5. batch' = <<>> /\ (\A q \in Probes : queue'[q] = <<>>) /\ MockFlow'
  BY DEF FlowInv, MockFlow
<1>6. BatchFlow'
  BY <1>5 DEF BatchFlow, Rising
<1>7. QueueFlow'
  BY <1>5 DEF QueueFlow, Rising
<1> QED BY <1>3, <1>4, <1>5, <1>6, <1>7 DEF FlowInv

\* What _enqueue lets in.
LEMMA EnqueuedPart ==
  ASSUME SessionTypeOK, NEW p \in Probes, NEW k \in Nat, NEW max \in Nat, Enqueue(p, k, max)
  PROVE  \E take \in Nat : /\ take <= k
                           /\ queue'[p] = queue[p] \o [i \in 1..take |-> <<p, fired[p] + i>>]
                           /\ dropped' = dropped \cup {<<p, fired[p] + i>> : i \in take + 1 .. k}
<1> DEFINE room == IF max > Len(queue[p]) THEN max - Len(queue[p]) ELSE 0
           take == IF k < room THEN k ELSE room
<1>1. queue[p] \in Seq(Event) /\ Len(queue[p]) \in Nat
  BY DEF SessionTypeOK
<1>2. room \in Nat
  BY <1>1
<1> HIDE DEF room
<1>3. take \in Nat /\ take <= k
  BY <1>2
<1>4. /\ queue' = [queue EXCEPT ![p] = queue[p] \o [i \in 1..take |-> <<p, fired[p] + i>>]]
      /\ dropped' = dropped \cup {<<p, fired[p] + i>> : i \in take + 1 .. k}
  BY DEF Enqueue, room
<1> HIDE DEF take
<1>5. queue'[p] = queue[p] \o [i \in 1..take |-> <<p, fired[p] + i>>]
  BY <1>4 DEF SessionTypeOK
<1> QED BY <1>3, <1>4, <1>5

\* The perf callbacks of one poll.
LEMMA FlowPolled ==
  ASSUME TypeOK, FlowInv, conf.source # "mock", NEW p \in Probes, NEW k \in Nat, NEW max \in Nat,
         Enqueue(p, k, max), UNCHANGED <<log, ingested, conf, hand, batch, buffer, pc>>
  PROVE  FlowInv'
<1>1. fired' = [fired EXCEPT ![p] = @ + k] /\ SessionTypeOK /\ queue \in [Probes -> Seq(Event)]
  BY DEF Enqueue, TypeOK, SessionTypeOK
<1>2. /\ \A e \in Event : Captured(fired, e) => Captured(fired', e)
      /\ \A e \in Event, n \in Nat \ {0} : Captured(fired, e) => Before(e, <<p, fired[p] + n>>)
      /\ \A n \in Nat \ {0} : /\ <<p, fired[p] + n>> \in Event
                              /\ n <= k => Captured(fired', <<p, fired[p] + n>>)
  BY <1>1, Fresh
<1>3. \A q \in Probes : q # p => queue'[q] = queue[q]
  BY <1>1 DEF Enqueue
<1>4. LogFlow'
  BY <1>2, FlowTypes DEF FlowInv, LogFlow
<1>5. HandFlow'
  BY <1>2, FlowTypes DEF FlowInv, HandFlow
<1>6. BatchFlow' /\ MockFlow'
  BY <1>2, FlowTypes DEF FlowInv, BatchFlow, MockFlow
<1>7. ASSUME NEW q \in Probes, q # p
      PROVE  /\ \A l \in DOMAIN queue'[q] :
                   /\ queue'[q][l][1] = q /\ Captured(fired', queue'[q][l])
                   /\ Newer(log', ingested', hand', queue'[q][l])
                   /\ \A i \in DOMAIN batch' : Before(batch'[i], queue'[q][l])
             /\ Rising(queue'[q])
  <2>1. queue'[q] = queue[q]
    BY <1>3, <1>7
  <2> QED BY <1>2, <2>1, FlowTypes DEF FlowInv, QueueFlow
<1>8. /\ \A l \in DOMAIN queue'[p] :
            /\ queue'[p][l][1] = p /\ Captured(fired', queue'[p][l])
            /\ Newer(log', ingested', hand', queue'[p][l])
            /\ \A i \in DOMAIN batch' : Before(batch'[i], queue'[p][l])
      /\ Rising(queue'[p])
  <2>1. ASSUME NEW n \in Nat \ {0}, n <= k
        PROVE  /\ <<p, fired[p] + n>>[1] = p /\ Captured(fired', <<p, fired[p] + n>>)
               /\ Newer(log', ingested', hand', <<p, fired[p] + n>>)
               /\ \A i \in DOMAIN batch' : Before(batch'[i], <<p, fired[p] + n>>)
               /\ \A l \in DOMAIN queue[p] : Before(queue[p][l], <<p, fired[p] + n>>)
    <3>1. PICK e : e = <<p, fired[p] + n>>
      OBVIOUS
    <3>2. e[1] = p /\ Captured(fired', e) /\ \A x \in Event : Captured(fired, x) => Before(x, e)
      BY <1>2, <2>1, <3>1
    <3>3. Newer(log', ingested', hand', e)
      BY <3>2, FlowTypes DEF FlowInv, LogFlow, HandFlow, Newer
    <3>4. \A i \in DOMAIN batch' : Before(batch'[i], e)
      BY <3>2, FlowTypes DEF FlowInv, BatchFlow
    <3>5. \A l \in DOMAIN queue[p] : Before(queue[p][l], e)
      BY <3>2, FlowTypes DEF FlowInv, QueueFlow
    <3> QED BY <3>1, <3>2, <3>3, <3>4, <3>5
  <2>2. PICK take \in Nat : take <= k /\ queue'[p] = queue[p] \o [i \in 1..take |-> <<p, fired[p] + i>>]
    BY <1>1, EnqueuedPart
  <2>3. /\ queue[p] \in Seq(Event) /\ Len(queue[p]) \in Nat /\ DOMAIN queue[p] = 1..Len(queue[p])
        /\ [i \in 1..take |-> <<p, fired[p] + i>>] \in Seq(Event)
    <3>1. \A i \in 1..take : <<p, fired[p] + i>> \in Event
      BY <1>2
    <3> QED BY <1>1, <3>1
  <2>4. /\ DOMAIN queue'[p] = 1 .. Len(queue[p]) + take
        /\ \A l \in 1..Len(queue[p]) : queue'[p][l] = queue[p][l]
        /\ \A l \in 1 .. Len(queue[p]) + take : l \notin 1..Len(queue[p]) =>
              /\ l - Len(queue[p]) \in Nat \ {0} /\ l - Len(queue[p]) <= k
              /\ queue'[p][l] = <<p, fired[p] + (l - Len(queue[p]))>>
    <3> DEFINE new == [i \in 1..take |-> <<p, fired[p] + i>>]
    <3>1. Len(new) = take /\ \A i \in 1..take : new[i] = <<p, fired[p] + i>>
      BY <2>3
    <3> HIDE DEF new
    <3>2. /\ Len(queue'[p]) = Len(queue[p]) + take /\ DOMAIN queue'[p] = 1 .. Len(queue[p]) + take
          /\ \A l \in 1..Len(queue[p]) : queue'[p][l] = queue[p][l]
          /\ \A l \in 1 .. Len(queue[p]) + take : l \notin 1..Len(queue[p]) =>
                l - Len(queue[p]) \in 1..take /\ queue'[p][l] = new[l - Len(queue[p])]
      BY <2>2, <2>3, <3>1 DEF new
    <3>3. \A i \in 1..take : i \in Nat \ {0} /\ i <= k
      BY <2>2
    <3> QED BY <3>1, <3>2, <3>3
  <2>5. \A l \in DOMAIN queue'[p] :
            /\ queue'[p][l][1] = p /\ Captured(fired', queue'[p][l])
            /\ Newer(log', ingested', hand', queue'[p][l])
            /\ \A i \in DOMAIN batch' : Before(batch'[i], queue'[p][l])
    <3> SUFFICES ASSUME NEW l \in DOMAIN queue'[p]
                 PROVE  /\ queue'[p][l][1] = p /\ Captured(fired', queue'[p][l])
                        /\ Newer(log', ingested', hand', queue'[p][l])
                        /\ \A i \in DOMAIN batch' : Before(batch'[i], queue'[p][l])
      OBVIOUS
    <3>1. CASE l \in 1..Len(queue[p])
      BY <1>2, <2>3, <2>4, <3>1, FlowTypes DEF FlowInv, QueueFlow
    <3>2. CASE l \notin 1..Len(queue[p])
      <4>1. PICK n \in Nat \ {0} : n <= k /\ queue'[p][l] = <<p, fired[p] + n>>
        BY <2>4, <3>2
      <4> QED BY <2>1, <4>1
    <3> QED BY <3>1, <3>2
  <2>6. Rising(queue'[p])
    <3> SUFFICES ASSUME NEW i \in DOMAIN queue'[p], NEW j \in DOMAIN queue'[p], i < j
                 PROVE  Before(queue'[p][i], queue'[p][j])
      BY DEF Rising
    <3>1. CASE j \in 1..Len(queue[p])
      <4>1. i \in 1..Len(queue[p])
        BY <2>3, <2>4, <3>1
      <4> QED BY <2>3, <2>4, <3>1, <4>1 DEF FlowInv, QueueFlow, Rising
    <3>2. CASE j \notin 1..Len(queue[p]) /\ i \in 1..Len(queue[p])
      <4>1. PICK n \in Nat \ {0} : n <= k /\ queue'[p][j] = <<p, fired[p] + n>>
        BY <2>4, <3>2
      <4>2. queue'[p][i] = queue[p][i] /\ i \in DOMAIN queue[p]
        BY <2>3, <2>4, <3>2
      <4> QED BY <2>1, <4>1, <4>2
    <3>3. CASE j \notin 1..Len(queue[p]) /\ i \notin 1..Len(queue[p])
      <4>1. /\ queue'[p][i] = <<p, fired[p] + (i - Len(queue[p]))>>
            /\ queue'[p][j] = <<p, fired[p] + (j - Len(queue[p]))>>
        BY <2>4, <3>3
      <4>2. fired[p] + (i - Len(queue[p])) < fired[p] + (j - Len(queue[p]))
        <5>1. fired[p] \in Nat /\ i \in Int /\ j \in Int /\ Len(queue[p]) \in Nat
          <6>1. fired[p] \in Nat
            BY DEF TypeOK, SessionTypeOK
          <6>2. i \in 1 .. Len(queue[p]) + take /\ j \in 1 .. Len(queue[p]) + take
            BY <2>4
          <6> QED BY <2>3, <6>1, <6>2
        <5> QED BY <5>1
      <4> QED BY <4>1, <4>2 DEF Before
    <3> QED BY <3>1, <3>2, <3>3
  <2> QED BY <2>5, <2>6
<1>9. QueueFlow'
  BY <1>7, <1>8 DEF QueueFlow
<1> QED BY <1>4, <1>5, <1>6, <1>9 DEF FlowInv

\* One more copy of a record behind its copies.
LEMMA Repeated ==
  ASSUME NEW S, NEW a \in Seq(S), NEW b \in Seq(S), Len(b) = 1, \A k \in DOMAIN a : a[k] = b[1]
  PROVE  \A k \in DOMAIN (a \o b) : (a \o b)[k] = b[1]
<1>1. Len(a) \in Nat /\ DOMAIN a = 1..Len(a) /\ DOMAIN (a \o b) = 1 .. Len(a) + 1
  <2>1. a \o b \in Seq(S) /\ Len(a \o b) = Len(a) + 1
    BY ConcatLength
  <2> QED BY <2>1
<1> SUFFICES ASSUME NEW k \in 1 .. Len(a) + 1 PROVE (a \o b)[k] = b[1]
  BY <1>1
<1>2. CASE k <= Len(a)
  BY <1>1, <1>2
<1>3. CASE k > Len(a)
  <2>1. k = Len(a) + 1
    BY <1>1, <1>3
  <2> QED BY <1>1, <2>1
<1> QED BY <1>1, <1>2, <1>3

\* One step of the generator.
LEMMA FlowGenerated == ASSUME IInv, FlowInv, Generate PROVE FlowInv'
<1>1. TypeOK /\ SessionTypeOK /\ pc = "next" /\ buffer = <<>>
      /\ UNCHANGED <<log, ingested, conf, buffer>>
  BY DEF IInv, TypeOK, BufferInv, Trying, Generate, KeepLoop, fileVars, pastVars
<1>2. "next" \notin Unstored /\ "after" \notin Unstored
  BY DEF Unstored
<1>3. ASSUME UNCHANGED <<fired, hand>>, pc' \in {"next", "after"},
             UNCHANGED <<queue, batch>> \/ (UNCHANGED queue /\ batch' = <<>>) \/ Cleanup
      PROVE  FlowInv'
  <2>1. (batch' = batch \/ batch' = <<>>) /\ \A p \in Probes : queue'[p] = queue[p] \/ queue'[p] = <<>>
    BY <1>3 DEF Cleanup
  <2> QED BY <1>1, <1>2, <1>3, <2>1, FlowQuiet
<1>4. CASE MockNext
  <2>1. CASE emitted < Len(ProbeOrder)
    <3>1. emitted + 1 \in DOMAIN ProbeOrder
      BY <1>1, <2>1, ProbeTypes DEF SessionTypeOK
    <3>2. PICK p \in Probes : p = ProbeOrder[emitted + 1]
      BY <3>1 DEF Probes
    <3>3. hand' = << <<p, fired[p] + 1>> >> /\ fired' = [fired EXCEPT ![p] = @ + 1]
          /\ UNCHANGED <<queue, batch>> /\ conf.source = "mock"
      BY <1>4, <2>1, <3>2 DEF MockNext, Deliver
    <3> QED BY <1>1, <3>3, FlowMocked
  <2>2. CASE ~(emitted < Len(ProbeOrder))
    <3>1. UNCHANGED <<fired, hand, queue, batch>> /\ pc' = "after"
      BY <1>4, <2>2 DEF MockNext
    <3> QED BY <1>3, <3>1
  <2> QED BY <2>1, <2>2
<1>5. CASE LinuxNext
  <2>1. conf.source = "linux" /\ conf.source # "mock"
    BY <1>5 DEF LinuxNext
  <2>2. CASE \E S \in SUBSET Probes : Attach(S) /\ Notify /\ UNCHANGED <<pc, hand>>
    BY <1>1, <1>3, <2>2 DEF Attach
  <2>3. CASE SourceGone /\ pc' = "after" /\ UNCHANGED <<hand, status, recent>>
    BY <1>3, <2>3 DEF SourceGone
  <2>4. CASE BeginRound(conf.limit) /\ UNCHANGED <<pc, hand, status, recent>>
    BY <1>1, <1>3, <2>4 DEF BeginRound
  <2>5. CASE SkipProbe /\ UNCHANGED <<pc, hand, status, recent>>
    BY <1>1, <1>3, <2>5 DEF SkipProbe
  <2>6. ASSUME NEW k \in 0..MaxEvents, NEW ok \in BOOLEAN,
               Poll(conf.limit, conf.queue, k, ok), UNCHANGED <<pc, hand>>
        PROVE  FlowInv'
    <3>1. k \in Nat /\ conf.queue \in Nat
      BY <1>1, EventsAssumption, ConfTypes
    <3>2. PICK p \in Probes : p = ProbeOrder[turn]
      BY <1>1, <2>6, TurnType DEF Poll
    <3>3. Enqueue(p, k, conf.queue) /\ UNCHANGED batch
      BY <2>6, <3>2 DEF Poll
    <3> QED BY <1>1, <2>1, <2>6, <3>1, <3>3, FlowPolled
  <2>7. CASE Drain /\ UNCHANGED <<pc, hand>>
    <3>1. turn <= Len(ProbeOrder)
      BY <2>1, <2>7 DEF Drain, IInv, SourceInv
    <3>2. PICK d \in Probes : d = ProbeOrder[turn]
      BY <1>1, <3>1, TurnType
    <3>3. batch' = queue[d] /\ queue' = [queue EXCEPT ![d] = <<>>] /\ UNCHANGED fired
      BY <2>7, <3>2 DEF Drain
    <3> QED BY <1>1, <2>1, <2>7, <3>3, FlowDrained
  <2>8. CASE Yield(conf.limit) /\ Deliver(Head(batch))
    <3>1. batch # <<>> /\ hand' = <<Head(batch)>> /\ batch' = Tail(batch) /\ UNCHANGED <<fired, queue>>
      BY <2>8 DEF Yield, Deliver
    <3> QED BY <1>1, <3>1, FlowYielded
  <2>9. CASE BatchDone(conf.limit) /\ UNCHANGED <<pc, hand, status, recent>>
    BY <1>1, <1>3, <2>9 DEF BatchDone
  <2>10. CASE EndRound(conf.limit) /\ UNCHANGED <<pc, hand, status, recent>>
    BY <1>1, <1>3, <2>10 DEF EndRound
  <2>11. CASE Finish(conf.limit) /\ Notify /\ pc' = "after" /\ UNCHANGED hand
    BY <1>3, <2>11 DEF Finish, Cleanup
  <2> QED BY <1>5, <2>2, <2>3, <2>4, <2>5, <2>6, <2>7, <2>8, <2>9, <2>10, <2>11 DEF LinuxNext
<1> QED BY <1>4, <1>5 DEF Generate

\* Every step of the agent keeps the events in order.
LEMMA FlowNext == IInv /\ FlowInv /\ [Next]_vars => FlowInv'
<1> SUFFICES ASSUME IInv, FlowInv, [Next]_vars PROVE FlowInv'
  OBVIOUS
<1> USE DEF fileVars, pastVars, loopVars, sessionVars
<1>0. TypeOK
  BY DEF IInv
<1>1. ASSUME UNCHANGED <<fired, conf, log, ingested, hand, buffer, batch, queue>>,
             pc' \in Unstored => pc \in Unstored
      PROVE  FlowInv'
  BY <1>0, <1>1, FlowQuiet
<1>2. CASE BuildFails \/ Start \/ OpenOutput \/ BodyFails \/ Interrupt \/ Restart
  <2>1. UNCHANGED <<fired, conf, log, ingested, hand, buffer, batch, queue>>
    BY <1>2 DEF BuildFails, Start, OpenOutput, BodyFails, Interrupt, Restart
  <2>2. pc' \notin Unstored
    BY <1>2 DEF BuildFails, Start, OpenOutput, BodyFails, Interrupt, Restart, Unstored
  <2> QED BY <1>1, <2>1, <2>2
<1>3. CASE Signal
  <2>1. /\ UNCHANGED <<fired, conf, log, ingested, hand, buffer>> /\ pc' \notin Unstored
        /\ batch' = batch \/ batch' = <<>>
        /\ queue' = queue \/ queue' = [p \in Probes |-> <<>>]
    BY <1>3, ConfigAssumption, <1>0 DEF Signal, Stop, Unstored, TypeOK
  <2>2. \A p \in Probes : queue'[p] = queue[p] \/ queue'[p] = <<>>
    BY <2>1
  <2> QED BY <1>0, <2>1, <2>2, FlowQuiet
<1>4. CASE Generate
  BY <1>4, FlowGenerated
<1>5. CASE GeneratorFails
  <2>1. /\ UNCHANGED <<fired, conf, log, ingested, buffer>> /\ pc' \notin Unstored
        /\ hand' = <<>> /\ buffer = <<>>
        /\ batch' = batch \/ batch' = <<>>
        /\ queue' = queue \/ queue' = [p \in Probes |-> <<>>]
    BY <1>5 DEF GeneratorFails, AttachFails, AttachUnseen, Cleanup, IInv, BufferInv, Trying, Unstored
  <2>2. \A p \in Probes : queue'[p] = queue[p] \/ queue'[p] = <<>>
    BY <2>1
  <2>3. hand' = <<>> /\ buffer' = <<>>
    BY <2>1
  <2> QED BY <1>0, <2>1, <2>2, <2>3, FlowQuiet
<1>6. CASE TakeRecord \/ PublishRecord
  <2>1. UNCHANGED <<fired, conf, log, ingested, buffer, batch, queue>> /\ (hand' = hand \/ hand' = <<>>)
        /\ buffer = <<>>
    BY <1>6 DEF TakeRecord, PublishRecord, IInv, BufferInv, Trying
  <2>2. pc' \in Unstored => pc \in Unstored
    BY <1>6 DEF TakeRecord, PublishRecord, Unstored
  <2> QED BY <1>0, <2>1, <2>2, FlowQuiet
<1>7. CASE RotateStep \/ RetryWrite \/ TrimOldest \/ CountWritten \/ CountRead \/ CountEvent
  <2>1. UNCHANGED <<fired, conf, log, ingested, hand, buffer, batch, queue>>
    BY <1>7 DEF RotateStep, RetryWrite, TrimOldest, CountWritten, CountRead, CountEvent
  <2>2. pc' \in Unstored => pc \in Unstored
    BY <1>7 DEF RotateStep, RetryWrite, TrimOldest, CountWritten, CountRead, CountEvent, Unstored
  <2> QED BY <1>1, <2>1, <2>2
<1>8. CASE WriteLine
  <2>1. UNCHANGED <<fired, conf, log, ingested, hand, batch, queue>> /\ buffer' = buffer \o hand
        /\ pc \in Unstored /\ Len(hand) = 1
    BY <1>8 DEF WriteLine, Unstored, IInv, IdleInv
  <2>2. \A k \in DOMAIN buffer' : Len(hand') = 1 /\ buffer'[k] = hand'[1]
    <3>1. buffer \in Seq(Event) /\ hand \in Seq(Event) /\ \A k \in DOMAIN buffer : buffer[k] = hand[1]
      BY <1>0, FlowTypes DEF FlowInv, HandFlow
    <3>2. \A k \in DOMAIN (buffer \o hand) : (buffer \o hand)[k] = hand[1]
      BY <2>1, <3>1, Repeated
    <3> QED BY <2>1, <3>2
  <2>3. \A i \in DOMAIN log' : i \in DOMAIN log /\ log'[i] = log[i]
    BY <2>1
  <2> QED BY <1>0, <2>1, <2>2, <2>3, FlowKept
<1>9. CASE Flush
  <2>1. pc \in Unstored
    BY <1>9 DEF Flush, Unstored
  <2> QED BY <1>0, <1>9, <2>1, FlowSpilled DEF Flush, Spill
<1>10. CASE Persist
  <2>1. UNCHANGED <<fired, conf, log, hand, buffer, batch, queue>> /\ ingested' = ingested \cup {hand[1]}
        /\ pc' \notin Unstored /\ Len(hand) = 1
    BY <1>10 DEF Persist, Unstored, IInv, IdleInv
  <2>2. \A k \in DOMAIN buffer' : Len(hand') = 1 /\ buffer'[k] = hand'[1]
    BY <2>1 DEF FlowInv, HandFlow
  <2>3. \A i \in DOMAIN log' : i \in DOMAIN log /\ log'[i] = log[i]
    BY <2>1
  <2> QED BY <1>0, <2>1, <2>2, <2>3, FlowKept
<1>11. CASE LoopEnds \/ StopHeartbeat \/ JoinHeartbeat \/ FinalStatus
  <2>1. UNCHANGED <<fired, conf, log, ingested, hand, buffer, batch, queue>>
    BY <1>11 DEF LoopEnds, StopHeartbeat, JoinHeartbeat, FinalStatus
  <2>2. pc' \notin Unstored
    BY <1>11 DEF LoopEnds, StopHeartbeat, JoinHeartbeat, FinalStatus, Unstored
  <2> QED BY <1>1, <2>1, <2>2
<1>12. CASE CloseOutput
  <2>1. UNCHANGED <<fired, conf, ingested, hand, batch, queue>> /\ buffer' = <<>>
        /\ (Spilled \/ UNCHANGED <<disk, log>>)
    BY <1>12 DEF CloseOutput, Spill
  <2>2. pc' \notin Unstored
    BY <1>12 DEF CloseOutput, Unstored
  <2> QED BY <1>0, <2>1, <2>2, FlowQuiet, FlowSpilled
<1>13. CASE Heartbeat \/ Tick \/ UNCHANGED vars
  <2>1. UNCHANGED <<fired, conf, log, ingested, hand, buffer, batch, queue, pc>>
    BY <1>13 DEF Heartbeat, HeartbeatSnapshot, HeartbeatWrite, HeartbeatEnd, Tick, vars, agentVars
  <2> QED BY <1>1, <2>1
<1>14. CASE DropGenerator
  <2>1. UNCHANGED <<fired, conf, log, ingested, hand, buffer, pc>>
        /\ (batch' = batch \/ batch' = <<>>) /\ (queue' = queue \/ queue' = [p \in Probes |-> <<>>])
    BY <1>14 DEF DropGenerator, Cleanup
  <2>2. \A p \in Probes : queue'[p] = queue[p] \/ queue'[p] = <<>>
    BY <2>1
  <2> QED BY <1>0, <2>1, <2>2, FlowQuiet
<1>15. CASE Exit \/ Kill
  <2>1. UNCHANGED <<fired, conf, ingested>> /\ hand' = <<>> /\ batch' = <<>> /\ buffer' = <<>>
        /\ queue' = [p \in Probes |-> <<>>] /\ (Spilled \/ UNCHANGED <<disk, log>>)
    BY <1>15 DEF Exit, Kill, Gone, SessionReset
  <2>2. \A p \in Probes : queue'[p] = queue[p] \/ queue'[p] = <<>>
    BY <2>1
  <2>3. pc' \notin Unstored
    BY <1>15 DEF Exit, Kill, Gone, Unstored
  <2> QED BY <1>0, <2>1, <2>2, <2>3, FlowQuiet, FlowSpilled
<1> QED
  BY <1>2, <1>3, <1>4, <1>5, <1>6, <1>7, <1>8, <1>9, <1>10, <1>11, <1>12, <1>13, <1>14, <1>15
  DEF Next, Record, Ending

\* Nothing is under way at the start.
LEMMA FlowInit == Init => FlowInv
<1> SUFFICES ASSUME Init PROVE FlowInv
  OBVIOUS
<1>1. log = <<>> /\ hand = <<>> /\ buffer = <<>> /\ batch = <<>> /\ ingested = {}
      /\ \A p \in Probes : queue[p] = <<>>
  BY DEF Init, SessionInit
<1>2. LogFlow /\ HandFlow /\ BatchFlow
  BY <1>1 DEF LogFlow, HandFlow, BatchFlow, InOrder, Rising
<1>3. QueueFlow /\ MockFlow
  BY <1>1 DEF QueueFlow, MockFlow, Rising
<1> QED BY <1>2, <1>3 DEF FlowInv

\* Where every event stands, in every state of the agent.
THEOREM FlowCorrect == Spec => [](IInv /\ FlowInv)
<1>1. Init => IInv /\ FlowInv
  BY InitInv, FlowInit
<1>2. IInv /\ FlowInv /\ [Next]_vars => (IInv /\ FlowInv)'
  BY NextInv, FlowNext
<1> QED BY <1>1, <1>2, PTL DEF Spec

\* The events of a probe reach the output in the order they were captured, over
\* any number of restarts, retried writes and polls.
THEOREM CaptureCorrect == Spec => []CaptureOrder
<1>1. FlowInv => CaptureOrder
  BY DEF FlowInv, LogFlow, InOrder, NotAfter, CaptureOrder
<1> QED BY <1>1, FlowCorrect, PTL

-----------------------------------------------------------------------------
(* StatusIsCovered.  Not the status file alone: whatever may be published   *)
(* next, the heartbeat thread's snapshot and the counters themselves, is    *)
(* covered, and where a counter is about to go up its cover is there.       *)

\* n lines in the log and m records in the store cover the counters c.
Covered(c, n, m) ==
  /\ c.written <= n /\ c.events <= m
  /\ c.events <= c.read /\ c.read <= c.written

\* What is done and not counted yet at a place of the loop.
Ahead(where, c, n, m) ==
  /\ where = "retain" => c.written + 1 <= n
  /\ where = "ingest" => c.read + 1 <= c.written
  /\ where \in {"persist", "count"} => c.events + 1 <= c.read
  /\ where = "count" => c.events + 1 <= m

CoverInv ==
  /\ IsFiniteSet(ingested)
  /\ Covered(count, Len(log), Cardinality(ingested))
  /\ Covered(hsnap.count, Len(log), Cardinality(ingested))
  /\ Covered(status.count, Len(log), Cardinality(ingested))
  /\ Ahead(pc, count, Len(log), Cardinality(ingested))

\* Counters that are covered stay covered.
LEMMA CoveredGrows ==
  ASSUME NEW c \in Count, NEW n \in Nat, NEW m \in Nat, NEW n1 \in Nat, NEW m1 \in Nat,
         n <= n1, m <= m1, Covered(c, n, m)
  PROVE  Covered(c, n1, m1)
  BY DEF Covered, Count

\* Counters that count nothing are covered by anything.
LEMMA NothingIsCovered == \A n, m \in Nat : Covered(NoCount, n, m)
  BY DEF Covered, NoCount

\* The cover is a pair of numbers.
LEMMA CoverTypes ==
  ASSUME TypeOK, CoverInv
  PROVE  /\ Len(log) \in Nat /\ Cardinality(ingested) \in Nat
         /\ count \in Count /\ hsnap.count \in Count /\ status.count \in Count
<1>1. Cardinality(ingested) \in Nat
  BY FS_CardinalityType DEF CoverInv
<1>2. log \in Seq(Event) /\ count \in Count /\ hsnap \in Status /\ status \in Status
  BY DEF TypeOK
<1> QED BY <1>1, <1>2 DEF Status

\* A step that publishes what is covered, and keeps the counters of the loop covered.
LEMMA CoverKept ==
  ASSUME TypeOK, CoverInv, NEW n \in Nat, NEW m \in Nat, n = Len(log'), m = Cardinality(ingested'),
         IsFiniteSet(ingested'), Len(log) <= n, Cardinality(ingested) <= m,
         status'.count \in {status.count, hsnap.count, count, NoCount},
         hsnap'.count \in {hsnap.count, count, NoCount},
         Covered(count', n, m), Ahead(pc', count', n, m)
  PROVE  CoverInv'
<1>1. \A c \in {status.count, hsnap.count, count, NoCount} : Covered(c, n, m)
  <2>1. ASSUME NEW c \in {status.count, hsnap.count, count} PROVE Covered(c, n, m)
    <3>1. c \in Count /\ Covered(c, Len(log), Cardinality(ingested))
      BY CoverTypes DEF CoverInv
    <3> QED BY <3>1, CoverTypes, CoveredGrows
  <2> QED BY <2>1, NothingIsCovered
<1> QED BY <1>1 DEF CoverInv

\* A step that does no work on a record.
LEMMA CoverQuiet ==
  ASSUME TypeOK, CoverInv, UNCHANGED <<log, ingested>>,
         status'.count \in {status.count, hsnap.count, count, NoCount},
         hsnap'.count \in {hsnap.count, count, NoCount},
         \/ UNCHANGED <<pc, count>>
         \/ pc' \notin {"retain", "ingest", "persist", "count"} /\ count' \in {count, NoCount}
  PROVE  CoverInv'
<1>1. PICK n \in Nat, m \in Nat : n = Len(log) /\ m = Cardinality(ingested)
  BY CoverTypes
<1>2. n = Len(log') /\ m = Cardinality(ingested') /\ Len(log) <= n /\ Cardinality(ingested) <= m
  BY <1>1
<1>3. Covered(count', n, m)
  BY <1>1, NothingIsCovered DEF CoverInv
<1>4. Ahead(pc', count', n, m)
  BY <1>1 DEF CoverInv, Ahead
<1>5. IsFiniteSet(ingested')
  BY DEF CoverInv
<1> QED BY <1>2, <1>3, <1>4, <1>5, CoverKept

\* A status written by the main thread shows the counters.
LEMMA WrittenStatus ==
  ASSUME NEW r, WriteStatus(r) PROVE status'.count \in {status.count, count}
  BY DEF WriteStatus, Snapshot

\* What gets to the disk can only lengthen the log.
LEMMA LogGrows ==
  ASSUME TypeOK, Spilled PROVE Len(log') = Len(log) + Len(buffer) /\ Len(log) <= Len(log') /\ Len(log') \in Nat
<1>1. log \in Seq(Event) /\ buffer \in Seq(Event) /\ log' = log \o buffer
  BY DEF TypeOK, Spilled
<1>2. Len(log \o buffer) = Len(log) + Len(buffer) /\ Len(log) \in Nat /\ Len(buffer) \in Nat
  BY <1>1, ConcatLength
<1> QED BY <1>1, <1>2

\* A spill outside the loop.
LEMMA CoverSpilled ==
  ASSUME TypeOK, CoverInv, Spilled, UNCHANGED <<ingested, status>>,
         pc' \notin {"retain", "ingest", "persist", "count"}, count' \in {count, NoCount},
         hsnap'.count \in {hsnap.count, NoCount}
  PROVE  CoverInv'
<1>1. PICK n \in Nat, m \in Nat : n = Len(log') /\ m = Cardinality(ingested)
  BY CoverTypes, LogGrows
<1>2. m = Cardinality(ingested') /\ Len(log) <= n /\ Cardinality(ingested) <= m
  BY <1>1, LogGrows
<1>3. Covered(count', n, m)
  BY <1>1, <1>2, NothingIsCovered, CoverTypes, CoveredGrows DEF CoverInv
<1>4. Ahead(pc', count', n, m)
  BY DEF Ahead
<1>5. IsFiniteSet(ingested')
  BY DEF CoverInv
<1> QED BY <1>1, <1>2, <1>3, <1>4, <1>5, CoverKept

\* The successful flush puts the record, at least once, on disk.
LEMMA CoverFlushed == ASSUME IInv, CoverInv, Flush PROVE CoverInv'
<1>1. TypeOK /\ Spilled /\ Len(buffer) = tries + 1 /\ tries \in Nat /\ pc' = "retain"
      /\ UNCHANGED <<ingested, status, count, hsnap>>
  BY FileTypes DEF IInv, BufferInv, Flush, Spill, beatVars
<1>2. PICK n \in Nat, m \in Nat : n = Len(log') /\ m = Cardinality(ingested)
  BY <1>1, CoverTypes, LogGrows
<1>3. Len(log) + 1 <= n /\ Len(log) <= n /\ Len(log) \in Nat /\ count \in Count
  BY <1>1, <1>2, LogGrows, CoverTypes
<1>4. m = Cardinality(ingested') /\ Cardinality(ingested) <= m
  BY <1>1, <1>2
<1>5. Covered(count, n, m)
  BY <1>2, <1>3, <1>1, CoverTypes, CoveredGrows DEF CoverInv
<1>6. Ahead(pc', count', n, m)
  <2>1. count.written <= Len(log) /\ count.written \in Nat
    BY <1>3 DEF CoverInv, Covered, Count
  <2>2. count.written + 1 <= n
    BY <1>3, <2>1
  <2> QED BY <1>1, <2>2 DEF Ahead
<1>7. IsFiniteSet(ingested')
  BY <1>1 DEF CoverInv
<1> QED BY <1>1, <1>2, <1>3, <1>4, <1>5, <1>6, <1>7, CoverKept

\* A record counts when its line is in the log, as read when it counts as written,
\* and as an event when it is stored.
LEMMA CoverCounted ==
  ASSUME TypeOK, CoverInv,
         RotateStep \/ RetryWrite \/ CountWritten \/ CountRead \/ CountEvent
  PROVE  CoverInv'
<1>1. UNCHANGED <<log, ingested, status, hsnap>>
  BY DEF RotateStep, RetryWrite, CountWritten, CountRead, CountEvent, fileVars, beatVars
<1>2. PICK n \in Nat, m \in Nat : n = Len(log) /\ m = Cardinality(ingested)
  BY CoverTypes
<1>3. n = Len(log') /\ m = Cardinality(ingested') /\ Len(log) <= n /\ Cardinality(ingested) <= m
  BY <1>1, <1>2
<1>4. count \in Count /\ shed \in Nat /\ Covered(count, n, m) /\ Ahead(pc, count, n, m)
  BY <1>2 DEF TypeOK, CoverInv
<1>5. Covered(count', n, m) /\ Ahead(pc', count', n, m)
  <2> USE DEF Covered, Ahead, Count
  <2>1. CASE RotateStep
    <3>1. UNCHANGED <<count>> \/ count' = [count EXCEPT !.rotations = @ + 1]
      BY <2>1 DEF RotateStep
    <3>2. count'.written = count.written /\ count'.read = count.read /\ count'.events = count.events
      BY <1>4, <3>1
    <3>3. pc' \in {"rotate", "write", "closing"}
      BY <2>1 DEF RotateStep
    <3> QED BY <1>4, <3>2, <3>3
  <2>2. CASE RetryWrite
    <3>1. count' = [count EXCEPT !.backpressure = @ + 1] /\ pc' = "write"
      BY <2>2 DEF RetryWrite
    <3>2. count'.written = count.written /\ count'.read = count.read /\ count'.events = count.events
      BY <1>4, <3>1
    <3> QED BY <1>4, <3>1, <3>2
  <2>3. CASE CountWritten
    <3>1. count' = [count EXCEPT !.written = @ + 1, !.shed = @ + shed] /\ pc = "retain" /\ pc' \in {"ingest", "publish"}
      BY <2>3 DEF CountWritten
    <3>2. count'.written = count.written + 1 /\ count'.read = count.read /\ count'.events = count.events
      BY <1>4, <3>1
    <3> QED BY <1>4, <3>1, <3>2
  <2>4. CASE CountRead
    <3>1. count' = [count EXCEPT !.read = @ + 1] /\ pc = "ingest" /\ pc' = "persist"
      BY <2>4 DEF CountRead
    <3>2. count'.written = count.written /\ count'.read = count.read + 1 /\ count'.events = count.events
      BY <1>4, <3>1
    <3> QED BY <1>4, <3>1, <3>2
  <2>5. CASE CountEvent
    <3>1. count' = [count EXCEPT !.events = @ + 1] /\ pc = "count" /\ pc' = "publish"
      BY <2>5 DEF CountEvent
    <3>2. count'.written = count.written /\ count'.read = count.read /\ count'.events = count.events + 1
      BY <1>4, <3>1
    <3> QED BY <1>4, <3>1, <3>2
  <2> QED BY <2>1, <2>2, <2>3, <2>4, <2>5
<1>6. IsFiniteSet(ingested')
  BY <1>1 DEF CoverInv
<1> QED BY <1>1, <1>3, <1>5, <1>6, CoverKept

\* The store gets a record it did not have.
LEMMA CoverPersisted == ASSUME IInv, FlowInv, CoverInv, Persist PROVE CoverInv'
<1>1. TypeOK /\ pc = "persist" /\ pc' = "count" /\ ingested' = ingested \cup {hand[1]} /\ Len(hand) = 1
      /\ UNCHANGED <<log, status, hsnap, count>>
  BY DEF IInv, IdleInv, Persist, loopVars, beatVars
<1>2. hand[1] \notin ingested
  <2>1. 1 \in DOMAIN hand /\ hand[1] \in Event /\ \A x \in ingested : Before(x, hand[1])
    BY <1>1, FlowTypes DEF FlowInv, HandFlow, Unstored
  <2>2. ~Before(hand[1], hand[1])
    BY <2>1 DEF Event, Before
  <2> QED BY <2>1, <2>2
<1>3. IsFiniteSet(ingested') /\ Cardinality(ingested') = Cardinality(ingested) + 1
  BY <1>1, <1>2, FS_AddElement DEF CoverInv
<1>4. PICK n \in Nat, m \in Nat : n = Len(log) /\ m = Cardinality(ingested) + 1
  BY <1>1, CoverTypes
<1>5. n = Len(log') /\ m = Cardinality(ingested') /\ Len(log) <= n /\ Cardinality(ingested) <= m
      /\ Cardinality(ingested) \in Nat /\ count \in Count
  BY <1>1, <1>3, <1>4, CoverTypes
<1>6. Covered(count, n, m)
  BY <1>1, <1>4, <1>5, CoverTypes, CoveredGrows DEF CoverInv
<1>7. Ahead(pc', count', n, m)
  <2>1. count.events + 1 <= count.read /\ count.events <= Cardinality(ingested) /\ count.events \in Nat
    BY <1>1, <1>5 DEF CoverInv, Covered, Ahead, Count
  <2>2. count.events + 1 <= m
    BY <1>4, <1>5, <2>1
  <2> QED BY <1>1, <2>1, <2>2 DEF Ahead
<1> QED BY <1>1, <1>3, <1>4, <1>5, <1>6, <1>7, CoverKept

\* Every step of either thread keeps the status covered.
LEMMA CoverNext == IInv /\ FlowInv /\ CoverInv /\ [Next]_vars => CoverInv'
<1> SUFFICES ASSUME IInv, FlowInv, CoverInv, [Next]_vars PROVE CoverInv'
  OBVIOUS
<1> DEFINE Busy == {"retain", "ingest", "persist", "count"}
<1> USE DEF fileVars, loopVars, beatVars
<1>0. TypeOK
  BY DEF IInv
<1>1. CASE BuildFails
  BY <1>0, <1>1, CoverQuiet DEF BuildFails
<1>2. CASE Start \/ PublishRecord
  <2>1. UNCHANGED <<log, ingested, hsnap, count>> /\ pc' \notin Busy /\ WriteStatus("running")
    BY <1>2 DEF Start, PublishRecord
  <2> QED BY <1>0, <2>1, WrittenStatus, CoverQuiet
<1>3. CASE OpenOutput \/ TakeRecord \/ WriteLine \/ LoopEnds \/ BodyFails \/ Interrupt
           \/ StopHeartbeat \/ JoinHeartbeat \/ Restart
  <2>1. UNCHANGED <<log, ingested, status, hsnap, count>> /\ pc' \notin Busy
    BY <1>3 DEF OpenOutput, TakeRecord, WriteLine, LoopEnds, BodyFails, Interrupt,
               StopHeartbeat, JoinHeartbeat, Restart
  <2> QED BY <1>0, <2>1, CoverQuiet
<1>4. CASE Generate
  <2>1. UNCHANGED <<log, ingested, hsnap, count>> /\ pc = "next"
    BY <1>4 DEF Generate, KeepLoop
  <2>2. pc' \notin Busy
    BY <1>4, <2>1, MockType, LinuxType DEF Generate
  <2>3. status'.count \in {status.count, count}
    <3>1. Notify \/ UNCHANGED <<status, recent>> => status'.count \in {status.count, count}
      BY WrittenStatus DEF Notify
    <3>2. CASE MockNext
      BY <3>1, <3>2 DEF MockNext
    <3>3. CASE LinuxNext
      BY <3>1, <3>3 DEF LinuxNext, NotifyIf
    <3> QED BY <1>4, <3>2, <3>3 DEF Generate
  <2> QED BY <1>0, <2>1, <2>2, <2>3, CoverQuiet
<1>5. CASE GeneratorFails \/ Signal
  <2>1. UNCHANGED <<log, ingested, hsnap, count>> /\ pc' \notin Busy /\ (Notify \/ UNCHANGED <<status, recent>>)
    BY <1>5 DEF GeneratorFails, Signal
  <2> QED BY <1>0, <2>1, WrittenStatus, CoverQuiet DEF Notify
<1>6. CASE RotateStep \/ RetryWrite \/ CountWritten \/ CountRead \/ CountEvent
  BY <1>0, <1>6, CoverCounted
<1>7. CASE Flush
  BY <1>7, CoverFlushed
<1>8. CASE Persist
  BY <1>8, CoverPersisted
<1>9. CASE TrimOldest \/ Tick \/ HeartbeatEnd \/ UNCHANGED vars
  <2>1. UNCHANGED <<log, ingested, status, hsnap, count, pc>>
    BY <1>9 DEF TrimOldest, Tick, HeartbeatEnd, vars, agentVars
  <2> QED BY <1>0, <2>1, CoverQuiet
<1>10. CASE HeartbeatSnapshot
  <2>1. UNCHANGED <<log, ingested, status, count, pc>> /\ hsnap'.count = count
    BY <1>10 DEF HeartbeatSnapshot, Snapshot
  <2> QED BY <1>0, <2>1, CoverQuiet
<1>11. CASE HeartbeatWrite
  <2>1. UNCHANGED <<log, ingested, count, pc>> /\ hsnap'.count = NoCount /\ status' \in {status, hsnap}
    BY <1>11 DEF HeartbeatWrite, NoStatus
  <2> QED BY <1>0, <2>1, CoverQuiet
<1>12. CASE DropGenerator
  <2>1. UNCHANGED <<log, ingested, hsnap, count, pc>> /\ (Notify \/ UNCHANGED <<status, recent>>)
    BY <1>12 DEF DropGenerator
  <2> QED BY <1>0, <2>1, WrittenStatus, CoverQuiet DEF Notify
<1>13. CASE FinalStatus
  <2>1. UNCHANGED <<log, ingested, hsnap, count>> /\ pc' \notin Busy
        /\ (WriteStatus(reason) \/ UNCHANGED <<status, recent>>)
    BY <1>13 DEF FinalStatus
  <2> QED BY <1>0, <2>1, WrittenStatus, CoverQuiet
<1>14. CASE CloseOutput
  <2>1. UNCHANGED <<ingested, status, hsnap, count>> /\ pc' \notin Busy /\ (Spilled \/ UNCHANGED <<disk, log>>)
    BY <1>14 DEF CloseOutput, Spill
  <2> QED BY <1>0, <2>1, CoverQuiet, CoverSpilled
<1>15. CASE Exit \/ Kill
  <2>1. UNCHANGED <<ingested, status>> /\ hsnap'.count = NoCount /\ count' = NoCount /\ pc' \notin Busy
        /\ (Spilled \/ UNCHANGED <<disk, log>>)
    BY <1>15 DEF Exit, Kill, Gone, NoStatus
  <2> QED BY <1>0, <2>1, CoverQuiet, CoverSpilled
<1> QED
  BY <1>1, <1>2, <1>3, <1>4, <1>5, <1>6, <1>7, <1>8, <1>9, <1>10, <1>11, <1>12, <1>13, <1>14, <1>15
  DEF Next, Record, Ending, Heartbeat

\* No counter stands at the start.
LEMMA CoverInit == Init => CoverInv
<1> SUFFICES ASSUME Init PROVE CoverInv
  OBVIOUS
<1>1. /\ ingested = {} /\ log = <<>> /\ pc = "build" /\ count = NoCount /\ hsnap.count = NoCount
      /\ status.count = NoCount
  BY DEF Init, NoStatus
<1>2. IsFiniteSet(ingested) /\ Cardinality(ingested) \in Nat /\ Len(log) \in Nat
  BY <1>1, FS_EmptySet
<1>3. Covered(NoCount, Len(log), Cardinality(ingested))
  BY <1>2, NothingIsCovered
<1> QED BY <1>1, <1>2, <1>3 DEF CoverInv, Ahead

\* The status file never claims work that is not on disk, whichever thread wrote
\* it, however many restarts and failures came before.
THEOREM CoverCorrect == Spec => []StatusIsCovered
<1>1. Init => CoverInv
  BY CoverInit
<1>2. (IInv /\ FlowInv) /\ CoverInv /\ [Next]_vars => CoverInv'
  BY CoverNext
<1>3. CoverInv => StatusIsCovered
  BY DEF CoverInv, Covered, StatusIsCovered
<1> QED BY <1>1, <1>2, <1>3, FlowCorrect, PTL DEF Spec

-----------------------------------------------------------------------------
(* EventsAccounted.                                                         *)

\* e is an element of the sequence q.
Within(e, q) == \E i \in DOMAIN q : q[i] = e

\* e is in the hand h, in the batch b or in the queue of its probe.
Placed(h, b, q, e) == Within(e, h) \/ Within(e, b) \/ Within(e, q[e[1]])

\* The generator serves the loop.
Serving == Trying /\ gen # "closed" /\ ~Reached(conf.limit, emitted)

\* The loop waits with empty hands, and once flushed a record is in the log.
HandInv ==
  /\ pc \in {"build", "open", "next", "exited"} => hand = <<>>
  /\ pc \in {"retain", "ingest", "persist", "count", "publish"} => Within(hand[1], log)

\* The generator fills an empty batch and ends before the loop, which has not
\* written more than it was given.
PaceInv ==
  /\ pc = "build" => base = fired
  /\ gen \in {"new", "round", "poll", "drain"} => batch = <<>>
  /\ Trying /\ pc # "after" => gen # "closed"
  /\ Trying => count.written <= emitted
  /\ pc \in {"record", "rotate", "write", "flush", "retain"} => count.written + 1 <= emitted

\* What counts as dropped was captured, is not written and not on its way.
DropInv == \A e \in dropped : /\ Captured(fired, e)
                              /\ ~Within(e, log) /\ ~Placed(hand, batch, queue, e)

\* Nothing this process has captured is lost without a count.
SeenInv ==
  Serving => \A p \in Probes : \A n \in base[p] + 1 .. fired[p] :
               \/ <<p, n>> \in dropped
               \/ Within(<<p, n>>, log) \/ Placed(hand, batch, queue, <<p, n>>)

AccountInv == HandInv /\ PaceInv /\ DropInv /\ SeenInv

\* The elements of a concatenation, of a sequence with its head taken off, of none.
LEMMA WithinConcat ==
  ASSUME NEW S, NEW a \in Seq(S), NEW b \in Seq(S), NEW e
  PROVE  Within(e, a \o b) <=> Within(e, a) \/ Within(e, b)
<1>1. /\ a \o b \in Seq(S) /\ DOMAIN (a \o b) = 1 .. Len(a) + Len(b)
      /\ DOMAIN a = 1..Len(a) /\ DOMAIN b = 1..Len(b) /\ Len(a) \in Nat /\ Len(b) \in Nat
  <2>1. a \o b \in Seq(S) /\ Len(a \o b) = Len(a) + Len(b)
    BY ConcatLength
  <2> QED BY <2>1
<1>2. \A i \in 1..Len(a) : (a \o b)[i] = a[i] /\ i \in 1 .. Len(a) + Len(b)
  BY <1>1
<1>3. \A i \in 1..Len(b) : (a \o b)[Len(a) + i] = b[i] /\ Len(a) + i \in 1 .. Len(a) + Len(b)
  BY <1>1
<1>4. ASSUME NEW i \in 1 .. Len(a) + Len(b), (a \o b)[i] = e PROVE Within(e, a) \/ Within(e, b)
  <2>1. CASE i <= Len(a)
    <3>1. i \in 1..Len(a)
      BY <1>1, <2>1
    <3> QED BY <1>1, <1>2, <1>4, <3>1 DEF Within
  <2>2. CASE i > Len(a)
    <3>1. PICK j \in 1..Len(b) : i = Len(a) + j
      <4>1. i - Len(a) \in 1..Len(b) /\ i = Len(a) + (i - Len(a))
        BY <1>1, <2>2
      <4> QED BY <4>1
    <3> QED BY <1>1, <1>3, <1>4, <3>1 DEF Within
  <2> QED BY <1>1, <2>1, <2>2
<1>5. Within(e, a \o b) => Within(e, a) \/ Within(e, b)
  BY <1>1, <1>4 DEF Within
<1>6. Within(e, a) => Within(e, a \o b)
  BY <1>1, <1>2 DEF Within
<1>7. Within(e, b) => Within(e, a \o b)
  BY <1>1, <1>3 DEF Within
<1> QED BY <1>5, <1>6, <1>7

\* A sequence is its head and its tail.
LEMMA WithinHead ==
  ASSUME NEW S, NEW b \in Seq(S), b # <<>>, NEW e
  PROVE  Within(e, b) <=> Within(e, <<Head(b)>>) \/ Within(e, Tail(b))
<1>1. <<Head(b)>> \in Seq(S) /\ Tail(b) \in Seq(S) /\ b = <<Head(b)>> \o Tail(b)
  OBVIOUS
<1>2. PICK h \in Seq(S), t \in Seq(S) : h = <<Head(b)>> /\ t = Tail(b)
  BY <1>1
<1>3. Within(e, h \o t) <=> Within(e, h) \/ Within(e, t)
  BY WithinConcat
<1>4. b = h \o t
  BY <1>1, <1>2
<1> QED BY <1>2, <1>3, <1>4, Zenon

\* Nothing is in an empty sequence, and one thing in a singleton.
LEMMA WithinFew == (\A e : ~Within(e, <<>>)) /\ \A e, x : Within(e, <<x>>) <=> e = x
  BY DEF Within

\* What is logged, in hand, in the batch or in a queue was captured.
LEMMA PlacedIsCaptured ==
  ASSUME TypeOK, FlowInv, NEW e \in Event, Within(e, log) \/ Placed(hand, batch, queue, e)
  PROVE  Captured(fired, e)
<1>1. e[1] \in Probes
  BY DEF Event
<1>2. Within(e, log) => Captured(fired, e)
  BY DEF Within, FlowInv, LogFlow
<1>3. Within(e, hand) => Captured(fired, e)
  BY DEF Within, FlowInv, HandFlow
<1>4. Within(e, batch) => Captured(fired, e)
  BY DEF Within, FlowInv, BatchFlow
<1>5. Within(e, queue[e[1]]) => Captured(fired, e)
  BY <1>1 DEF Within, FlowInv, QueueFlow
<1> QED BY <1>2, <1>3, <1>4, <1>5 DEF Placed

\* A step that passes the record in hand on, or drops what is on its way, puts
\* nothing anywhere that was not somewhere.
LEMMA NothingNew ==
  ASSUME TypeOK, FlowInv, UNCHANGED log \/ Spilled,
         hand' = hand \/ hand' = <<>>, batch' = batch \/ batch' = <<>>,
         queue' = queue \/ queue' = [p \in Probes |-> <<>>],
         NEW e \in Event, Within(e, log') \/ Placed(hand', batch', queue', e)
  PROVE  Within(e, log) \/ Placed(hand, batch, queue, e)
<1>1. e[1] \in Probes
  BY DEF Event
<1>2. Within(e, log') => Within(e, log) \/ Within(e, hand)
  <2>1. Within(e, buffer) => Within(e, hand)
    BY FlowTypes DEF Within, FlowInv, HandFlow
  <2>2. Spilled => (Within(e, log') <=> Within(e, log) \/ Within(e, buffer))
    BY FlowTypes, WithinConcat DEF Spilled
  <2> QED BY <2>1, <2>2
<1>3. Within(e, queue'[e[1]]) => Within(e, queue[e[1]])
  BY <1>1, WithinFew
<1>4. (Within(e, hand') => Within(e, hand)) /\ (Within(e, batch') => Within(e, batch))
  BY WithinFew
<1> QED BY <1>2, <1>3, <1>4 DEF Placed

\* Then nothing that was dropped turns up again.
LEMMA DropKept ==
  ASSUME TypeOK, DropInv, UNCHANGED <<dropped, fired>>,
         \A e \in Event : Within(e, log') \/ Placed(hand', batch', queue', e)
                            => Within(e, log) \/ Placed(hand, batch, queue, e)
  PROVE  DropInv'
<1>1. \A e \in dropped : e \in Event
  BY DEF TypeOK, SessionTypeOK
<1> QED BY <1>1 DEF DropInv

\* While the generator serves the loop, nothing that was somewhere is gone.
LEMMA SeenKept ==
  ASSUME TypeOK, SeenInv, UNCHANGED <<dropped, fired, base>>,
         Serving' => /\ Serving
                     /\ \A e \in Event : Within(e, log) \/ Placed(hand, batch, queue, e)
                                           => Within(e, log') \/ Placed(hand', batch', queue', e)
  PROVE  SeenInv'
<1> SUFFICES ASSUME Serving', NEW p \in Probes, NEW n \in base[p] + 1 .. fired[p]
             PROVE  \/ <<p, n>> \in dropped
                    \/ Within(<<p, n>>, log') \/ Placed(hand', batch', queue', <<p, n>>)
  BY DEF SeenInv
<1>1. <<p, n>> \in Event
  BY DEF TypeOK, SessionTypeOK, Event
<1> QED BY <1>1 DEF SeenInv

\* The hand over every step.
LEMMA HandNext == IInv /\ FlowInv /\ HandInv /\ [Next]_vars => HandInv'
<1> SUFFICES ASSUME IInv, FlowInv, HandInv, [Next]_vars PROVE HandInv'
  OBVIOUS
<1> USE DEF fileVars, loopVars
<1>1. CASE BuildFails \/ BodyFails \/ Signal \/ Interrupt \/ GeneratorFails \/ LoopEnds \/ StopHeartbeat
           \/ JoinHeartbeat \/ CloseOutput \/ FinalStatus \/ TakeRecord \/ RotateStep \/ WriteLine \/ RetryWrite
  BY <1>1 DEF BuildFails, BodyFails, Signal, Interrupt, GeneratorFails, LoopEnds, StopHeartbeat,
     JoinHeartbeat, CloseOutput, FinalStatus, TakeRecord, RotateStep, WriteLine, RetryWrite, HandInv
<1>2. CASE Start \/ OpenOutput \/ Exit \/ Kill \/ Restart \/ PublishRecord
  BY <1>2 DEF Start, OpenOutput, Exit, Kill, Gone, Restart, PublishRecord, HandInv
<1>3. CASE Generate
  <2>1. pc = "next" /\ hand = <<>>
    BY <1>3 DEF Generate, HandInv
  <2>2. CASE MockNext
    BY <2>1, <2>2 DEF MockNext, Deliver, HandInv
  <2>3. CASE LinuxNext
    BY <2>1, <2>3 DEF LinuxNext, Deliver, HandInv
  <2> QED BY <1>3, <2>2, <2>3 DEF Generate
<1>4. CASE Flush
  <2>1. TypeOK /\ Spilled /\ pc' = "retain" /\ UNCHANGED hand /\ Len(buffer) = tries + 1 /\ tries \in Nat
    BY <1>4, FileTypes DEF Flush, Spill, IInv, BufferInv
  <2>2. 1 \in DOMAIN buffer /\ buffer[1] = hand[1]
    <3>1. buffer \in Seq(Event) /\ Len(buffer) >= 1 /\ Len(buffer) \in Nat
      BY <2>1, FlowTypes
    <3>2. 1 \in DOMAIN buffer
      BY <3>1
    <3> QED BY <3>2 DEF FlowInv, HandFlow
  <2>3. Within(hand[1], buffer)
    BY <2>2 DEF Within
  <2>4. log \in Seq(Event) /\ buffer \in Seq(Event) /\ log' = log \o buffer
    BY <2>1, FlowTypes DEF Spilled
  <2>5. Within(hand[1], log')
    BY <2>3, <2>4, WithinConcat
  <2> QED BY <2>1, <2>5 DEF HandInv
<1>5. CASE TrimOldest \/ CountWritten \/ CountRead \/ Persist \/ CountEvent
  <2>1. UNCHANGED <<hand, log>> /\ pc' \in {"retain", "ingest", "persist", "count", "publish"}
        /\ pc \in {"retain", "ingest", "persist", "count", "publish"}
    BY <1>5 DEF TrimOldest, CountWritten, CountRead, Persist, CountEvent
  <2> QED BY <2>1 DEF HandInv
<1>6. CASE Heartbeat \/ Tick \/ DropGenerator \/ UNCHANGED vars
  <2>1. UNCHANGED <<hand, log, pc>>
    BY <1>6 DEF Heartbeat, HeartbeatSnapshot, HeartbeatWrite, HeartbeatEnd, Tick, DropGenerator, vars, agentVars
  <2> QED BY <2>1 DEF HandInv
<1> QED BY <1>1, <1>2, <1>3, <1>4, <1>5, <1>6 DEF Next, Record, Ending

\* The pace over a step that leaves the generator where it is.
LEMMA PaceKept ==
  ASSUME PaceInv, UNCHANGED <<fired, base, gen, batch, emitted>>, count'.written = count.written,
         pc' = "build" => pc = "build", Trying' => Trying /\ (pc = "after" => pc' = "after"),
         pc' \in {"record", "rotate", "write", "flush", "retain"}
            => pc \in {"record", "rotate", "write", "flush", "retain"}
  PROVE  PaceInv'
  BY DEF PaceInv

\* The pace over a step that leaves the try block.
LEMMA PaceLeft ==
  ASSUME PaceInv, pc' # "build", ~Trying', UNCHANGED <<gen, batch>> \/ gen' = "closed" \/ batch' = <<>>
  PROVE  PaceInv'
  BY DEF PaceInv, Trying

\* The pace over every step.
LEMMA PaceNext == IInv /\ PaceInv /\ [Next]_vars => PaceInv'
<1> SUFFICES ASSUME IInv, PaceInv, [Next]_vars PROVE PaceInv'
  OBVIOUS
<1> USE DEF fileVars, loopVars, pastVars, sessionVars
<1>0. TypeOK /\ count \in Count /\ count.written \in Nat /\ emitted \in Nat
  BY DEF IInv, TypeOK, SessionTypeOK, Count
<1>1. CASE BuildFails \/ BodyFails \/ Interrupt \/ LoopEnds \/ StopHeartbeat
           \/ JoinHeartbeat \/ CloseOutput \/ FinalStatus
  <2>1. pc' # "build" /\ ~Trying' /\ UNCHANGED <<gen, batch>>
    BY <1>1 DEF BuildFails, BodyFails, Interrupt, LoopEnds, StopHeartbeat, JoinHeartbeat, CloseOutput,
               FinalStatus, Trying
  <2> QED BY <2>1, PaceLeft
<1>2. CASE Signal \/ GeneratorFails \/ Exit \/ Kill
  <2>1. pc' # "build" /\ ~Trying'
    BY <1>2 DEF Signal, GeneratorFails, Exit, Kill, Gone, Trying
  <2>2. UNCHANGED <<gen, batch>> \/ gen' = "closed" \/ batch' = <<>>
    BY <1>2, <1>0, ConfigAssumption DEF Signal, Stop, GeneratorFails, AttachFails, AttachUnseen, Cleanup, Exit, Kill, Gone,
               SessionReset, TypeOK
  <2> QED BY <2>1, <2>2, PaceLeft
<1>3. CASE Start
  <2>1. count = NoCount /\ emitted = 0 /\ UNCHANGED <<fired, base, gen, batch, emitted, count>> /\ pc' = "open"
        /\ gen = "new"
    BY <1>3 DEF Start, IInv, IdleInv
  <2> QED BY <2>1 DEF PaceInv, NoCount
<1>4. CASE Restart
  <2>1. pc' = "build" /\ base' = fired' /\ UNCHANGED <<gen, batch>> /\ ~Trying'
    BY <1>4 DEF Restart, Trying
  <2> QED BY <2>1 DEF PaceInv
<1>5. CASE OpenOutput \/ TakeRecord \/ WriteLine \/ Flush \/ TrimOldest \/ Persist \/ PublishRecord
  <2>1. UNCHANGED <<fired, base, gen, batch, emitted, count>>
    BY <1>5 DEF OpenOutput, TakeRecord, WriteLine, Flush, TrimOldest, Persist, PublishRecord
  <2>2. /\ pc' # "build" /\ Trying /\ pc # "after"
        /\ pc' \in {"record", "rotate", "write", "flush", "retain"}
              => pc \in {"record", "rotate", "write", "flush", "retain"}
    BY <1>5 DEF OpenOutput, TakeRecord, WriteLine, Flush, TrimOldest, Persist, PublishRecord, Trying
  <2> QED BY <2>1, <2>2, PaceKept
<1>6. CASE RotateStep \/ RetryWrite \/ CountRead \/ CountEvent
  <2>1. UNCHANGED <<fired, base, gen, batch, emitted>>
    BY <1>6 DEF RotateStep, RetryWrite, CountRead, CountEvent
  <2>2. \/ UNCHANGED count \/ count' = [count EXCEPT !.rotations = @ + 1]
        \/ count' = [count EXCEPT !.backpressure = @ + 1]
        \/ count' = [count EXCEPT !.read = @ + 1] \/ count' = [count EXCEPT !.events = @ + 1]
    BY <1>6 DEF RotateStep, RetryWrite, CountRead, CountEvent
  <2>3. count'.written = count.written
    BY <1>0, <2>2 DEF Count
  <2>4. /\ pc' # "build" /\ Trying /\ pc # "after"
        /\ pc' \in {"record", "rotate", "write", "flush", "retain"}
              => pc \in {"record", "rotate", "write", "flush", "retain"}
    BY <1>6 DEF RotateStep, RetryWrite, CountRead, CountEvent, Trying
  <2> QED BY <2>1, <2>3, <2>4, PaceKept
<1>7. CASE CountWritten
  <2>1. UNCHANGED <<fired, base, gen, batch, emitted>> /\ pc = "retain" /\ pc' \in {"ingest", "publish"}
        /\ count' = [count EXCEPT !.written = @ + 1, !.shed = @ + shed]
    BY <1>7 DEF CountWritten
  <2>2. count'.written = count.written + 1
    BY <1>0, <2>1 DEF Count
  <2>3. Trying /\ pc # "after"
    BY <2>1 DEF Trying
  <2> QED BY <1>0, <2>1, <2>2, <2>3 DEF PaceInv
<1>8. CASE Heartbeat \/ Tick \/ UNCHANGED vars
  <2>1. UNCHANGED <<fired, base, gen, batch, emitted, count, pc>>
    BY <1>8 DEF Heartbeat, HeartbeatSnapshot, HeartbeatWrite, HeartbeatEnd, Tick, vars, agentVars
  <2> QED BY <2>1, PaceKept DEF Trying
<1>9. CASE DropGenerator
  <2>1. pc' \in {"returned", "raised"} /\ gen' = "closed"
    BY <1>9 DEF DropGenerator, Cleanup
  <2>2. pc' # "build" /\ ~Trying'
    BY <2>1 DEF Trying
  <2> QED BY <2>1, <2>2, PaceLeft
<1>10. CASE Generate
  <2>1. pc = "next" /\ Trying /\ count.written <= emitted /\ UNCHANGED <<count, base>>
    BY <1>10 DEF Generate, KeepLoop, PaceInv, Trying
  <2>2. CASE MockNext
    <3>1. \/ gen' = "yielded" /\ pc' = "record" /\ emitted' = emitted + 1
          \/ gen' = "closed" /\ pc' = "after" /\ emitted' = emitted
      BY <2>2 DEF MockNext, Deliver
    <3> QED BY <1>0, <2>1, <3>1 DEF PaceInv
  <2>3. ASSUME pc' \in {"next", "after"}, UNCHANGED emitted,
               gen' \in {"new", "round", "poll", "drain"} => batch' = <<>>,
               gen' # "closed" \/ pc' = "after"
        PROVE  PaceInv'
    BY <2>1, <2>3 DEF PaceInv
  <2>4. CASE LinuxNext
    <3>1. CASE \E S \in SUBSET Probes : Attach(S) /\ Notify /\ UNCHANGED <<pc, hand>>
      BY <2>1, <2>3, <3>1 DEF Attach, PaceInv
    <3>2. CASE SourceGone /\ pc' = "after"
      BY <2>3, <3>2 DEF SourceGone
    <3>3. CASE BeginRound(conf.limit) /\ UNCHANGED pc
      BY <2>1, <2>3, <3>3 DEF BeginRound, PaceInv
    <3>4. CASE SkipProbe /\ UNCHANGED pc
      BY <2>1, <2>3, <3>4 DEF SkipProbe, PaceInv
    <3>5. CASE (\E k \in 0..MaxEvents, ok \in BOOLEAN : Poll(conf.limit, conf.queue, k, ok)) /\ UNCHANGED pc
      BY <2>1, <2>3, <3>5 DEF Poll, PaceInv
    <3>6. CASE Drain /\ UNCHANGED pc
      BY <2>1, <2>3, <3>6 DEF Drain
    <3>7. CASE Yield(conf.limit) /\ Deliver(Head(batch))
      <4>1. gen' = "yielded" /\ pc' = "record" /\ emitted' = emitted + 1
        BY <3>7 DEF Yield, Deliver
      <4> QED BY <1>0, <2>1, <4>1 DEF PaceInv
    <3>8. CASE BatchDone(conf.limit) /\ UNCHANGED pc
      BY <2>1, <2>3, <3>8 DEF BatchDone
    <3>9. CASE EndRound(conf.limit) /\ UNCHANGED pc
      BY <2>1, <2>3, <3>9 DEF EndRound, RoundOver, PaceInv
    <3>10. CASE Finish(conf.limit) /\ pc' = "after"
      BY <2>3, <3>10 DEF Finish, Cleanup
    <3> QED BY <2>4, <3>1, <3>2, <3>3, <3>4, <3>5, <3>6, <3>7, <3>8, <3>9, <3>10 DEF LinuxNext
  <2> QED BY <1>10, <2>2, <2>4 DEF Generate
<1> QED BY <1>1, <1>2, <1>3, <1>4, <1>5, <1>6, <1>7, <1>8, <1>9, <1>10 DEF Next, Record, Ending

\* A yield moves the head of the batch into the hand.
LEMMA AccountYielded ==
  ASSUME TypeOK, DropInv, SeenInv, Serving' => Serving, hand = <<>>, batch # <<>>,
         hand' = <<Head(batch)>>, batch' = Tail(batch),
         UNCHANGED <<log, queue, dropped, fired, base>>
  PROVE  DropInv' /\ SeenInv'
<1>1. \A e : Placed(hand', batch', queue', e) <=> Placed(hand, batch, queue, e)
  <2>1. \A e : Within(e, batch) <=> Within(e, hand') \/ Within(e, batch')
    BY FlowTypes, WithinHead
  <2> QED BY <2>1, WithinFew DEF Placed
<1>2. DropInv'
  BY <1>1, DropKept
<1>3. SeenInv'
  BY <1>1, SeenKept
<1> QED BY <1>2, <1>3

\* _drain_probe moves the queue of one probe into the empty batch.
LEMMA AccountDrained ==
  ASSUME TypeOK, FlowInv, DropInv, SeenInv, Serving' => Serving, batch = <<>>, NEW d \in Probes,
         batch' = queue[d], queue' = [queue EXCEPT ![d] = <<>>],
         UNCHANGED <<log, hand, dropped, fired, base>>
  PROVE  DropInv' /\ SeenInv'
<1>1. \A e \in Event : Placed(hand', batch', queue', e) <=> Placed(hand, batch, queue, e)
  <2> SUFFICES ASSUME NEW e \in Event
               PROVE  Within(e, batch') \/ Within(e, queue'[e[1]]) <=> Within(e, batch) \/ Within(e, queue[e[1]])
    BY DEF Placed
  <2>1. e[1] \in Probes /\ queue \in [Probes -> Seq(Event)] /\ ~Within(e, batch)
    BY WithinFew DEF Event, TypeOK, SessionTypeOK
  <2>2. CASE e[1] = d
    <3>1. queue'[e[1]] = <<>>
      BY <2>1, <2>2
    <3> QED BY <2>1, <2>2, <3>1, WithinFew
  <2>3. CASE e[1] # d
    <3>1. queue'[e[1]] = queue[e[1]]
      BY <2>1, <2>3
    <3>2. ~Within(e, queue[d])
      BY <2>3 DEF Within, FlowInv, QueueFlow
    <3> QED BY <2>1, <3>1, <3>2
  <2> QED BY <2>2, <2>3
<1>2. DropInv'
  BY <1>1, DropKept
<1>3. SeenInv'
  BY <1>1, SeenKept
<1> QED BY <1>2, <1>3

\* A new event is nowhere yet.
LEMMA FreshIsNowhere ==
  ASSUME TypeOK, FlowInv, DropInv, NEW p \in Probes, NEW n \in Nat \ {0}
  PROVE  /\ <<p, fired[p] + n>> \in Event /\ <<p, fired[p] + n>> \notin dropped
         /\ ~Within(<<p, fired[p] + n>>, log) /\ ~Placed(hand, batch, queue, <<p, fired[p] + n>>)
<1>1. fired[p] \in Nat
  BY DEF TypeOK, SessionTypeOK
<1>2. PICK e : e = <<p, fired[p] + n>>
  OBVIOUS
<1>3. e \in Event /\ ~Captured(fired, e)
  BY <1>1, <1>2 DEF Event, Captured
<1> QED BY <1>2, <1>3, PlacedIsCaptured DEF DropInv

\* The mock collector's next record goes into the hand.
LEMMA AccountMocked ==
  ASSUME TypeOK, FlowInv, DropInv, SeenInv, Serving' => Serving, hand = <<>>, NEW p \in Probes,
         hand' = << <<p, fired[p] + 1>> >>, fired' = [fired EXCEPT ![p] = @ + 1],
         UNCHANGED <<log, batch, queue, dropped, base>>
  PROVE  DropInv' /\ SeenInv'
<1>0. fired \in [Probes -> Nat] /\ fired[p] \in Nat /\ SessionTypeOK /\ base \in [Probes -> Nat]
  BY DEF TypeOK, SessionTypeOK
<1>1. PICK new : new = <<p, fired[p] + 1>>
  OBVIOUS
<1>2. new \notin dropped
  BY <1>1, FreshIsNowhere
<1>3. \A e : Placed(hand', batch', queue', e) <=> e = new \/ Placed(hand, batch, queue, e)
  BY <1>1, WithinFew DEF Placed
<1>4. DropInv'
  <2>1. \A e \in dropped : Captured(fired', e)
    BY <1>0, Fresh DEF DropInv, SessionTypeOK
  <2> QED BY <1>2, <1>3, <2>1 DEF DropInv
<1>5. SeenInv'
  <2> SUFFICES ASSUME Serving', NEW q \in Probes, NEW n \in base[q] + 1 .. fired'[q]
               PROVE  \/ <<q, n>> \in dropped
                      \/ Within(<<q, n>>, log) \/ Placed(hand', batch', queue', <<q, n>>)
    BY DEF SeenInv
  <2>1. CASE q = p /\ n = fired[p] + 1
    BY <1>1, <1>3, <2>1
  <2>2. CASE ~(q = p /\ n = fired[p] + 1)
    <3>1. fired'[q] = IF q = p THEN fired[q] + 1 ELSE fired[q]
      BY <1>0
    <3>2. n \in base[q] + 1 .. fired[q]
      BY <1>0, <2>2, <3>1
    <3> QED BY <1>3, <3>2 DEF SeenInv
  <2> QED BY <2>1, <2>2
<1> QED BY <1>4, <1>5

\* The perf callbacks put a new event into the queue, or count it as dropped.
LEMMA AccountPolled ==
  ASSUME TypeOK, FlowInv, DropInv, SeenInv, Serving' => Serving, NEW p \in Probes, NEW k \in Nat, NEW max \in Nat,
         Enqueue(p, k, max), UNCHANGED <<log, batch, hand, base>>
  PROVE  DropInv' /\ SeenInv'
<1>0. /\ fired \in [Probes -> Nat] /\ fired[p] \in Nat /\ SessionTypeOK /\ base \in [Probes -> Nat]
      /\ queue \in [Probes -> Seq(Event)] /\ fired' = [fired EXCEPT ![p] = @ + k]
      /\ \A q \in Probes : q # p => queue'[q] = queue[q]
  BY DEF TypeOK, SessionTypeOK, Enqueue
<1>1. PICK take \in Nat : /\ take <= k
                          /\ queue'[p] = queue[p] \o [i \in 1..take |-> <<p, fired[p] + i>>]
                          /\ dropped' = dropped \cup {<<p, fired[p] + i>> : i \in take + 1 .. k}
  BY <1>0, EnqueuedPart
<1>2. PICK new : new = [i \in 1..take |-> <<p, fired[p] + i>>]
  OBVIOUS
<1>3. /\ new \in Seq(Event) /\ queue[p] \in Seq(Event)
      /\ \A e : Within(e, new) <=> \E i \in 1..take : e = <<p, fired[p] + i>>
  <2>1. \A i \in 1..take : <<p, fired[p] + i>> \in Event
    BY <1>0 DEF Event
  <2>2. DOMAIN new = 1..take /\ \A i \in 1..take : new[i] = <<p, fired[p] + i>>
    BY <1>2
  <2>3. new \in Seq(Event)
    BY <1>2, <2>1
  <2> QED BY <1>0, <2>2, <2>3 DEF Within
<1>4. \A e : Within(e, queue'[p]) <=> Within(e, queue[p]) \/ \E i \in 1..take : e = <<p, fired[p] + i>>
  <2>1. queue'[p] = queue[p] \o new
    BY <1>1, <1>2
  <2>2. \A e : Within(e, queue[p] \o new) <=> Within(e, queue[p]) \/ Within(e, new)
    BY <1>3, WithinConcat
  <2> QED BY <1>3, <2>1, <2>2, Zenon
<1>5. \A e \in Event : Placed(hand', batch', queue', e) <=>
          Placed(hand, batch, queue, e) \/ \E i \in 1..take : e = <<p, fired[p] + i>>
  <2> SUFFICES ASSUME NEW e \in Event
               PROVE  Within(e, queue'[e[1]]) <=>
                        Within(e, queue[e[1]]) \/ \E i \in 1..take : e = <<p, fired[p] + i>>
    BY DEF Placed
  <2>1. CASE e[1] = p
    BY <1>4, <2>1
  <2>2. CASE e[1] # p
    <3>1. e[1] \in Probes /\ \A i \in 1..take : e # <<p, fired[p] + i>>
      BY <2>2 DEF Event
    <3> QED BY <1>0, <2>2, <3>1
  <2> QED BY <2>1, <2>2
<1>6. ASSUME NEW e \in dropped
      PROVE  Captured(fired', e) /\ ~Within(e, log') /\ ~Placed(hand', batch', queue', e)
  <2>1. e \in Event /\ Captured(fired, e) /\ ~Within(e, log) /\ ~Placed(hand, batch, queue, e)
    BY <1>0 DEF DropInv, SessionTypeOK
  <2>2. \A i \in 1..take : e # <<p, fired[p] + i>>
    BY FreshIsNowhere
  <2> QED BY <1>0, <1>5, <2>1, <2>2, Fresh
<1>7. ASSUME NEW n \in take + 1 .. k
      PROVE  /\ Captured(fired', <<p, fired[p] + n>>) /\ ~Within(<<p, fired[p] + n>>, log')
             /\ ~Placed(hand', batch', queue', <<p, fired[p] + n>>)
  <2>1. n \in Nat \ {0} /\ n <= k /\ n > take
    BY <1>1
  <2>2. PICK e : e = <<p, fired[p] + n>>
    OBVIOUS
  <2>3. e \in Event /\ ~Within(e, log) /\ ~Placed(hand, batch, queue, e)
    BY <2>1, <2>2, FreshIsNowhere
  <2>4. \A i \in 1..take : e # <<p, fired[p] + i>>
    BY <1>0, <2>1, <2>2
  <2>5. Captured(fired', e)
    BY <1>0, <2>1, <2>2, Fresh
  <2> QED BY <1>5, <2>2, <2>3, <2>4, <2>5
<1>8. DropInv'
  BY <1>1, <1>6, <1>7 DEF DropInv
<1>9. SeenInv'
  <2> SUFFICES ASSUME Serving', NEW q \in Probes, NEW n \in base[q] + 1 .. fired'[q]
               PROVE  \/ <<q, n>> \in dropped'
                      \/ Within(<<q, n>>, log) \/ Placed(hand', batch', queue', <<q, n>>)
    BY DEF SeenInv
  <2>1. n \in Nat \ {0} /\ <<q, n>> \in Event
    BY <1>0 DEF Event
  <2>2. CASE n <= fired[q]
    <3>1. n \in base[q] + 1 .. fired[q]
      BY <1>0, <2>1, <2>2
    <3> QED BY <1>1, <1>5, <2>1, <3>1 DEF SeenInv
  <2>3. CASE n > fired[q]
    <3>1. q = p /\ fired'[p] = fired[p] + k
      BY <1>0, <2>3
    <3>2. PICK i \in 1..k : n = fired[p] + i
      <4>1. n - fired[p] \in 1..k /\ n = fired[p] + (n - fired[p])
        BY <1>0, <2>3, <3>1
      <4> QED BY <4>1
    <3>3. CASE i <= take
      <4>1. i \in 1..take
        BY <3>3
      <4> QED BY <1>5, <2>1, <3>1, <3>2, <4>1
    <3>4. CASE i > take
      <4>1. i \in take + 1 .. k
        BY <1>1, <3>4
      <4> QED BY <1>1, <3>1, <3>2, <4>1
    <3> QED BY <3>3, <3>4
  <2> QED BY <1>0, <2>1, <2>2, <2>3
<1> QED BY <1>8, <1>9

\* One step of the generator.
LEMMA AccountGenerated ==
  ASSUME IInv, FlowInv, AccountInv, Generate PROVE DropInv' /\ SeenInv'
<1>1. /\ TypeOK /\ SessionTypeOK /\ pc = "next" /\ Trying /\ hand = <<>> /\ DropInv /\ SeenInv /\ PaceInv
      /\ UNCHANGED <<log, conf, base>> /\ emitted \in Nat /\ conf.limit \in Int
  BY ConfTypes DEF IInv, TypeOK, SessionTypeOK, Trying, Generate, KeepLoop, fileVars, pastVars, AccountInv, HandInv
<1>2. ASSUME UNCHANGED <<hand, queue, dropped, fired>>, batch' = batch \/ batch' = <<>>,
             Serving' => Serving /\ batch' = batch
      PROVE  DropInv' /\ SeenInv'
  <2>1. \A e : Placed(hand', batch', queue', e) => Placed(hand, batch, queue, e)
    BY <1>2, WithinFew DEF Placed
  <2>2. Serving' => Serving /\ \A e : Placed(hand, batch, queue, e) => Placed(hand', batch', queue', e)
    BY <1>2
  <2> QED BY <1>1, <1>2, <2>1, <2>2, DropKept, SeenKept
<1>3. ASSUME UNCHANGED <<hand, dropped, fired>>, gen' = "closed", UNCHANGED <<queue, batch>> \/ Cleanup
      PROVE  DropInv' /\ SeenInv'
  <2>1. \A e \in Event : Within(e, log') \/ Placed(hand', batch', queue', e)
                           => Within(e, log) \/ Placed(hand, batch, queue, e)
    BY <1>1, <1>3, NothingNew DEF Cleanup
  <2>2. ~Serving'
    BY <1>3 DEF Serving
  <2> QED BY <1>1, <1>3, <2>1, <2>2, DropKept, SeenKept
<1>4. CASE MockNext
  <2>1. CASE emitted < Len(ProbeOrder)
    <3>1. emitted + 1 \in DOMAIN ProbeOrder
      BY <1>1, <2>1, ProbeTypes DEF SessionTypeOK
    <3>2. PICK p \in Probes : p = ProbeOrder[emitted + 1]
      BY <3>1 DEF Probes
    <3>3. hand' = << <<p, fired[p] + 1>> >> /\ fired' = [fired EXCEPT ![p] = @ + 1]
          /\ UNCHANGED <<queue, batch, dropped>> /\ emitted' = emitted + 1 /\ conf.source = "mock"
      BY <1>4, <2>1, <3>2 DEF MockNext, Deliver
    <3>4. gen # "closed"
      BY <1>1 DEF PaceInv
    <3>5. Serving' => Serving
      BY <1>1, <3>3, <3>4 DEF Serving, Reached
    <3> QED BY <1>1, <3>3, <3>5, AccountMocked
  <2>2. CASE ~(emitted < Len(ProbeOrder))
    <3>1. UNCHANGED <<fired, hand, queue, batch, dropped>> /\ gen' = "closed"
      BY <1>4, <2>2 DEF MockNext
    <3> QED BY <1>3, <3>1
  <2> QED BY <2>1, <2>2
<1>5. CASE LinuxNext
  <2>1. conf.source = "linux"
    BY <1>5 DEF LinuxNext
  <2>2. CASE \E S \in SUBSET Probes : Attach(S) /\ Notify /\ UNCHANGED <<pc, hand>>
    BY <1>1, <1>2, <2>2 DEF Attach, Serving
  <2>3. CASE SourceGone /\ UNCHANGED hand
    BY <1>3, <2>3 DEF SourceGone
  <2>4. CASE BeginRound(conf.limit) /\ UNCHANGED <<pc, hand>>
    BY <1>1, <1>2, <2>4 DEF BeginRound, Serving
  <2>5. CASE SkipProbe /\ UNCHANGED <<pc, hand>>
    BY <1>1, <1>2, <2>5 DEF SkipProbe, Serving
  <2>6. ASSUME NEW k \in 0..MaxEvents, NEW ok \in BOOLEAN,
               Poll(conf.limit, conf.queue, k, ok), UNCHANGED <<pc, hand>>
        PROVE  DropInv' /\ SeenInv'
    <3>1. k \in Nat /\ conf.queue \in Nat
      BY <1>1, EventsAssumption, ConfTypes
    <3>2. PICK p \in Probes : p = ProbeOrder[turn]
      BY <1>1, <2>6, TurnType DEF Poll
    <3>3. Enqueue(p, k, conf.queue) /\ UNCHANGED batch /\ Serving
      BY <1>1, <2>6, <3>2 DEF Poll, Serving
    <3> QED BY <1>1, <2>6, <3>1, <3>3, AccountPolled
  <2>7. CASE Drain /\ UNCHANGED <<pc, hand>>
    <3>1. turn <= Len(ProbeOrder) /\ batch = <<>>
      BY <1>1, <2>1, <2>7 DEF Drain, IInv, SourceInv, PaceInv
    <3>2. PICK d \in Probes : d = ProbeOrder[turn]
      BY <1>1, <3>1, TurnType
    <3>3. batch' = queue[d] /\ queue' = [queue EXCEPT ![d] = <<>>] /\ UNCHANGED <<fired, dropped, emitted>>
          /\ gen # "closed"
      BY <2>7, <3>2 DEF Drain
    <3>4. Serving' => Serving
      BY <1>1, <3>3 DEF Serving
    <3> QED BY <1>1, <2>7, <3>1, <3>3, <3>4, AccountDrained
  <2>8. CASE Yield(conf.limit) /\ Deliver(Head(batch))
    <3>1. batch # <<>> /\ hand' = <<Head(batch)>> /\ batch' = Tail(batch) /\ UNCHANGED <<fired, queue, dropped>>
          /\ emitted' = emitted + 1 /\ gen # "closed"
      BY <2>8 DEF Yield, Deliver
    <3>2. Serving' => Serving
      BY <1>1, <3>1 DEF Serving, Reached
    <3> QED BY <1>1, <3>1, <3>2, AccountYielded
  <2>9. CASE BatchDone(conf.limit) /\ UNCHANGED <<pc, hand>>
    BY <1>1, <1>2, <2>9 DEF BatchDone, Serving
  <2>10. CASE EndRound(conf.limit) /\ UNCHANGED <<pc, hand>>
    BY <1>1, <1>2, <2>10 DEF EndRound, RoundOver, Serving
  <2>11. CASE Finish(conf.limit) /\ UNCHANGED hand
    BY <1>3, <2>11 DEF Finish, Cleanup
  <2> QED BY <1>5, <2>2, <2>3, <2>4, <2>5, <2>6, <2>7, <2>8, <2>9, <2>10, <2>11 DEF LinuxNext
<1> QED BY <1>4, <1>5 DEF Generate

\* The dropped and the seen over every step.
LEMMA AccountNext == IInv /\ FlowInv /\ AccountInv /\ [Next]_vars => DropInv' /\ SeenInv'
<1> SUFFICES ASSUME IInv, FlowInv, AccountInv, [Next]_vars PROVE DropInv' /\ SeenInv'
  OBVIOUS
<1> USE DEF fileVars, loopVars, pastVars, sessionVars
<1>0. /\ TypeOK /\ HandInv /\ PaceInv /\ DropInv /\ SeenInv
      /\ emitted \in Nat /\ conf.limit \in Int /\ count.written \in Nat
  BY ConfTypes DEF IInv, AccountInv, TypeOK, SessionTypeOK, Count
\* Steps that move no record.
<1>1. ASSUME UNCHANGED <<log, hand, batch, queue, dropped, fired, base, conf, gen, emitted>>, Trying' => Trying
      PROVE  DropInv' /\ SeenInv'
  <2>1. Serving' => Serving
    BY <1>1 DEF Serving
  <2> QED BY <1>0, <1>1, <2>1, DropKept, SeenKept
\* Steps that leave the try block.
<1>2. ASSUME UNCHANGED <<dropped, fired>>, ~Serving', UNCHANGED log \/ Spilled,
             hand' = hand \/ hand' = <<>>, batch' = batch \/ batch' = <<>>,
             queue' = queue \/ queue' = [p \in Probes |-> <<>>]
      PROVE  DropInv' /\ SeenInv'
  <2>1. \A e \in Event : Within(e, log') \/ Placed(hand', batch', queue', e)
                           => Within(e, log) \/ Placed(hand, batch, queue, e)
    BY <1>0, <1>2, NothingNew
  <2>2. DropInv'
    BY <1>0, <1>2, <2>1, DropKept
  <2>3. SeenInv'
    BY <1>2 DEF SeenInv
  <2> QED BY <2>2, <2>3
<1>3. CASE OpenOutput \/ RotateStep \/ WriteLine \/ RetryWrite \/ TrimOldest \/ CountWritten \/ CountRead
           \/ Persist \/ CountEvent
  <2>1. UNCHANGED <<log, hand, batch, queue, dropped, fired, base, conf, gen, emitted>>
    BY <1>3 DEF OpenOutput, RotateStep, WriteLine, RetryWrite, TrimOldest, CountWritten, CountRead,
               Persist, CountEvent
  <2>2. Trying
    BY <1>3 DEF OpenOutput, RotateStep, WriteLine, RetryWrite, TrimOldest, CountWritten, CountRead,
               Persist, CountEvent, Trying
  <2> QED BY <1>1, <2>1, <2>2
<1>4. CASE Heartbeat \/ Tick \/ UNCHANGED vars
  <2>1. UNCHANGED <<log, hand, batch, queue, dropped, fired, base, conf, gen, emitted, pc>>
    BY <1>4 DEF Heartbeat, HeartbeatSnapshot, HeartbeatWrite, HeartbeatEnd, Tick, vars, agentVars
  <2> QED BY <1>1, <2>1 DEF Trying
<1>5. CASE BuildFails \/ BodyFails \/ Interrupt \/ LoopEnds \/ StopHeartbeat \/ JoinHeartbeat
           \/ FinalStatus \/ Restart
  <2>1. UNCHANGED <<log, hand, batch, queue, dropped, fired>>
    BY <1>5 DEF BuildFails, BodyFails, Interrupt, LoopEnds, StopHeartbeat, JoinHeartbeat, FinalStatus, Restart
  <2>2. ~Serving'
    BY <1>5 DEF BuildFails, BodyFails, Interrupt, LoopEnds, StopHeartbeat, JoinHeartbeat, FinalStatus, Restart,
               Serving, Trying
  <2> QED BY <1>2, <2>1, <2>2
<1>6. CASE Signal \/ GeneratorFails \/ DropGenerator
  <2>1. /\ UNCHANGED <<log, dropped, fired>> /\ (hand' = hand \/ hand' = <<>>)
        /\ batch' = batch \/ batch' = <<>>
        /\ queue' = queue \/ queue' = [p \in Probes |-> <<>>]
    BY <1>0, <1>6, ConfigAssumption
    DEF Signal, Stop, GeneratorFails, AttachFails, AttachUnseen, Cleanup, DropGenerator, TypeOK
  <2>2. ~Serving'
    BY <1>6 DEF Signal, GeneratorFails, DropGenerator, Serving, Trying
  <2> QED BY <1>2, <2>1, <2>2
<1>7. CASE CloseOutput \/ Exit \/ Kill
  <2>1. /\ UNCHANGED <<dropped, fired>> /\ (UNCHANGED log \/ Spilled)
        /\ hand' = hand \/ hand' = <<>>
        /\ batch' = batch \/ batch' = <<>>
        /\ queue' = queue \/ queue' = [p \in Probes |-> <<>>]
    BY <1>7 DEF CloseOutput, Spill, Exit, Kill, Gone, SessionReset
  <2>2. ~Serving'
    BY <1>7 DEF CloseOutput, Exit, Kill, Gone, Serving, Trying
  <2> QED BY <1>2, <2>1, <2>2
<1>8. CASE Start
  <2>1. UNCHANGED <<log, hand, batch, queue, dropped, fired, base>> /\ base = fired
    BY <1>0, <1>8 DEF Start, PaceInv
  <2>2. DropInv'
    BY <1>0, <2>1, DropKept
  <2>3. \A p \in Probes : base'[p] + 1 .. fired'[p] = {}
    <3>1. \A p \in Probes : fired[p] \in Nat
      BY <1>0 DEF TypeOK, SessionTypeOK
    <3> QED BY <2>1, <3>1
  <2> QED BY <2>2, <2>3 DEF SeenInv
<1>9. CASE Generate
  BY <1>9, AccountGenerated
<1>10. CASE TakeRecord
  <2>1. UNCHANGED <<log, batch, queue, dropped, fired, base, conf, gen, emitted>> /\ Trying
    BY <1>10 DEF TakeRecord, Trying
  <2>2. CASE Reached(conf.limit, count.written)
    <3>1. count.written + 1 <= emitted /\ hand' = <<>>
      BY <1>0, <1>10, <2>2 DEF TakeRecord, PaceInv
    <3>2. Reached(conf.limit, emitted)
      BY <1>0, <2>2, <3>1 DEF Reached
    <3>3. ~Serving'
      BY <2>1, <3>2 DEF Serving
    <3> QED BY <1>2, <2>1, <3>1, <3>3
  <2>3. CASE ~Reached(conf.limit, count.written)
    BY <1>1, <1>10, <2>1, <2>3 DEF TakeRecord
  <2> QED BY <2>2, <2>3
<1>11. CASE Flush
  <2>1. /\ UNCHANGED <<hand, batch, queue, dropped, fired, base, conf, gen, emitted>> /\ Spilled
        /\ Trying
    BY <1>11 DEF Flush, Spill, Trying
  <2>2. \A e \in Event : Within(e, log') \/ Placed(hand', batch', queue', e)
                           => Within(e, log) \/ Placed(hand, batch, queue, e)
    BY <1>0, <2>1, NothingNew
  <2>3. Serving' => Serving
    BY <2>1 DEF Serving
  <2>4. \A e : Within(e, log) => Within(e, log')
    <3>1. log \in Seq(Event) /\ buffer \in Seq(Event) /\ log' = log \o buffer
      BY <1>0, <2>1, FlowTypes DEF Spilled
    <3> QED BY <3>1, WithinConcat
  <2>5. \A e : Placed(hand, batch, queue, e) => Placed(hand', batch', queue', e)
    BY <2>1
  <2> QED BY <1>0, <2>1, <2>2, <2>3, <2>4, <2>5, DropKept, SeenKept
<1>12. CASE PublishRecord
  <2>1. UNCHANGED <<log, batch, queue, dropped, fired, base, conf, gen, emitted>> /\ Trying /\ hand' = <<>>
        /\ Within(hand[1], log)
    BY <1>0, <1>12 DEF PublishRecord, Trying, HandInv
  <2>2. \A e \in Event : Within(e, log') \/ Placed(hand', batch', queue', e)
                           => Within(e, log) \/ Placed(hand, batch, queue, e)
    BY <2>1, WithinFew DEF Placed
  <2>3. \A e : Within(e, hand) => Within(e, log)
    BY <1>0, <2>1, FlowTypes DEF Within
  <2>4. \A e \in Event : Within(e, log) \/ Placed(hand, batch, queue, e)
                           => Within(e, log') \/ Placed(hand', batch', queue', e)
    BY <2>1, <2>3 DEF Placed
  <2>5. Serving' => Serving
    BY <2>1 DEF Serving
  <2> QED BY <1>0, <2>1, <2>2, <2>4, <2>5, DropKept, SeenKept
<1> QED
  BY <1>3, <1>4, <1>5, <1>6, <1>7, <1>8, <1>9, <1>10, <1>11, <1>12 DEF Next, Record, Ending

\* At the start nothing has been captured.
LEMMA AccountInit == Init => AccountInv
<1> SUFFICES ASSUME Init PROVE AccountInv
  OBVIOUS
<1>1. pc = "build" /\ hand = <<>> /\ base = fired /\ gen = "new" /\ batch = <<>> /\ dropped = {} /\ ~Trying
  BY DEF Init, SessionInit, Trying
<1> QED BY <1>1 DEF AccountInv, HandInv, PaceInv, DropInv, SeenInv, Serving

\* AccountInv says of every event of this process what EventsAccounted asks.
LEMMA AccountMeaning == ASSUME TypeOK, AccountInv PROVE EventsAccounted
<1> SUFFICES ASSUME Trying, gen # "closed", ~Reached(conf.limit, emitted),
                    NEW p \in Probes, NEW n \in base[p] + 1 .. fired[p]
             PROVE  (<<p, n>> \in dropped) # (Written(<<p, n>>) \/ InFlight(<<p, n>>))
  BY DEF EventsAccounted
<1>1. PICK e : e = <<p, n>>
  OBVIOUS
<1>2. Written(e) <=> Within(e, log)
  BY DEF Written, Within
<1>3. InFlight(e) <=> Placed(hand, batch, queue, e)
  BY DEF InFlight, Placed, Within
<1>4. e \in dropped \/ Within(e, log) \/ Placed(hand, batch, queue, e)
  BY <1>1 DEF AccountInv, SeenInv, Serving
<1>5. e \in dropped => ~Within(e, log) /\ ~Placed(hand, batch, queue, e)
  BY DEF AccountInv, DropInv
<1>6. (e \in dropped) # (Written(e) \/ InFlight(e))
  BY <1>2, <1>3, <1>4, <1>5
<1> QED BY <1>1, <1>6

\* Until the agent stops or its limit is reached, every event captured by this
\* process is written, on its way, or counted as dropped, and what was counted as
\* dropped is never written, whatever the size of the queue and of the polls.
THEOREM AccountCorrect == Spec => []EventsAccounted
<1>1. Init => AccountInv
  BY AccountInit
<1>2. (IInv /\ FlowInv) /\ AccountInv /\ [Next]_vars => AccountInv'
  BY HandNext, PaceNext, AccountNext DEF AccountInv
<1>3. (IInv /\ FlowInv) /\ AccountInv => EventsAccounted
  BY AccountMeaning DEF IInv
<1> QED BY <1>1, <1>2, <1>3, FlowCorrect, PTL DEF Spec
=============================================================================
