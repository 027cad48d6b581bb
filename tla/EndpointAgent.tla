---------------------------- MODULE EndpointAgent ----------------------------
(***************************************************************************)
(* The endpoint agent of endpoint/agent.py: run_endpoint_agent and          *)
(* stream_endpoint_records.  Two threads share it.  The main thread pulls   *)
(* records from the collector's generator (BccSession), appends each to the *)
(* output file with retries, rotates and trims the output files, ingests    *)
(* the record and publishes the status file.  The heartbeat thread publishes*)
(* the status file too.  A signal can strike the main thread between any    *)
(* two steps, any I/O call can fail, and the process can be killed and      *)
(* started again on the files it left.                                      *)
(*                                                                          *)
(* A record is a pair <<probe, number>>; every line counts one unit of size.*)
(* What a failed flush leaves in the file object's buffer is written by the *)
(* next flush or close, as CPython's buffered writer does.                  *)
(***************************************************************************)
EXTENDS BccSession, FiniteSets

CONSTANTS
    Configs,       \* the configurations considered
    MaxRestarts    \* bound: starts of the agent after the first

ASSUME RestartAssumption == MaxRestarts \in Nat

\* rotate, bytes and limit are None when they are negative; rotate and bytes
\* are in lines.
ASSUME ConfigAssumption ==
    Configs \subseteq [source : {"mock", "linux"}, heartbeat : BOOLEAN, ingest : BOOLEAN,
                       limit : Int, rotate : Int, keep : Nat, bytes : Int, retries : Nat, queue : Nat]

VARIABLES
    conf,        \* the configuration
    pc,          \* where the main thread stands
    reason,      \* stopped_reason
    hand,        \* the record the loop works on, as a sequence of at most one
    rot,         \* the index _rotate_output_files has come to
    tries,       \* retries of _write_line_with_retries
    shed,        \* dropped_files of _enforce_output_retention
    buffer,      \* lines the open file object has not got to the disk
    count,       \* the counters the status reports
    failed,      \* last_error is set
    recent,      \* less than heartbeat_interval has passed since last_status_at
    hpc,         \* where the heartbeat thread stands
    hstop,       \* heartbeat_stop
    hsnap,       \* what the heartbeat thread has copied under the state lock
    disk,        \* the output files: 0 is active, i is the one named .i
    status,      \* the status file
    ingested,    \* the records persist_endpoint_record has stored
    log,         \* history: every line that ever got to the disk, in order
    base,        \* history: fired when this process started
    outcome,     \* history: how the run of the agent ended
    starts       \* restarts so far

fileVars  == <<disk, ingested, log>>
loopVars  == <<reason, hand, rot, tries, shed, buffer, count, failed>>
beatVars  == <<hpc, hstop, hsnap>>
pastVars  == <<base, outcome, starts, conf>>
agentVars == <<pc, loopVars, recent, beatVars, fileVars, status, pastVars>>
vars      == <<sessionVars, agentVars>>

NoCount == [written |-> 0, read |-> 0, events |-> 0, rotations |-> 0, shed |-> 0, backpressure |-> 0]

Snapshot(r) == [reason |-> r, count |-> count, error |-> failed, available |-> TRUE]

NoStatus == [reason |-> "none", count |-> NoCount, error |-> FALSE, available |-> TRUE]

Init ==
    /\ SessionInit
    /\ conf \in Configs
    /\ pc = "build" /\ reason = "exhausted" /\ hand = <<>>
    /\ rot = 0 /\ tries = 0 /\ shed = 0 /\ buffer = <<>>
    /\ count = NoCount /\ failed = FALSE /\ recent = FALSE
    /\ hpc = "off" /\ hstop = FALSE /\ hsnap = NoStatus
    /\ disk = [i \in 0..conf.keep |-> <<>>]
    /\ status = NoStatus /\ ingested = {} /\ log = <<>>
    /\ base = fired /\ outcome = "none" /\ starts = 0

-----------------------------------------------------------------------------
(* write_status.  The main thread takes its snapshot and replaces the file  *)
(* under status_write_lock, and nothing it publishes can change meanwhile:  *)
(* one step.  The heartbeat thread's snapshot and replacement are two.      *)

LockFree == hpc # "write"

Throttled(r) == r = "running" /\ conf.heartbeat /\ recent

WriteStatus(r) ==
    /\ LockFree
    /\ IF Throttled(r)
       THEN UNCHANGED <<status, recent>>
       ELSE status' = Snapshot(r) /\ recent' = conf.heartbeat

\* _notify_status: status_refresh_hook publishes "running".
Notify == WriteStatus("running")

NotifyIf(b) == IF b THEN Notify ELSE UNCHANGED <<status, recent>>

HeartbeatSnapshot ==
    /\ hpc = "wait" /\ ~hstop
    /\ hpc' = "write" /\ hsnap' = Snapshot("running") /\ recent' = TRUE
    /\ UNCHANGED <<sessionVars, pc, loopVars, hstop, fileVars, status, pastVars>>

\* The replacement of the status file, or its failure, which ends the thread.
HeartbeatWrite ==
    /\ hpc = "write" /\ hsnap' = NoStatus
    /\ \/ hpc' = "wait" /\ status' = hsnap
       \/ hpc' = "done" /\ UNCHANGED status
    /\ UNCHANGED <<sessionVars, pc, loopVars, recent, hstop, fileVars, pastVars>>

\* heartbeat_stop.wait returns true.
HeartbeatEnd ==
    /\ hpc = "wait" /\ hstop
    /\ hpc' = "done"
    /\ UNCHANGED <<sessionVars, pc, loopVars, recent, hstop, hsnap, fileVars, status, pastVars>>

\* heartbeat_interval passes.
Tick ==
    /\ recent /\ recent' = FALSE
    /\ UNCHANGED <<sessionVars, pc, loopVars, beatVars, fileVars, status, pastVars>>

-----------------------------------------------------------------------------
(* Start.                                                                   *)

\* _build_agent_collector raises: an error status, and no run at all.
BuildFails ==
    /\ pc = "build"
    /\ pc' = "raised" /\ outcome' = "failed" /\ failed' = TRUE
    /\ \E available \in BOOLEAN :
         /\ status' = [reason |-> IF available THEN "error" ELSE "collector_unavailable",
                       count |-> NoCount, error |-> TRUE, available |-> available]
         /\ reason' = status'.reason
    /\ UNCHANGED <<sessionVars, hand, rot, tries, shed, buffer, count, recent, beatVars,
                   fileVars, base, starts, conf>>

\* The first status, then the heartbeat thread.
Start ==
    /\ pc = "build"
    /\ WriteStatus("running")
    /\ hpc' = IF conf.heartbeat THEN "wait" ELSE "off"
    /\ pc' = "open"
    /\ UNCHANGED <<sessionVars, loopVars, hstop, hsnap, fileVars, pastVars>>

\* The output file is opened for append: the head of the try block.
OpenOutput ==
    /\ pc = "open" /\ pc' = "next"
    /\ UNCHANGED <<sessionVars, loopVars, recent, beatVars, fileVars, status, pastVars>>

-----------------------------------------------------------------------------
(* "for record in records": the generator runs while pc is "next".          *)

Deliver(r) == pc' = "record" /\ hand' = <<r>>

KeepLoop == UNCHANGED <<reason, rot, tries, shed, buffer, count, failed, beatVars, fileVars, pastVars>>

\* MockEndpointCollector.iter_records: one record per probe, then the end.
MockNext ==
    /\ conf.source = "mock"
    /\ IF emitted < Len(ProbeOrder)
       THEN LET p == ProbeOrder[emitted + 1]
            IN /\ fired[p] < MaxEvents
               /\ Deliver(<<p, fired[p] + 1>>)
               /\ fired' = [fired EXCEPT ![p] = @ + 1]
               /\ gen' = "yielded" /\ emitted' = emitted + 1
       ELSE gen' = "closed" /\ pc' = "after" /\ UNCHANGED <<hand, emitted, fired>>
    /\ UNCHANGED <<attached, turn, queue, batch, polled, stop, dropped, status, recent>>

LinuxNext ==
    /\ conf.source = "linux"
    /\ \/ \E S \in SUBSET Probes : Attach(S) /\ Notify /\ UNCHANGED <<pc, hand>>
       \/ SourceGone /\ pc' = "after" /\ UNCHANGED <<hand, status, recent>>
       \/ BeginRound(conf.limit) /\ UNCHANGED <<pc, hand, status, recent>>
       \/ SkipProbe /\ UNCHANGED <<pc, hand, status, recent>>
       \/ \E k \in 0..MaxEvents, ok \in BOOLEAN :
            /\ Poll(conf.limit, conf.queue, k, ok)
            /\ NotifyIf(~ok \/ dropped' # dropped)
            /\ UNCHANGED <<pc, hand>>
       \/ Drain /\ NotifyIf(batch' # <<>>) /\ UNCHANGED <<pc, hand>>
       \/ Yield(conf.limit) /\ Deliver(Head(batch)) /\ UNCHANGED <<status, recent>>
       \/ BatchDone(conf.limit) /\ UNCHANGED <<pc, hand, status, recent>>
       \/ EndRound(conf.limit) /\ UNCHANGED <<pc, hand, status, recent>>
       \/ Finish(conf.limit) /\ Notify /\ pc' = "after" /\ UNCHANGED hand

Generate == pc = "next" /\ (MockNext \/ LinuxNext) /\ KeepLoop

\* The generator raises inside next(): attach found no probe, an event did not
\* convert, or a notification could not write the status file.  cleanup()
\* notifies, if it can, before the consumer sees the exception; only the
\* notification of attach() fails outside the try block that ends in it.
GeneratorFails ==
    /\ pc = "next" /\ conf.source = "linux"
    /\ \/ /\ AttachFails \/ (gen \in {"round", "poll", "drain"} /\ Cleanup)
          /\ Notify \/ UNCHANGED <<status, recent>>
       \/ (\E S \in SUBSET Probes : AttachUnseen(S)) /\ UNCHANGED <<status, recent>>
    /\ pc' = "closing" /\ reason' = "error" /\ failed' = TRUE /\ hand' = <<>>
    /\ UNCHANGED <<rot, tries, shed, buffer, count, beatVars, fileVars, pastVars>>

-----------------------------------------------------------------------------
(* One record, from the head of the loop body to its status.                *)

\* A comparison that leaves out the line about to be written.
RotateLate == conf.rotate > 0 /\ Len(disk[0]) > conf.rotate

\* _should_rotate: tell() is the size of the active file.
ShouldRotate == conf.rotate > 0 /\ Len(disk[0]) > 0 /\ Len(disk[0]) + 1 > conf.rotate

TakeRecord ==
    /\ pc = "record"
    /\ IF Reached(conf.limit, count.written)
       THEN pc' = "after" /\ hand' = <<>> /\ UNCHANGED rot
       ELSE /\ pc' = IF ShouldRotate THEN "rotate" ELSE "write"
            /\ rot' = conf.keep
            /\ UNCHANGED hand
    /\ tries' = 0 /\ shed' = 0
    /\ UNCHANGED <<sessionVars, reason, buffer, count, failed, recent, beatVars, fileVars, status, pastVars>>

\* _rotate_output_files, one file operation a step, from the oldest file down:
\* unlink the oldest, rename .i to .i+1, rename the active file to .1 (or unlink
\* it when no rotated file is kept).  Then the active file is opened anew, or that
\* raises.
RotateStep ==
    /\ pc = "rotate"
    /\ disk' = IF rot = conf.keep THEN [disk EXCEPT ![rot] = <<>>]
               ELSE IF disk[rot] = <<>> THEN disk
               ELSE [disk EXCEPT ![rot] = <<>>, ![rot + 1] = disk[rot]]
    /\ IF rot = 0
       THEN /\ UNCHANGED rot
            /\ \/ pc' = "write" /\ count' = [count EXCEPT !.rotations = @ + 1] /\ UNCHANGED <<reason, failed>>
               \/ pc' = "closing" /\ reason' = "error" /\ failed' = TRUE /\ UNCHANGED count
       ELSE pc' = "rotate" /\ rot' = rot - 1 /\ UNCHANGED <<count, reason, failed>>
    /\ UNCHANGED <<sessionVars, hand, tries, shed, buffer, recent, beatVars,
                   ingested, log, status, pastVars>>

\* output.write(line)
WriteLine ==
    /\ pc = "write" /\ pc' = "flush"
    /\ buffer' = buffer \o hand
    /\ UNCHANGED <<sessionVars, reason, hand, rot, tries, shed, count, failed, recent, beatVars,
                   fileVars, status, pastVars>>

\* What the file object holds gets to the disk.
Spilled == disk' = [disk EXCEPT ![0] = @ \o buffer] /\ log' = log \o buffer

Spill == Spilled /\ buffer' = <<>>

\* output.flush() succeeds.
Flush ==
    /\ pc = "flush" /\ pc' = "retain"
    /\ Spill
    /\ UNCHANGED <<sessionVars, reason, hand, rot, tries, shed, count, failed, recent, beatVars,
                   ingested, status, pastVars>>

\* A loop that never gives up.
RetryForever == TRUE

\* retries < retry_count
RetryLeft == tries < conf.retries

\* output.flush() raises OSError and a retry is left: the line is written again.
RetryWrite ==
    /\ pc = "flush" /\ RetryLeft
    /\ pc' = "write" /\ tries' = tries + 1
    /\ count' = [count EXCEPT !.backpressure = @ + 1]
    /\ UNCHANGED <<sessionVars, reason, hand, rot, shed, buffer, failed, recent, beatVars,
                   fileVars, status, pastVars>>

\* _output_family_size: the lines of files 0 to i.
FamilySize(i) == LET size[j \in Nat] == IF j = 0 THEN Len(disk[0]) ELSE size[j - 1] + Len(disk[j])
                 IN size[i]

Rotated == {i \in 1..conf.keep : disk[i] # <<>>}

Overfull == conf.bytes > 0 /\ FamilySize(conf.keep) > conf.bytes /\ Rotated # {}

\* A sort without reverse=True.
NewestFirst(i) == \A j \in Rotated : i <= j

\* _rotated_output_files_oldest_first
OldestFirst(i) == \A j \in Rotated : j <= i

\* _enforce_output_retention, one unlink a step, the oldest rotated file first.
TrimOldest ==
    /\ pc = "retain" /\ Overfull
    /\ \E i \in Rotated : OldestFirst(i) /\ disk' = [disk EXCEPT ![i] = <<>>]
    /\ shed' = shed + 1
    /\ UNCHANGED <<sessionVars, pc, reason, hand, rot, tries, buffer, count, failed, recent, beatVars,
                   ingested, log, status, pastVars>>

\* The files fit: the record counts as written.
CountWritten ==
    /\ pc = "retain" /\ ~Overfull
    /\ pc' = IF conf.ingest THEN "ingest" ELSE "publish"
    /\ count' = [count EXCEPT !.written = @ + 1, !.shed = @ + shed]
    /\ UNCHANGED <<sessionVars, reason, hand, rot, tries, shed, buffer, failed, recent, beatVars,
                   fileVars, status, pastVars>>

\* An event that counts as written before it is stored.
CountReadAsEvent ==
    /\ pc = "ingest" /\ pc' = "persist"
    /\ count' = [count EXCEPT !.read = @ + 1, !.events = @ + 1]
    /\ UNCHANGED <<sessionVars, reason, hand, rot, tries, shed, buffer, failed, recent, beatVars,
                   fileVars, status, pastVars>>

CountRead ==
    /\ pc = "ingest" /\ pc' = "persist"
    /\ count' = [count EXCEPT !.read = @ + 1]
    /\ UNCHANGED <<sessionVars, reason, hand, rot, tries, shed, buffer, failed, recent, beatVars,
                   fileVars, status, pastVars>>

\* persist_endpoint_record: the trace line and the row of the event.
Persist ==
    /\ pc = "persist" /\ pc' = "count"
    /\ ingested' = ingested \cup {hand[1]}
    /\ UNCHANGED <<sessionVars, loopVars, recent, beatVars, disk, log, status, pastVars>>

CountEvent ==
    /\ pc = "count" /\ pc' = "publish"
    /\ count' = [count EXCEPT !.events = @ + 1]
    /\ UNCHANGED <<sessionVars, reason, hand, rot, tries, shed, buffer, failed, recent, beatVars,
                   fileVars, status, pastVars>>

PublishRecord ==
    /\ pc = "publish" /\ pc' = "next" /\ hand' = <<>>
    /\ WriteStatus("running")
    /\ UNCHANGED <<sessionVars, reason, rot, tries, shed, buffer, count, failed, beatVars, fileVars, pastVars>>

-----------------------------------------------------------------------------
(* The end of the loop, the handlers and the finally block.                 *)

\* The records have run out, or the limit broke the loop.
LoopEnds ==
    /\ pc = "after" /\ pc' = "closing"
    /\ reason' \in IF Reached(conf.limit, count.written) THEN {"limit"} ELSE {"exhausted", "idle"}
    /\ UNCHANGED <<sessionVars, hand, rot, tries, shed, buffer, count, failed, recent, beatVars,
                   fileVars, status, pastVars>>

\* The try block.
Trying == pc \in {"open", "next", "record", "rotate", "write", "flush", "retain", "ingest",
                  "persist", "count", "publish", "after"}

\* A handler that does not keep last_error.
BodyFailsSilently ==
    /\ pc \in {"open", "record", "rotate", "retain", "persist", "count"}
    /\ pc' = "closing" /\ reason' = "error"
    /\ UNCHANGED <<sessionVars, hand, rot, tries, shed, buffer, count, failed, recent, beatVars,
                   fileVars, status, pastVars>>

\* An exception of the loop body: of a file operation, of the conversion or the
\* validation of the record, of the store, of the status file.
BodyFails ==
    /\ pc \in {"open", "record", "rotate", "flush", "retain", "persist", "count", "publish"}
    /\ pc = "flush" => ~RetryLeft
    /\ pc = "publish" => LockFree
    /\ pc' = "closing" /\ reason' = "error" /\ failed' = TRUE
    /\ UNCHANGED <<sessionVars, hand, rot, tries, shed, buffer, count, recent, beatVars,
                   fileVars, status, pastVars>>

\* SIGINT or SIGTERM in the try block: the collector is told to stop.  Inside
\* next() the KeyboardInterrupt unwinds the generator first, which cleans up.
Signal ==
    /\ Trying
    /\ \/ /\ pc = "next" /\ gen \notin {"new", "closed"} /\ conf.source = "linux"
          /\ gen' = "closed" /\ attached' = {} /\ turn' = 1 /\ batch' = <<>>
          /\ queue' = [p \in Probes |-> <<>>] /\ stop' = TRUE
          /\ UNCHANGED <<polled, emitted, fired, dropped>>
          /\ Notify
       \/ /\ pc = "next" => gen \in {"new", "yielded"}
          /\ conf.source = "linux" => Stop
          /\ conf.source = "mock" => UNCHANGED sessionVars
          /\ UNCHANGED <<status, recent>>
    /\ pc' = "closing" /\ reason' = "signal"
    /\ UNCHANGED <<hand, rot, tries, shed, buffer, count, failed, beatVars, fileVars, pastVars>>

\* A signal where no handler of the agent catches the KeyboardInterrupt, or before the
\* try block any exception: of mkdir, of the store, of the first status or the thread.
Interrupt ==
    /\ pc \in {"build", "open", "closing", "join", "close", "final"}
    /\ pc' = "raised" /\ outcome' = "interrupted"
    /\ UNCHANGED <<sessionVars, loopVars, recent, beatVars, fileVars, status, base, starts, conf>>

\* A loop that ends without stop_heartbeat.
LeaveHeartbeat ==
    /\ pc = "closing" /\ pc' = IF reason = "error" THEN "final" ELSE "close"
    /\ UNCHANGED <<sessionVars, loopVars, recent, beatVars, fileVars, status, pastVars>>

\* A stop_heartbeat that joins without setting heartbeat_stop.
JoinOnly ==
    /\ pc = "closing" /\ pc' = "join"
    /\ UNCHANGED <<sessionVars, loopVars, recent, beatVars, fileVars, status, pastVars>>

\* stop_heartbeat: set, then join.
StopHeartbeat ==
    /\ pc = "closing" /\ pc' = "join"
    /\ hstop' = TRUE
    /\ UNCHANGED <<sessionVars, loopVars, recent, hpc, hsnap, fileVars, status, pastVars>>

\* The error handler publishes before the file is closed, the normal end after.
JoinHeartbeat ==
    /\ pc = "join" /\ hpc \in {"off", "done"}
    /\ pc' = IF reason = "error" THEN "final" ELSE "close"
    /\ UNCHANGED <<sessionVars, loopVars, recent, beatVars, fileVars, status, pastVars>>

\* output.close() flushes what is left; if that fails its OSError leaves the
\* finally block, and the final status is not written.
CloseOutput ==
    /\ pc = "close"
    /\ \/ Spill /\ pc' = (IF reason = "error" THEN "raised" ELSE "final") /\ outcome' = outcome
       \/ /\ pc' = "raised" /\ buffer' = <<>> /\ UNCHANGED <<disk, log>>
          /\ outcome' = IF reason = "error" THEN outcome ELSE "unreported"
    /\ UNCHANGED <<sessionVars, reason, hand, rot, tries, shed, count, failed, recent, beatVars,
                   ingested, status, base, starts, conf>>

\* write_status(stopped_reason), or its failure.
FinalStatus ==
    /\ pc = "final"
    /\ \/ WriteStatus(reason) /\ outcome' = (IF reason = "error" THEN "failed" ELSE "returned")
       \/ UNCHANGED <<status, recent>> /\ outcome' = "unreported"
    /\ pc' = IF reason = "error" THEN "close"
             ELSE IF outcome' = "returned" THEN "returned" ELSE "raised"
    /\ UNCHANGED <<sessionVars, loopVars, beatVars, fileVars, base, starts, conf>>

\* The frame of stream_endpoint_records goes and with it the last reference to
\* a generator suspended at a yield: GeneratorExit, cleanup, notification.
DropGenerator ==
    /\ pc \in {"returned", "raised"} /\ gen = "yielded"
    /\ IF conf.source = "linux"
       THEN Cleanup /\ (Notify \/ UNCHANGED <<status, recent>>)
       ELSE /\ gen' = "closed" /\ UNCHANGED <<status, recent>>
            /\ UNCHANGED <<attached, turn, queue, batch, polled, emitted, stop, fired, dropped>>
    /\ UNCHANGED <<pc, loopVars, beatVars, fileVars, pastVars>>

-----------------------------------------------------------------------------
(* The process.                                                             *)

\* The process is gone, and with it everything it kept in memory.
Gone ==
    /\ pc' = "exited"
    /\ SessionReset
    /\ reason' = "exhausted" /\ hand' = <<>> /\ rot' = 0 /\ tries' = 0 /\ shed' = 0
    /\ buffer' = <<>> /\ count' = NoCount /\ failed' = FALSE /\ recent' = FALSE
    /\ hpc' = "off" /\ hstop' = FALSE /\ hsnap' = NoStatus

\* The interpreter exits; a daemon thread dies with it.  After an exception the
\* frame, with the generator and the open file, may be kept until then.
Exit ==
    /\ pc \in {"returned", "raised"} /\ (pc = "returned" => gen # "yielded")
    /\ Gone
    /\ Spilled \/ UNCHANGED <<disk, log>>
    /\ UNCHANGED <<ingested, status, pastVars>>

\* SIGKILL or a crash: what is buffered is lost.
Kill ==
    /\ pc \notin {"returned", "raised", "exited"}
    /\ Gone /\ outcome' = "killed"
    /\ UNCHANGED <<fileVars, status, base, starts, conf>>

\* The agent is started again on the files that are there.
Restart ==
    /\ pc = "exited" /\ starts < MaxRestarts
    /\ pc' = "build" /\ base' = fired /\ outcome' = "none" /\ starts' = starts + 1
    /\ UNCHANGED <<sessionVars, loopVars, recent, beatVars, fileVars, status, conf>>

-----------------------------------------------------------------------------
Record == TakeRecord \/ RotateStep \/ WriteLine \/ Flush \/ RetryWrite \/ TrimOldest \/ CountWritten
            \/ CountRead \/ Persist \/ CountEvent \/ PublishRecord

Ending == LoopEnds \/ StopHeartbeat \/ JoinHeartbeat \/ CloseOutput \/ FinalStatus

Heartbeat == HeartbeatSnapshot \/ HeartbeatWrite \/ HeartbeatEnd

Next ==
    \/ BuildFails \/ Start \/ OpenOutput \/ Generate \/ GeneratorFails
    \/ Record \/ BodyFails \/ Signal \/ Interrupt \/ Ending \/ DropGenerator
    \/ Heartbeat \/ Tick
    \/ Exit \/ Kill \/ Restart

\* The main thread goes on with its ending unless it waits for the heartbeat
\* thread, and the heartbeat thread finishes a write it has begun and sees
\* heartbeat_stop: both are ordinary running threads.
Fairness == WF_vars(Ending) /\ WF_vars(HeartbeatWrite) /\ WF_vars(HeartbeatEnd)

Spec == Init /\ [][Next]_vars /\ Fairness

-----------------------------------------------------------------------------
(* _evaluate_agent_health, what "endpoint status" reads off the status file *)
(* when no stale_after is given.                                            *)
Healthy(s) ==
    /\ s.available
    /\ s.reason \notin {"collector_unavailable", "error"}
    /\ ~s.error

-----------------------------------------------------------------------------
(* Properties.                                                              *)

Count == [written : Nat, read : Nat, events : Nat, rotations : Nat, shed : Nat, backpressure : Nat]

Reasons == {"none", "running", "exhausted", "idle", "limit", "signal", "error", "collector_unavailable"}

Status == [reason : Reasons, count : Count, error : BOOLEAN, available : BOOLEAN]

\* Every value a variable of the agent can take.
TypeOK ==
    /\ SessionTypeOK
    /\ conf \in Configs
    /\ pc \in {"build", "open", "next", "record", "rotate", "write", "flush", "retain", "ingest",
              "persist", "count", "publish", "after", "closing", "join", "close", "final",
              "returned", "raised", "exited"}
    /\ reason \in Reasons
    /\ hand \in Seq(Event) /\ Len(hand) <= 1
    /\ rot \in 0..conf.keep /\ tries \in 0..conf.retries /\ shed \in Nat
    /\ buffer \in Seq(Event)
    /\ count \in Count /\ failed \in BOOLEAN /\ recent \in BOOLEAN
    /\ hpc \in {"off", "wait", "write", "done"} /\ hstop \in BOOLEAN /\ hsnap \in Status
    /\ disk \in [0..conf.keep -> Seq(Event)]
    /\ status \in Status
    /\ ingested \subseteq Event /\ log \in Seq(Event)
    /\ base \in [Probes -> Nat]
    /\ outcome \in {"none", "returned", "failed", "interrupted", "unreported", "killed"}
    /\ starts \in 0..MaxRestarts

-----------------------------------------------------------------------------
(* The inductive invariant.                                                 *)

\* Before the process starts its loop and after it is gone nothing is under way.
IdleInv ==
    /\ pc \in {"build", "exited"} => count = NoCount /\ emitted = 0 /\ hpc = "off" /\ buffer = <<>>
    /\ pc \in {"build", "open", "exited"} => gen = "new"
    /\ pc \in {"record", "rotate", "write", "flush", "retain", "ingest", "persist", "count", "publish"}
          => Len(hand) = 1

\* The limit of the generator keeps pace with the limit of the loop, so that the
\* loop only ends with a Linux generator that has ended.
SourceInv ==
    conf.source = "linux" =>
        /\ gen \in {"drain", "batch", "yielded"} => turn <= Len(ProbeOrder)
        /\ gen \in {"drain", "batch"} => ~Reached(conf.limit, emitted)
        /\ conf.limit >= 0 => emitted <= conf.limit
        /\ pc \in {"record", "rotate", "write", "flush", "retain"} => emitted = count.written + 1
        /\ pc \in {"open", "next", "ingest", "persist", "count", "publish"} => emitted = count.written
        /\ pc = "after" => gen = "closed"
        /\ pc \in {"closing", "join", "close", "final", "returned", "raised"}
              /\ reason \notin {"signal", "error"} => gen # "yielded"

\* Nobody writes the status file behind the back of the final status.
BeatInv ==
    /\ pc \in {"close", "final", "returned"} => hpc \in {"off", "done"}
    /\ outcome \in {"returned", "failed"} => hpc \in {"off", "done"}
    /\ outcome = "failed" => pc \in {"close", "raised", "exited"}
    /\ outcome = "returned" => pc \in {"returned", "exited"}
    /\ outcome = "failed" /\ pc = "close" => reason = "error"

Reported == status.reason = reason /\ status.count = count /\ status.error = failed

ReportInv ==
    /\ reason # "running" /\ (reason = "error" => failed)
    /\ outcome = "failed" /\ pc # "exited" => failed
    /\ pc \in {"close", "returned", "raised"} /\ outcome \in {"returned", "failed"}
       /\ (conf.source = "mock" \/ reason \notin {"signal", "error"}) => Reported

\* How much the file object can still put into the active file.
BufferInv ==
    /\ pc = "rotate" => tries = 0
    /\ pc = "write" => Len(buffer) = tries
    /\ pc = "flush" => Len(buffer) = tries + 1
    /\ Trying /\ pc \notin {"write", "flush"} => buffer = <<>>
    /\ conf.rotate > 0 =>
          /\ pc \in {"write", "flush"} => Len(disk[0]) + 1 <= conf.rotate
          /\ Len(disk[0]) + Len(buffer) <= conf.rotate + conf.retries

-----------------------------------------------------------------------------
\* Rotation and retention lose the past and nothing else: whatever crash, failed
\* rename or failed flush interrupted them, the output files read from the oldest
\* to the newest are the most recent lines ever written, with no gap and no line
\* out of order.  (The rename chain of _rotate_output_files and the oldest-first
\* unlinks of _enforce_output_retention.)
RetainedIsTheTail ==
    \E cut \in [0 .. conf.keep + 1 -> 0..Len(log)] :
        /\ cut[0] = Len(log)
        /\ \A i \in 0..conf.keep :
              cut[i + 1] <= cut[i] /\ disk[i] = SubSeq(log, cut[i + 1] + 1, cut[i])

\* No output file outgrows rotate_bytes by more than the copies that the retries
\* of _write_line_with_retries leave behind, restarts on the files of an earlier
\* run and failed runs included.
FilesBounded ==
    conf.rotate > 0 => \A i \in 0..conf.keep : Len(disk[i]) <= conf.rotate + conf.retries

Written(e) == \E i \in DOMAIN log : log[i] = e

InFlight(e) ==
    \/ \E i \in DOMAIN hand : hand[i] = e
    \/ \E i \in DOMAIN batch : batch[i] = e
    \/ \E i \in DOMAIN queue[e[1]] : queue[e[1]][i] = e

\* Until the agent stops or its limit is reached, every event a probe has captured
\* since this process started is written, on its way, or counted as dropped: the
\* hand-over from the perf callback through queue, batch and yield to the output
\* file loses none silently, and what was counted as dropped is never written.
EventsAccounted ==
    Trying /\ gen # "closed" /\ ~Reached(conf.limit, emitted) =>
        \A p \in Probes : \A n \in base[p] + 1 .. fired[p] :
            LET e == <<p, n>> IN (e \in dropped) # (Written(e) \/ InFlight(e))

\* The events of a probe reach the output in the order they were captured; a
\* retried write may repeat one.
CaptureOrder ==
    \A i, j \in DOMAIN log :
        i < j /\ log[i][1] = log[j][1] => log[i][2] <= log[j][2]

\* The status file never claims work that is not on disk, whichever thread wrote
\* it and whatever happened since its snapshot was taken: as many lines are in
\* the output as it reports written, as many records ingested as it reports
\* events, and its counters agree with each other.
StatusIsCovered ==
    /\ status.count.written <= Len(log)
    /\ status.count.events <= Cardinality(ingested)
    /\ status.count.events <= status.count.read
    /\ status.count.read <= status.count.written

\* When a run has ended with its final status written, the status file says why
\* it ended and holds its final counters until the process exits: no heartbeat overtakes it.  Left out
\* are the ends that leave a Linux generator suspended, see EndIsReported.
FinalReport ==
    /\ pc \in {"returned", "raised"} /\ outcome \in {"returned", "failed"}
    /\ conf.source = "mock" \/ reason \notin {"signal", "error"}
    => Reported

\* docs/endpoint-lite-sensor.md has the status file written "before exit", and a
\* failed run leave `state: "error"`: once the process is gone the status file
\* does not say that it runs.
EndIsReported ==
    pc = "exited" /\ outcome \in {"returned", "failed"} => status.reason # "running"

\* After a run that failed and could write its status, "endpoint status" reports
\* the agent unhealthy, even where a late notification replaced the status.
FailureIsSeen == outcome = "failed" => ~Healthy(status)

\* Two of the properties above with what makes them inductive; FinalReport follows
\* from ReportInv.
IInv == TypeOK /\ IdleInv /\ SourceInv /\ BeatInv /\ ReportInv /\ BufferInv /\ FilesBounded /\ FailureIsSeen

\* Once the loop is over the agent ends: it never waits for ever for the lock of
\* the status file or for the heartbeat thread to be joined.
AgentStops == pc = "closing" ~> pc \in {"returned", "raised", "exited"}
=============================================================================
