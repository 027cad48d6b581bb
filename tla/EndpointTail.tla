---------------------------- MODULE EndpointTail ----------------------------
(***************************************************************************)
(* tail_endpoint_jsonl: a process follows a JSONL file that a collector    *)
(* appends to, writes each record to the trace and to the store, and keeps *)
(* its position in a checkpoint file.  It can die between any two of its   *)
(* steps and be started again, and the collector's last line may be half   *)
(* written when it is read.                                                *)
(*                                                                         *)
(* A position in the file is a number of whole lines and of parts of the   *)
(* next line: a line has the first part of its text, the rest of it, and   *)
(* its newline.  An event is what persist_endpoint_record makes of a line; *)
(* the line is kept with it to tell where it comes from, which the program *)
(* does not do.  Records that have an event_id have different ones.        *)
(***************************************************************************)
EXTENDS SessionReplay, FiniteSets

CONSTANTS
  LineKinds,    \* kinds of lines the collector writes
  MaxLines,     \* bound: lines of the file
  MaxKills,     \* bound: deaths of the process
  MaxTrace      \* bound: events after which it is not started without checkpoint

\* Records by kind, white space, and what json.loads, the test for an object
\* or the validation of the record refuses.
ASSUME TailAssumption ==
  /\ LineKinds \subseteq EventKinds \cup {"blank", "bad"}
  /\ MaxLines \in Nat /\ MaxKills \in Nat /\ MaxTrace \in Nat

\* A line, and whether it is a record with an event_id of its own.
Lines == {l \in [kind : LineKinds, named : BOOLEAN] : l.named => l.kind \in EventKinds}

VARIABLES
  file,       \* the file's lines
  grown,      \* how many parts of the last line have been written
  keeps,      \* a checkpoint file was configured
  checkpoint, \* what was last written to it
  torn,       \* ... and it has been opened for writing and not written since
  pc,         \* the tailer: where it is
  pos,        \* ... whole lines behind it
  part,       \* ... parts of the next line behind it
  number,     \* ... line_number
  event,      \* ... the event it is persisting
  trace,      \* the trace file
  store,      \* the rows of the events table, by the place of their event in the trace
  kills       \* deaths of the process so far

source == <<file, grown>>
saved == <<checkpoint, torn>>
reader == <<pos, part, number, event>>
sinks == <<trace, store>>
vars == <<source, keeps, saved, pc, reader, sinks, kills>>

Whole == 3  \* the parts of a line
Beginning == [pos |-> 0, part |-> 0, number |-> 0]
NoEvent == [id |-> <<0, 0>>, line |-> 0, kind |-> "exec"]

Init ==
  /\ file = <<>> /\ grown = Whole
  /\ keeps \in BOOLEAN /\ checkpoint = Beginning /\ torn = FALSE
  /\ pc = "down" /\ pos = 0 /\ part = 0 /\ number = 0 /\ event = NoEvent
  /\ trace = <<>> /\ store = {} /\ kills = 0

-----------------------------------------------------------------------------
(* The collector.                                                          *)

AppendLine(line) ==
  /\ grown = Whole /\ Len(file) < MaxLines
  /\ file' = Append(file, line)
  /\ grown' \in 1..Whole
  /\ UNCHANGED <<keeps, saved, pc, reader, sinks, kills>>

GrowLine ==
  /\ grown < Whole
  /\ grown' \in (grown + 1)..Whole
  /\ UNCHANGED <<file, keeps, saved, pc, reader, sinks, kills>>

-----------------------------------------------------------------------------
(* Starting and reading.                                                   *)

\* A tailer that ignores what it has stored.
ForgetCheckpoint == Beginning

\* What _read_checkpoint returns.
ReadCheckpoint == checkpoint

\* With a torn checkpoint file json.loads raises, and nothing starts.
Start ==
  /\ pc = "down" /\ ~torn
  /\ keeps \/ Len(trace) < MaxTrace
  /\ pc' = "read"
  /\ pos' = ReadCheckpoint.pos /\ part' = ReadCheckpoint.part /\ number' = ReadCheckpoint.number
  /\ UNCHANGED <<source, keeps, saved, event, sinks, kills>>

\* The parts of line k that are in the file.
Written(k) == IF k = Len(file) THEN grown ELSE Whole

\* A reader that takes a line for finished when it has read its text.
HasNewLine == pos < Len(file) /\ part = 0

\* readline returns something, and the line it is from.
HasMore == pos < Len(file) /\ part < Written(pos + 1)
Line == file[pos + 1]
IsRecord(line) == line.kind \in EventKinds

\* Moving behind what readline has returned.
Consume ==
  IF Written(pos + 1) = Whole
  THEN pos' = pos + 1 /\ part' = 0
  ELSE pos' = pos /\ part' = Written(pos + 1)

\* White space, or the newline of a line whose record was read without it.
ReadBlank ==
  /\ pc = "read" /\ HasMore
  /\ Line.kind = "blank" \/ part = 2
  /\ Consume
  /\ UNCHANGED <<source, keeps, saved, pc, number, event, sinks, kills>>

\* endpoint_event_to_runtime_event: a record without an event_id gets a new one.
NewEvent ==
  [id |-> <<pos + 1, IF Line.named THEN 0 ELSE Len(trace) + 1>>,
   line |-> pos + 1, kind |-> Line.kind]

\* The text of a record is there, with or without its newline.
ReadRecord ==
  /\ pc = "read" /\ HasMore
  /\ IsRecord(Line) /\ part = 0 /\ Written(pos + 1) >= 2
  /\ Consume
  /\ number' = number + 1
  /\ event' = NewEvent
  /\ pc' = "trace"
  /\ UNCHANGED <<source, keeps, saved, sinks, kills>>

\* json.loads or the validation raises, and the process ends.
ReadFails ==
  /\ pc = "read" /\ HasMore /\ part = 0
  /\ Line.kind # "blank" /\ (IsRecord(Line) => Written(pos + 1) = 1)
  /\ pc' = "down"
  /\ UNCHANGED <<source, keeps, saved, reader, sinks, kills>>

\* stop_after_idle
StopIdle ==
  /\ pc = "read" /\ ~HasMore
  /\ pc' = "down"
  /\ UNCHANGED <<source, keeps, saved, reader, sinks, kills>>

-----------------------------------------------------------------------------
(* Persisting the record, and then the position.                           *)

\* write_event_jsonl
WriteTrace ==
  /\ pc = "trace"
  /\ trace' = Append(trace, event)
  /\ pc' = "store"
  /\ UNCHANGED <<source, keeps, saved, reader, store, kills>>

\* A plain insert.
InsertOnly == store \cup {Len(trace)}

\* insert or replace: the row of the same event_id goes, the new one is last.
Replace == {r \in store : trace[r].id # event.id} \cup {Len(trace)}

SaveEvent ==
  /\ pc = "store"
  /\ store' = Replace
  /\ pc' = IF keeps THEN "open" ELSE "read"
  /\ UNCHANGED <<source, keeps, saved, reader, trace, kills>>

\* write_text opens the file, which empties it, and writes.
OpenCheckpoint ==
  /\ pc = "open"
  /\ torn' = TRUE
  /\ pc' = "write"
  /\ UNCHANGED <<source, keeps, checkpoint, reader, sinks, kills>>

\* The position of a reader that reads ahead.
ReadAhead == [pos |-> Len(file), part |-> 0, number |-> number]

\* handle.tell() and line_number
Position == [pos |-> pos, part |-> part, number |-> number]

WriteCheckpoint ==
  /\ pc = "write"
  /\ checkpoint' = Position
  /\ torn' = FALSE
  /\ pc' = "read"
  /\ UNCHANGED <<source, keeps, reader, sinks, kills>>

\* The process is killed, or a write raises.
Kill ==
  /\ pc # "down" /\ kills < MaxKills
  /\ pc' = "down"
  /\ kills' = kills + 1
  /\ UNCHANGED <<source, keeps, saved, reader, sinks>>

-----------------------------------------------------------------------------
Tailer ==
  \/ ReadBlank \/ ReadRecord \/ ReadFails
  \/ WriteTrace \/ SaveEvent \/ OpenCheckpoint \/ WriteCheckpoint

Next ==
  \/ \E line \in Lines : AppendLine(line)
  \/ GrowLine
  \/ Start
  \/ Tailer
  \/ StopIdle
  \/ Kill

\* A tailer that runs goes on; nobody is obliged to write, kill or start.
Spec == Init /\ [][Next]_vars /\ WF_vars(Tailer)

\* A supervisor that starts the tailer again.
Restarted == WF_vars(Start)

-----------------------------------------------------------------------------
(* Properties.                                                             *)

Events == [id : Nat \X Nat, line : Nat, kind : EventKinds]
Positions == [pos : Nat, part : 0..2, number : Nat]

TypeOK ==
  /\ file \in Seq(Lines) /\ grown \in 1..Whole
  /\ keeps \in BOOLEAN /\ checkpoint \in Positions /\ torn \in BOOLEAN
  /\ pc \in {"down", "read", "trace", "store", "open", "write"}
  /\ pos \in Nat /\ part \in 0..2 /\ number \in Nat
  /\ event \in Events
  /\ trace \in Seq(Events) /\ store \subseteq DOMAIN trace
  /\ kills \in 0..MaxKills

Records == {k \in DOMAIN file : IsRecord(file[k])}

\* The records whose text is behind the position p.
Behind(p) == {k \in Records : k <= p.pos \/ (k = p.pos + 1 /\ p.part = 2)}

\* The lines in the trace and in the store.
Ingested == {trace[i].line : i \in DOMAIN trace}
Stored == {trace[r].line : r \in store}

(* docs/endpoint-lite-sensor.md: the checkpoint advances only after a      *)
(* record is successfully persisted.  What is behind the checkpoint, or    *)
(* behind a tailer that has no record in its hands, is in the trace and in *)
(* the store, over half-written lines, failures and kills at any step.     *)
NothingSkipped ==
  /\ Behind(checkpoint) \subseteq Ingested \cap Stored
  /\ pc = "read" => Behind(Position) \subseteq Ingested \cap Stored

(* A trace that kills have put repetitions into gives the same             *)
(* exfiltration findings as the lines themselves: each sensitive read with *)
(* each external connection after it.                                      *)
ReplayIsStable ==
  keeps =>
    Exfiltrations(trace) =
      {p \in Ingested \X Ingested :
         p[1] < p[2] /\ IsSensitive(file[p[1]]) /\ IsExternal(file[p[2]])}

(* The store has the events in the order of the lines, one row per         *)
(* event_id, and no line of the trace is missing from it but the last.     *)
StoreFollowsTrace ==
  /\ \A r, s \in store :
       r < s => /\ keeps => trace[r].line <= trace[s].line
                /\ trace[r].id # trace[s].id
  /\ keeps => \A i \in DOMAIN trace :
                trace[i].line \in Stored \/ trace[i].line = trace[Len(trace)].line

(* docs/endpoint-lite-sensor.md: after restart, tail resumes from that     *)
(* offset and avoids re-ingesting old lines.  A line is in the trace once  *)
(* more for each kill at most, however often the tailer is started.        *)
RepeatsBounded == keeps => Len(trace) <= Cardinality(Ingested) + kills

(* A record that is completely written gets into the trace if the tailer   *)
(* is started again whenever it ends, unless a line before it is refused   *)
(* or a kill leaves the checkpoint file empty.                             *)
RecordsArrive ==
  Restarted =>
    \A k \in 1..MaxLines :
      (keeps /\ k \in Records /\ Written(k) = Whole)
        ~> (\/ k \in Ingested \/ torn
            \/ \E l \in DOMAIN file : l < k /\ file[l].kind = "bad")

-----------------------------------------------------------------------------
(* The inductive invariant.                                                *)

Busy == pc \in {"trace", "store", "open", "write"}

\* A position is in the file, and behind a part of a line only if that is
\* white space or the whole text of a record.
InFile(p) ==
  /\ p.pos <= Len(file)
  /\ p.part # 0 => p.pos < Len(file)
  /\ p.part = 1 => ~IsRecord(file[p.pos + 1])

\* An event is of its line.
OfLine(e) ==
  /\ e.line \in Records
  /\ e.kind = file[e.line].kind
  /\ e.id[1] = e.line

\* The line in hand: the last record behind the reader, and not yet behind
\* the checkpoint.
InHand ==
  Busy =>
    /\ OfLine(event)
    /\ event.line \in Behind(Position)
    /\ \A k \in Behind(Position) : k <= event.line
    /\ keeps => event.line \notin Behind(checkpoint)
    /\ pc # "trace" => trace # <<>> /\ trace[Len(trace)] = event
    /\ pc \in {"open", "write"} => Len(trace) \in store

\* All but the line in hand is persisted.
Persisted ==
  /\ Behind(checkpoint) \subseteq Ingested \cap Stored
  /\ pc # "down" =>
       Behind(Position) \ (IF Busy THEN {event.line} ELSE {}) \subseteq Ingested \cap Stored

\* The reader is the line in hand ahead of the checkpoint, and a line that is
\* in the trace ahead of the checkpoint is the next record.
Abreast ==
  keeps =>
    /\ pc # "down" =>
         /\ Behind(checkpoint) \subseteq Behind(Position)
         /\ Behind(Position) \subseteq Behind(checkpoint) \cup (IF Busy THEN {event.line} ELSE {})
    /\ \A l \in Ingested \ Behind(checkpoint) :
         \A k \in Records : k < l => k \in Behind(checkpoint)

Ordered ==
  keeps => \A i, j \in DOMAIN trace : i < j => trace[i].line <= trace[j].line

\* A line in the trace will be there once more: it is ahead of the checkpoint,
\* and the event in hand is not it.
Pending == pc \in {"down", "read", "trace"} /\ ~(Ingested \subseteq Behind(checkpoint))

Counted ==
  /\ IsFiniteSet(Ingested)
  /\ keeps => Len(trace) + (IF Pending THEN 1 ELSE 0) <= Cardinality(Ingested) + kills

OneRow == \A r, s \in store : r # s => trace[r].id # trace[s].id

IInv ==
  /\ TypeOK
  /\ ~keeps => checkpoint = Beginning /\ ~torn
  /\ keeps \/ pc \notin {"open", "write"}
  /\ InFile(checkpoint) /\ InFile(Position)
  /\ \A i \in DOMAIN trace : OfLine(trace[i])
  /\ InHand
  /\ Persisted
  /\ Abreast
  /\ Ordered
  /\ Counted
  /\ OneRow
=============================================================================
