------------------------- MODULE EndpointTail_proofs -------------------------
(***************************************************************************)
(* Proofs about EndpointTail, for every kind and number of lines and every *)
(* number of kills.  IInv is inductive: the reader is at most the line in  *)
(* its hands ahead of the checkpoint, and what the trace has ahead of the  *)
(* checkpoint is the record that is read next.                             *)
(***************************************************************************)
EXTENDS EndpointTail, FiniteSetTheorems, TLAPS

-----------------------------------------------------------------------------
(* Lines.                                                                  *)

\* A line has a kind.
LEMMA LineType ==
  ASSUME TypeOK, NEW k \in DOMAIN file
  PROVE  file[k] \in Lines /\ file[k].kind \in LineKinds /\ k \in 1..Len(file) /\ k \in Nat
  BY DEF TypeOK, Lines

\* A record is behind a position that is behind a later one.
LEMMA BehindIsPrefix ==
  ASSUME TypeOK, NEW p \in Positions, NEW k \in Records, NEW l \in Behind(p), k < l
  PROVE  k \in Behind(p)
  BY DEF Behind, Records, TypeOK, Positions

-----------------------------------------------------------------------------
(* The steps.                                                              *)

LEMMA InitInv == Init => IInv
  <1> SUFFICES ASSUME Init PROVE IInv
    OBVIOUS
  <1>0. keeps \in BOOLEAN /\ torn \in BOOLEAN
    BY Zenon DEF Init
  <1>1. TypeOK
    BY <1>0, TailAssumption DEF Init, TypeOK, Whole, Beginning, NoEvent, Positions, Events, EventKinds
  <1>2. Records = {} /\ Ingested = {} /\ Behind(checkpoint) = {} /\ Behind(Position) = {}
    BY DEF Init, Records, Ingested, Behind
  <1>3. Counted
    BY <1>2, FS_EmptySet DEF Init, Counted, Pending
  <1> QED
    BY <1>1, <1>2, <1>3 DEF Init, IInv, Beginning, InFile, Position, InHand, Busy, Persisted, Abreast,
      Ordered, OneRow

\* The file's lines stay, and what is behind a position in it does too.
LEMMA AppendLineInv ==
  ASSUME IInv, NEW line \in Lines, AppendLine(line) PROVE IInv'
  <1> USE DEF source, saved, reader, sinks
  <1>1. /\ file \in Seq(Lines) /\ file' = Append(file, line) /\ file' \in Seq(Lines)
        /\ Len(file') = Len(file) + 1 /\ Len(file) \in Nat
        /\ DOMAIN file = 1..Len(file) /\ DOMAIN file' = 1..(Len(file) + 1)
        /\ \A k \in DOMAIN file : k \in DOMAIN file' /\ file'[k] = file[k]
    BY DEF IInv, TypeOK, AppendLine
  <1>2. /\ UNCHANGED <<keeps, checkpoint, torn, pc, pos, part, number, event, trace, store, kills>>
        /\ Position' = Position /\ Ingested' = Ingested /\ Stored' = Stored /\ Busy' = Busy
    BY DEF AppendLine, Position, Ingested, Stored, Busy
  <1>3. TypeOK'
    BY <1>1, <1>2 DEF IInv, TypeOK, AppendLine
  <1>4. \A k \in Records : k \in Records' /\ file'[k] = file[k]
    BY <1>1 DEF Records
  <1>5. \A k \in Records' : k \in Records \/ k = Len(file) + 1
    BY <1>1 DEF Records
  <1>6. ASSUME NEW p \in Positions, InFile(p)
        PROVE  /\ {k \in Records' : k <= p.pos \/ (k = p.pos + 1 /\ p.part = 2)} = Behind(p)
    <2>1. p.pos \in Nat /\ p.part \in 0..2 /\ p.pos <= Len(file) /\ (p.part = 2 => p.pos < Len(file))
      BY <1>6 DEF Positions, InFile
    <2>2. \A k \in Records : k \in Nat /\ k <= Len(file)
      BY <1>1 DEF Records
    <2> QED BY <2>1, <2>2, <1>1, <1>4, <1>5 DEF Behind
  <1>7. checkpoint \in Positions /\ Position \in Positions
    BY DEF IInv, TypeOK, Position, Positions
  <1>8. Behind(checkpoint)' = Behind(checkpoint) /\ Behind(Position)' = Behind(Position)
    BY <1>2, <1>6, <1>7 DEF IInv, Behind
  <1>9. InFile(checkpoint)' /\ InFile(Position)'
    BY <1>1, <1>2, <1>7 DEF IInv, InFile, Positions, IsRecord, Position
  <1>10. \A e \in Events : OfLine(e) => OfLine(e)'
    BY <1>4 DEF OfLine
  <1>11. (\A i \in DOMAIN trace : OfLine(trace[i]))'
    BY <1>2, <1>4 DEF IInv, OfLine
  <1>12. InHand'
    BY <1>2, <1>4, <1>8 DEF IInv, InHand, OfLine, Busy
  <1>13. Persisted'
    BY <1>2, <1>8 DEF IInv, Persisted
  <1>14. Abreast'
    <2>1. \A l \in Ingested : l \in Records
      BY DEF IInv, OfLine, Ingested
    <2>2. \A l \in Ingested : l \in Nat /\ l < Len(file) + 1
      BY <2>1, <1>1 DEF Records
    <2> QED BY <2>2, <1>1, <1>2, <1>5, <1>8 DEF IInv, Abreast
  <1>15. Counted'
    BY <1>2, <1>8 DEF IInv, Counted, Pending
  <1> QED BY <1>2, <1>3, <1>9, <1>11, <1>12, <1>13, <1>14, <1>15 DEF IInv, Ordered, OneRow

\* A longer last line changes nothing that the invariant speaks of.
LEMMA GrowLineInv == ASSUME IInv, GrowLine PROVE IInv'
  <1> USE DEF saved, reader, sinks
  <1>1. TypeOK'
    BY DEF IInv, TypeOK, GrowLine, Whole
  <1> QED BY <1>1 DEF GrowLine, IInv, InFile, OfLine, Records, InHand, Busy, Behind, Position,
              Persisted, Ingested, Stored, Abreast, Ordered, Counted, Pending, OneRow

\* The reader is put where the checkpoint is.
LEMMA StartInv == ASSUME IInv, Start PROVE IInv'
  <1> USE DEF source, saved, sinks
  <1>1. /\ pc' = "read" /\ ~Busy'
        /\ UNCHANGED <<file, grown, keeps, checkpoint, torn, event, trace, store, kills>>
        /\ Records' = Records /\ Ingested' = Ingested /\ Stored' = Stored
    BY DEF Start, Busy, Records, Ingested, Stored
  <1>2. checkpoint \in Positions
    BY DEF IInv, TypeOK
  <1>3. pos' = checkpoint.pos /\ part' = checkpoint.part /\ number' = checkpoint.number
    BY DEF Start, ReadCheckpoint
  <1>4. TypeOK'
    BY <1>1, <1>2, <1>3 DEF IInv, TypeOK, Positions
  <1>5. Behind(checkpoint)' = Behind(checkpoint) /\ Behind(Position)' = Behind(checkpoint)
    BY <1>1, <1>3 DEF Behind, Position
  <1>6. InFile(checkpoint)' /\ InFile(Position)'
    BY <1>1, <1>3 DEF IInv, InFile, Position
  <1>7. (\A i \in DOMAIN trace : OfLine(trace[i]))'
    BY <1>1 DEF IInv, OfLine
  <1>8. Counted'
    <2>1. Pending' <=> Pending
      BY <1>1, <1>5 DEF Start, Pending
    <2> QED BY <2>1, <1>1 DEF IInv, Counted
  <1> QED BY <1>1, <1>4, <1>5, <1>6, <1>7, <1>8 DEF IInv, InHand, Persisted, Abreast, Ordered, OneRow

\* What readline has returned was white space: no record is passed.
LEMMA ReadBlankInv == ASSUME IInv, ReadBlank PROVE IInv'
  <1> USE DEF source, saved, sinks
  <1>1. /\ pc = "read" /\ pc' = pc /\ ~Busy /\ ~Busy'
        /\ UNCHANGED <<file, grown, keeps, checkpoint, torn, number, event, trace, store, kills>>
        /\ Records' = Records /\ Ingested' = Ingested /\ Stored' = Stored
        /\ Behind(checkpoint)' = Behind(checkpoint)
    BY DEF ReadBlank, Busy, Records, Ingested, Stored, Behind
  <1>2. /\ file \in Seq(Lines) /\ Len(file) \in Nat /\ pos \in Nat /\ part \in 0..2 /\ grown \in 1..3
        /\ pos < Len(file) /\ part < Written(pos + 1) /\ Written(pos + 1) \in 1..3
    BY DEF IInv, TypeOK, ReadBlank, HasMore, Written, Whole
  <1>3. pos + 1 \in Records => part = 2
    BY DEF ReadBlank, Line, Records, IsRecord, EventKinds
  <1>4. \/ Written(pos + 1) = 3 /\ pos' = pos + 1 /\ part' = 0
        \/ Written(pos + 1) < 3 /\ part # 2 /\ pos' = pos /\ part' = Written(pos + 1)
    BY <1>2 DEF ReadBlank, Consume, Whole
  <1>5. pos' \in Nat /\ part' \in 0..2 /\ number' \in Nat
    BY <1>1, <1>2, <1>4 DEF IInv, TypeOK
  <1>6. TypeOK'
    BY <1>1, <1>5 DEF IInv, TypeOK
  <1>7. Behind(Position)' = Behind(Position)
    <2>1. \A k \in Records : k \in Nat
      BY <1>2 DEF Records
    <2> QED BY <2>1, <1>1, <1>2, <1>3, <1>4 DEF Behind, Position
  <1>8. InFile(Position)'
    BY <1>1, <1>2, <1>3, <1>4 DEF InFile, Position, Records
  <1>9. InFile(checkpoint)' /\ (\A i \in DOMAIN trace : OfLine(trace[i]))'
    BY <1>1 DEF IInv, InFile, OfLine
  <1> QED BY <1>1, <1>6, <1>7, <1>8, <1>9 DEF IInv, InHand, Persisted, Abreast, Ordered, Counted,
              Pending, OneRow

\* The record of the next line is in hand.
LEMMA ReadRecordInv == ASSUME IInv, ReadRecord PROVE IInv'
  <1> USE DEF source, saved, sinks
  <1>1. /\ pc = "read" /\ pc' = "trace" /\ ~Busy /\ Busy'
        /\ UNCHANGED <<file, grown, keeps, checkpoint, torn, trace, store, kills>>
        /\ Records' = Records /\ Ingested' = Ingested /\ Stored' = Stored
        /\ Behind(checkpoint)' = Behind(checkpoint)
    BY DEF ReadRecord, Busy, Records, Ingested, Stored, Behind
  <1>2. /\ file \in Seq(Lines) /\ Len(file) \in Nat /\ pos \in Nat /\ part = 0
        /\ pos < Len(file) /\ Written(pos + 1) \in 2..3 /\ pos + 1 \in DOMAIN file
    BY DEF IInv, TypeOK, ReadRecord, HasMore, Written, Whole
  <1>3. pos + 1 \in Records
    BY <1>2 DEF ReadRecord, Line, Records
  <1>4. \/ pos' = pos + 1 /\ part' = 0
        \/ pos' = pos /\ part' = 2
    BY <1>2 DEF ReadRecord, Consume, Whole
  <1>5. event'.line = pos + 1 /\ event'.kind = file[pos + 1].kind /\ event'.id[1] = pos + 1
    BY DEF ReadRecord, NewEvent, Line
  <1>6. event' \in Events
    <2>1. Len(trace) + 1 \in Nat
      BY DEF IInv, TypeOK
    <2>2. (IF Line.named THEN 0 ELSE Len(trace) + 1) \in Nat
      BY <2>1
    <2>3. Line.kind \in EventKinds
      BY DEF ReadRecord, IsRecord
    <2> QED BY <2>2, <2>3, <1>2 DEF ReadRecord, NewEvent, Events
  <1>7. TypeOK'
    <2>1. pos' \in Nat /\ part' \in 0..2 /\ number' \in Nat
      BY <1>2, <1>4 DEF IInv, TypeOK, ReadRecord
    <2> QED BY <2>1, <1>1, <1>6 DEF IInv, TypeOK
  <1>8. Behind(Position)' = Behind(Position) \cup {pos + 1} /\ pos + 1 \notin Behind(Position)
    <2>1. \A k \in Records : k \in Nat
      BY <1>2 DEF Records
    <2> QED BY <2>1, <1>1, <1>2, <1>3, <1>4 DEF Behind, Position
  <1>9. \A k \in Behind(Position)' : k <= pos + 1
    <2>1. \A k \in Records : k \in Nat
      BY <1>2 DEF Records
    <2> QED BY <2>1, <1>1, <1>2, <1>4 DEF Behind, Position
  <1>10. InFile(Position)'
    BY <1>1, <1>2, <1>4 DEF InFile, Position
  <1>11. InFile(checkpoint)' /\ (\A i \in DOMAIN trace : OfLine(trace[i]))'
    BY <1>1 DEF IInv, InFile, OfLine
  <1>12. InHand'
    BY <1>1, <1>3, <1>5, <1>8, <1>9 DEF IInv, InHand, OfLine, Abreast
  <1>13. Persisted' /\ Abreast'
    BY <1>1, <1>5, <1>8 DEF IInv, Persisted, Abreast
  <1> QED BY <1>1, <1>7, <1>10, <1>11, <1>12, <1>13 DEF IInv, Ordered, Counted, Pending, OneRow

\* The end of the process changes nothing but where it is.
LEMMA DownInv ==
  ASSUME IInv, pc' = "down", kills' \in 0..MaxKills, kills' >= kills,
         Pending' => Pending \/ kills' = kills + 1,
         UNCHANGED <<source, keeps, saved, reader, sinks>>
  PROVE  IInv'
  <1> USE DEF source, saved, reader, sinks
  <1>1. /\ ~Busy' /\ UNCHANGED <<file, grown, keeps, checkpoint, torn, pos, part, number, event, trace, store>>
        /\ Records' = Records /\ Ingested' = Ingested /\ Stored' = Stored
        /\ Behind(checkpoint)' = Behind(checkpoint)
    BY DEF Busy, Records, Ingested, Stored, Behind
  <1>2. TypeOK'
    BY <1>1 DEF IInv, TypeOK
  <1>3. InFile(checkpoint)' /\ InFile(Position)' /\ (\A i \in DOMAIN trace : OfLine(trace[i]))'
    BY <1>1 DEF IInv, InFile, OfLine, Position
  <1>4. Counted'
    <2>1. IsFiniteSet(Ingested) /\ Len(trace) \in Nat /\ Cardinality(Ingested) \in Nat /\ kills \in Nat
      BY FS_CardinalityType DEF IInv, Counted, TypeOK
    <2> QED BY <2>1, <1>1 DEF IInv, Counted
  <1> QED BY <1>1, <1>2, <1>3, <1>4 DEF IInv, InHand, Persisted, Abreast, Ordered, OneRow

LEMMA KillInv == ASSUME IInv, Kill PROVE IInv'
  <1>1. kills' \in 0..MaxKills /\ kills' = kills + 1 /\ kills' >= kills
    BY TailAssumption DEF IInv, TypeOK, Kill
  <1> QED BY <1>1, DownInv DEF Kill

LEMMA EndInv == ASSUME IInv, ReadFails \/ StopIdle PROVE IInv'
  <1>1. /\ pc = "read" /\ pc' = "down" /\ kills' = kills
        /\ UNCHANGED <<source, keeps, saved, reader, sinks>>
    BY DEF ReadFails, StopIdle
  <1>2. kills' \in 0..MaxKills /\ kills' >= kills
    BY <1>1 DEF IInv, TypeOK
  <1>3. Pending' => Pending
    BY <1>1 DEF Pending, Ingested, Behind, Records, source, saved, sinks
  <1> QED BY <1>1, <1>2, <1>3, DownInv

\* The line in hand is the last of the trace, or its next.
LEMMA InHandIsLast ==
  ASSUME IInv, Busy, keeps, NEW l \in Ingested
  PROVE  l <= event.line /\ l \in Behind(Position)
  <1>1. /\ l \in Records /\ event.line \in Records
        /\ event.line \in Behind(Position) /\ event.line \notin Behind(checkpoint)
    BY DEF IInv, Ingested, OfLine, InHand
  <1>2. l \in Nat /\ event.line \in Nat
    BY <1>1 DEF IInv, TypeOK, Records
  <1>3. l <= event.line
    <2>1. CASE l \in Behind(checkpoint)
      <3>1. l \in Behind(Position)
        BY <2>1 DEF IInv, Abreast, Busy
      <3> QED BY <3>1 DEF IInv, InHand
    <2>2. CASE l \notin Behind(checkpoint)
      <3>1. \A k \in Records : k < l => k \in Behind(checkpoint)
        BY <2>2 DEF IInv, Abreast
      <3> QED BY <3>1, <1>1, <1>2
    <2> QED BY <2>1, <2>2
  <1>4. Position \in Positions
    BY DEF IInv, TypeOK, Position, Positions
  <1> QED BY <1>1, <1>2, <1>3, <1>4, BehindIsPrefix DEF IInv

\* The event goes to the end of the trace.
LEMMA WriteTraceInv == ASSUME IInv, WriteTrace PROVE IInv'
  <1> USE DEF source, saved, reader, sinks
  <1>1. /\ pc = "trace" /\ pc' = "store" /\ Busy /\ Busy'
        /\ UNCHANGED <<file, grown, keeps, checkpoint, torn, pos, part, number, event, store, kills>>
        /\ Records' = Records
        /\ Behind(checkpoint)' = Behind(checkpoint) /\ Behind(Position)' = Behind(Position)
    BY DEF WriteTrace, Busy, Records, Behind, Position
  <1>2. /\ trace \in Seq(Events) /\ event \in Events /\ Len(trace) \in Nat
        /\ DOMAIN trace = 1..Len(trace) /\ store \subseteq DOMAIN trace
        /\ trace' \in Seq(Events) /\ Len(trace') = Len(trace) + 1
        /\ DOMAIN trace' = 1..(Len(trace) + 1)
        /\ trace'[Len(trace) + 1] = event
        /\ \A i \in DOMAIN trace : i \in DOMAIN trace' /\ trace'[i] = trace[i]
    BY DEF IInv, TypeOK, WriteTrace
  <1>3. TypeOK'
    BY <1>1, <1>2 DEF IInv, TypeOK
  <1>4. Ingested' = Ingested \cup {event.line}
    BY <1>2 DEF Ingested
  <1>5. Stored' = Stored
    BY <1>1, <1>2 DEF Stored
  <1>6. InFile(checkpoint)' /\ InFile(Position)'
    BY <1>1 DEF IInv, InFile, Position
  <1>7. OfLine(event) /\ event.line \in Behind(Position)
        /\ (keeps => event.line \notin Behind(checkpoint))
    BY <1>1 DEF IInv, InHand
  <1>8. (\A i \in DOMAIN trace : OfLine(trace[i]))'
    BY <1>1, <1>2, <1>7 DEF IInv, OfLine
  <1>9. InHand'
    <2>1. trace' # <<>> /\ trace'[Len(trace')] = event'
      BY <1>1, <1>2
    <2> QED BY <2>1, <1>1 DEF IInv, InHand, OfLine
  <1>10. Persisted'
    BY <1>1, <1>4, <1>5 DEF IInv, Persisted
  <1>11. Abreast'
    <2>1. ASSUME keeps, NEW k \in Records, k < event.line PROVE k \in Behind(checkpoint)
      <3>1. Position \in Positions
        BY DEF IInv, TypeOK, Position, Positions
      <3>2. k \in Behind(Position)
        BY <2>1, <3>1, <1>7, BehindIsPrefix DEF IInv
      <3>3. k # event.line
        BY <2>1, <1>7 DEF OfLine, Records, IInv, TypeOK
      <3> QED BY <2>1, <3>2, <3>3, <1>1 DEF IInv, Abreast
    <2> QED BY <2>1, <1>1, <1>4 DEF IInv, Abreast
  <1>12. Ordered'
    <2> SUFFICES ASSUME keeps, NEW i \in DOMAIN trace', NEW j \in DOMAIN trace', i < j
                 PROVE  trace'[i].line <= trace'[j].line
      BY <1>1 DEF Ordered
    <2>1. i \in DOMAIN trace /\ trace'[i] = trace[i]
      BY <1>2
    <2>2. CASE j \in DOMAIN trace
      BY <2>1, <2>2, <1>2 DEF IInv, Ordered
    <2>3. CASE j = Len(trace) + 1
      <3>1. trace[i].line \in Ingested
        BY <2>1 DEF Ingested
      <3> QED BY <2>1, <2>3, <3>1, <1>1, <1>2, InHandIsLast
    <2> QED BY <2>2, <2>3, <1>2
  <1>13. Counted'
    <2>1. /\ IsFiniteSet(Ingested) /\ Cardinality(Ingested) \in Nat /\ kills \in Nat
      BY FS_CardinalityType DEF IInv, Counted, TypeOK
    <2>2. /\ IsFiniteSet(Ingested')
          /\ Cardinality(Ingested') = IF event.line \in Ingested THEN Cardinality(Ingested)
                                      ELSE Cardinality(Ingested) + 1
      BY <2>1, <1>4, FS_AddElement
    <2>3. ~Pending'
      BY <1>1 DEF Pending
    <2>4. keeps /\ event.line \in Ingested => Pending
      BY <1>1, <1>7 DEF Pending
    <2>5. CASE keeps
      <3>1. Len(trace) + (IF Pending THEN 1 ELSE 0) <= Cardinality(Ingested) + kills
        BY <2>5 DEF IInv, Counted
      <3>2. Len(trace) + 1 <= Cardinality(Ingested') + kills
        BY <2>1, <2>2, <2>4, <2>5, <3>1, <1>2
      <3> QED BY <2>2, <2>3, <3>2, <1>1, <1>2 DEF Counted
    <2> QED BY <2>2, <2>5, <1>1 DEF Counted
  <1>14. OneRow'
    BY <1>1, <1>2 DEF IInv, OneRow
  <1> QED BY <1>1, <1>3, <1>6, <1>8, <1>9, <1>10, <1>11, <1>12, <1>13, <1>14 DEF IInv

\* The rows that are replaced are of the line in hand.
LEMMA SaveEventInv == ASSUME IInv, SaveEvent PROVE IInv'
  <1> USE DEF source, saved, reader, sinks
  <1>1. /\ pc = "store" /\ pc' = (IF keeps THEN "open" ELSE "read") /\ Busy /\ (Busy' <=> keeps)
        /\ UNCHANGED <<file, grown, keeps, checkpoint, torn, pos, part, number, event, trace, kills>>
        /\ Records' = Records /\ Ingested' = Ingested
        /\ Behind(checkpoint)' = Behind(checkpoint) /\ Behind(Position)' = Behind(Position)
    BY DEF SaveEvent, Busy, Records, Ingested, Behind, Position
  <1>2. /\ trace \in Seq(Events) /\ Len(trace) \in Nat /\ DOMAIN trace = 1..Len(trace)
        /\ Len(trace) \in DOMAIN trace /\ trace[Len(trace)] = event /\ OfLine(event)
    BY <1>1 DEF IInv, TypeOK, InHand
  <1>3. store' = {r \in store : trace[r].id # event.id} \cup {Len(trace)}
    BY DEF SaveEvent, Replace
  <1>4. store' \subseteq DOMAIN trace
    BY <1>2, <1>3 DEF IInv, TypeOK
  <1>5. TypeOK'
    BY <1>1, <1>4 DEF IInv, TypeOK
  <1>6. \A r \in store : r \in DOMAIN trace /\ OfLine(trace[r])
    BY DEF IInv, TypeOK
  <1>7. Stored \subseteq Stored' /\ event.line \in Stored' /\ event.line \in Ingested
    <2>1. event.line \in Stored' /\ event.line \in Ingested
      BY <1>1, <1>2, <1>3 DEF Stored, Ingested
    <2>2. ASSUME NEW r \in store PROVE trace[r].line \in Stored'
      <3>1. CASE trace[r].id = event.id
        BY <3>1, <2>1, <1>2, <1>6 DEF OfLine
      <3>2. CASE trace[r].id # event.id
        BY <3>2, <1>1, <1>3 DEF Stored
      <3> QED BY <3>1, <3>2
    <2> QED BY <2>1, <2>2 DEF Stored
  <1>8. InFile(checkpoint)' /\ InFile(Position)' /\ (\A i \in DOMAIN trace : OfLine(trace[i]))'
    BY <1>1 DEF IInv, InFile, Position, OfLine
  <1>9. InHand'
    BY <1>1, <1>2, <1>3 DEF IInv, InHand, OfLine, Busy
  <1>10. Persisted'
    BY <1>1, <1>7 DEF IInv, Persisted
  <1>11. Abreast' /\ Ordered'
    BY <1>1 DEF IInv, Abreast, Ordered
  <1>12. Counted'
    <2>1. keeps => ~Pending' /\ ~Pending
      BY <1>1 DEF Pending
    <2> QED BY <2>1, <1>1 DEF IInv, Counted
  <1>13. OneRow'
    BY <1>1, <1>2, <1>3 DEF IInv, OneRow
  <1> QED BY <1>1, <1>5, <1>8, <1>9, <1>10, <1>11, <1>12, <1>13 DEF IInv

LEMMA OpenCheckpointInv == ASSUME IInv, OpenCheckpoint PROVE IInv'
  <1> USE DEF source, saved, reader, sinks
  <1>1. /\ pc = "open" /\ pc' = "write" /\ Busy /\ Busy' /\ keeps
        /\ UNCHANGED <<file, grown, keeps, checkpoint, pos, part, number, event, trace, store, kills>>
        /\ Records' = Records /\ Ingested' = Ingested /\ Stored' = Stored
        /\ Behind(checkpoint)' = Behind(checkpoint) /\ Behind(Position)' = Behind(Position)
    BY DEF IInv, OpenCheckpoint, Busy, Records, Ingested, Stored, Behind, Position
  <1>2. TypeOK'
    <2>1. torn' \in BOOLEAN
      BY Zenon DEF OpenCheckpoint
    <2> QED BY <2>1, <1>1 DEF IInv, TypeOK
  <1>3. InFile(checkpoint)' /\ InFile(Position)' /\ (\A i \in DOMAIN trace : OfLine(trace[i]))'
    BY <1>1 DEF IInv, InFile, Position, OfLine
  <1>4. InHand' /\ Persisted'
    BY <1>1 DEF IInv, InHand, Persisted, OfLine
  <1>5. Counted'
    <2>1. ~Pending' /\ ~Pending
      BY <1>1 DEF Pending
    <2> QED BY <2>1, <1>1 DEF IInv, Counted
  <1> QED BY <1>1, <1>2, <1>3, <1>4, <1>5 DEF IInv, Abreast, Ordered, OneRow

\* The checkpoint is put where the reader is.
LEMMA WriteCheckpointInv == ASSUME IInv, WriteCheckpoint PROVE IInv'
  <1> USE DEF source, saved, reader, sinks
  <1>1. /\ pc = "write" /\ pc' = "read" /\ Busy /\ ~Busy' /\ keeps /\ torn' = FALSE
        /\ checkpoint' = Position
        /\ UNCHANGED <<file, grown, keeps, pos, part, number, event, trace, store, kills>>
        /\ Records' = Records /\ Ingested' = Ingested /\ Stored' = Stored
        /\ Behind(Position)' = Behind(Position)
    BY DEF IInv, WriteCheckpoint, Busy, Records, Ingested, Stored, Behind, Position
  <1>2. Behind(checkpoint)' = Behind(Position)
    BY <1>1 DEF Behind, Position
  <1>3. TypeOK'
    <2>1. checkpoint' \in Positions
      BY <1>1 DEF IInv, TypeOK, Position, Positions
    <2>2. torn' \in BOOLEAN
      BY <1>1, Zenon
    <2> QED BY <2>1, <2>2, <1>1 DEF IInv, TypeOK
  <1>4. InFile(checkpoint)' /\ InFile(Position)' /\ (\A i \in DOMAIN trace : OfLine(trace[i]))'
    BY <1>1 DEF IInv, InFile, Position, OfLine
  <1>5. event.line \in Ingested /\ event.line \in Stored
    BY <1>1 DEF IInv, TypeOK, InHand, Ingested, Stored
  <1>6. Persisted'
    BY <1>1, <1>2, <1>5 DEF IInv, Persisted
  <1>7. Ingested \subseteq Behind(Position)
    BY <1>1, InHandIsLast
  <1>8. Abreast'
    BY <1>1, <1>2, <1>7 DEF Abreast
  <1>9. Counted'
    <2>1. ~Pending' /\ ~Pending
      BY <1>1, <1>2, <1>7 DEF Pending
    <2> QED BY <2>1, <1>1 DEF IInv, Counted
  <1> QED BY <1>1, <1>3, <1>4, <1>6, <1>8, <1>9 DEF IInv, InHand, Ordered, OneRow

-----------------------------------------------------------------------------
(* The theorems.                                                           *)

(* IInv holds in every state of the tailer.                                *)
THEOREM Invariance == Spec => []IInv
<1>1. IInv /\ [Next]_vars => IInv'
  <2> SUFFICES ASSUME IInv, [Next]_vars PROVE IInv'
    OBVIOUS
  <2>1. ASSUME NEW line \in Lines, AppendLine(line) PROVE IInv'
    BY <2>1, AppendLineInv
  <2>2. CASE Tailer
    BY <2>2, ReadBlankInv, ReadRecordInv, EndInv, WriteTraceInv, SaveEventInv, OpenCheckpointInv,
      WriteCheckpointInv DEF Tailer
  <2>3. CASE UNCHANGED vars
    <3>1. /\ UNCHANGED <<file, grown, keeps, checkpoint, torn, pc, pos, part, number, event>>
          /\ UNCHANGED <<trace, store, kills>>
      BY <2>3 DEF vars, source, saved, reader, sinks
    <3>2. /\ Records' = Records /\ Ingested' = Ingested /\ Stored' = Stored /\ (Busy' <=> Busy)
          /\ Behind(checkpoint)' = Behind(checkpoint) /\ Behind(Position)' = Behind(Position)
      BY <3>1 DEF Records, Ingested, Stored, Busy, Behind, Position
    <3>3. TypeOK' /\ InFile(checkpoint)' /\ InFile(Position)'
      BY <3>1 DEF IInv, TypeOK, InFile, Position
    <3>4. (\A i \in DOMAIN trace : OfLine(trace[i]))' /\ InHand' /\ Persisted' /\ Abreast'
      BY <3>1, <3>2 DEF IInv, OfLine, InHand, Persisted, Abreast
    <3>5. Counted'
      BY <3>1, <3>2 DEF IInv, Counted, Pending
    <3> QED BY <3>1, <3>3, <3>4, <3>5 DEF IInv, Ordered, OneRow
  <2> QED BY <2>1, <2>2, <2>3, GrowLineInv, StartInv, EndInv, KillInv DEF Next
<1> QED BY InitInv, <1>1, PTL DEF Spec

(* The checkpoint never passes a record that is not in the trace and in    *)
(* the store.                                                              *)
THEOREM NothingIsSkipped == Spec => []NothingSkipped
<1>1. IInv => NothingSkipped
  BY DEF IInv, Persisted, NothingSkipped, Busy
<1> QED BY Invariance, <1>1, PTL

(* With a checkpoint file the trace repeats a line at most once per kill.  *)
THEOREM RepeatsAreBounded == Spec => []RepeatsBounded
<1>1. ASSUME IInv PROVE RepeatsBounded
  <2>1. IsFiniteSet(Ingested) /\ Len(trace) \in Nat /\ Cardinality(Ingested) \in Nat /\ kills \in Nat
    BY <1>1, FS_CardinalityType DEF IInv, Counted, TypeOK
  <2> QED BY <1>1, <2>1 DEF IInv, Counted, RepeatsBounded
<1> QED BY Invariance, <1>1, PTL

(* The rows are in the order of the lines, one per event_id, and only the  *)
(* last line of the trace may have none.                                   *)
THEOREM StoreCorrect == Spec => []StoreFollowsTrace
<1>1. ASSUME IInv PROVE StoreFollowsTrace
  <2>1. store \subseteq DOMAIN trace /\ DOMAIN trace = 1..Len(trace) /\ Len(trace) \in Nat
    BY <1>1 DEF IInv, TypeOK
  <2>2. ASSUME NEW r \in store, NEW s \in store, r < s
        PROVE  (keeps => trace[r].line <= trace[s].line) /\ trace[r].id # trace[s].id
    BY <1>1, <2>1, <2>2 DEF IInv, Ordered, OneRow
  <2>3. ASSUME keeps, NEW i \in DOMAIN trace, trace[i].line \notin Stored
        PROVE  trace[i].line = trace[Len(trace)].line
    <3> DEFINE l == trace[i].line
               m == trace[Len(trace)].line
    <3>1. /\ Len(trace) \in DOMAIN trace /\ l \in Ingested /\ m \in Ingested
          /\ l \in Records /\ m \in Records
      BY <1>1, <2>1 DEF IInv, OfLine, Ingested
    <3>2. l \in Nat /\ m \in Nat /\ l <= m
      BY <1>1, <2>1, <2>3, <3>1 DEF IInv, TypeOK, Records, Ordered
    <3>3. l \notin Behind(checkpoint)
      BY <1>1, <2>3 DEF IInv, Persisted
    <3>4. checkpoint \in Positions /\ TypeOK
      BY <1>1 DEF IInv, TypeOK
    <3>5. m \notin Behind(checkpoint) \/ m = l
      BY <3>1, <3>2, <3>3, <3>4, BehindIsPrefix
    <3>6. m \notin Behind(checkpoint) => ~(l < m)
      BY <1>1, <2>3, <3>1, <3>3 DEF IInv, Abreast
    <3> QED BY <3>2, <3>5, <3>6
  <2> QED BY <2>2, <2>3 DEF StoreFollowsTrace
<1> QED BY Invariance, <1>1, PTL

(* With a checkpoint file the replay of the trace finds what the lines     *)
(* themselves show, whatever was repeated.                                 *)
THEOREM ReplayCorrect == Spec => []ReplayIsStable
<1>1. ASSUME IInv PROVE ReplayIsStable
  <2> SUFFICES ASSUME keeps
               PROVE  Exfiltrations(trace) =
                        {p \in Ingested \X Ingested :
                           p[1] < p[2] /\ IsSensitive(file[p[1]]) /\ IsExternal(file[p[2]])}
    BY DEF ReplayIsStable
  <2>1. /\ DOMAIN trace = 1..Len(trace) /\ Len(trace) \in Nat
        /\ \A i \in DOMAIN trace : /\ i \in Nat /\ trace[i].line \in Nat
                                  /\ trace[i].line \in Ingested
                                  /\ trace[i].kind = file[trace[i].line].kind
                                  /\ trace[i].id[1] = trace[i].line
        /\ \A i, j \in DOMAIN trace : i < j => trace[i].line <= trace[j].line
    BY <1>1 DEF IInv, TypeOK, OfLine, Records, Ingested, Ordered
  <2>2. ASSUME NEW i \in DOMAIN trace, NEW j \in DOMAIN trace,
               IsSensitive(trace[i]), IsExternal(trace[j])
        PROVE  Before(trace, trace[i].id, trace[j].id) <=> trace[i].line < trace[j].line
    <3>1. trace[i].line # trace[j].line
      BY <2>1, <2>2 DEF IsSensitive, IsExternal
    <3>2. ASSUME Before(trace, trace[i].id, trace[j].id) PROVE trace[i].line < trace[j].line
      <4>1. PICK n \in DOMAIN trace : trace[n].id = trace[j].id /\ i < n
        BY <3>2 DEF Before
      <4> QED BY <4>1, <3>1, <2>1
    <3>3. ASSUME trace[i].line < trace[j].line PROVE Before(trace, trace[i].id, trace[j].id)
      <4>1. ASSUME NEW n \in DOMAIN trace, trace[n].id = trace[i].id PROVE n < j
        <5>1. trace[n].line = trace[i].line
          BY <4>1, <2>1
        <5> QED BY <5>1, <3>3, <2>1
      <4> QED BY <4>1 DEF Before
    <3> QED BY <3>2, <3>3
  <2> DEFINE Found == {p \in Ingested \X Ingested :
                         p[1] < p[2] /\ IsSensitive(file[p[1]]) /\ IsExternal(file[p[2]])}
  <2>3. ASSUME NEW x \in Exfiltrations(trace) PROVE x \in Found
    <3>1. PICK q \in (DOMAIN trace) \X (DOMAIN trace) :
            /\ IsSensitive(trace[q[1]]) /\ IsExternal(trace[q[2]])
            /\ Before(trace, trace[q[1]].id, trace[q[2]].id)
            /\ x = <<trace[q[1]].line, trace[q[2]].line>>
      BY <2>3 DEF Exfiltrations
    <3>2. q[1] \in DOMAIN trace /\ q[2] \in DOMAIN trace
      BY <3>1
    <3>3. trace[q[1]].line < trace[q[2]].line
      BY <3>1, <3>2, <2>2
    <3> QED BY <3>1, <3>2, <3>3, <2>1 DEF IsSensitive, IsExternal
  <2>4. ASSUME NEW x \in Found PROVE x \in Exfiltrations(trace)
    <3>1. PICK i \in DOMAIN trace : x[1] = trace[i].line
      BY <2>4 DEF Ingested
    <3>2. PICK j \in DOMAIN trace : x[2] = trace[j].line
      BY <2>4 DEF Ingested
    <3>3. x = <<trace[i].line, trace[j].line>>
      BY <2>4, <3>1, <3>2
    <3>4. IsSensitive(trace[i]) /\ IsExternal(trace[j]) /\ trace[i].line < trace[j].line
      BY <2>1, <2>4, <3>1, <3>2 DEF IsSensitive, IsExternal
    <3>5. Before(trace, trace[i].id, trace[j].id)
      BY <3>4, <2>2
    <3>6. <<i, j>> \in (DOMAIN trace) \X (DOMAIN trace) /\ <<i, j>>[1] = i /\ <<i, j>>[2] = j
      OBVIOUS
    <3> QED BY <3>3, <3>4, <3>5, <3>6 DEF Exfiltrations
  <2> QED BY <2>3, <2>4
<1> QED BY Invariance, <1>1, PTL
=============================================================================
