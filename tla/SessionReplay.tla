--------------------------- MODULE SessionReplay ----------------------------
(***************************************************************************)
(* What a replay of a trace finds across events (zeroadr replay).  The     *)
(* detectors of single events are reduced to their conclusion, the traits  *)
(* of an event; the sequence detector keeps its whole condition.           *)
(*                                                                         *)
(* An event has the fields id (event_id), line (where it comes from) and   *)
(* kind: "file", a read of a sensitive file; "net", a connection to an     *)
(* external destination; "exec", anything else.  All events are of one     *)
(* session.                                                                *)
(***************************************************************************)
EXTENDS Naturals, Sequences

EventKinds == {"file", "net", "exec"}

\* event_positions[x] < event_positions[y].  The index is built with one
\* entry per id, so that an id has its last position.
Before(events, x, y) ==
  \E j \in DOMAIN events :
    /\ events[j].id = y
    /\ \A i \in DOMAIN events : events[i].id = x => i < j

\* The finding of SensitiveFileDetector, and external_events.
IsSensitive(event) == event.kind = "file"
IsExternal(event) == event.kind = "net"

\* ExternalDataExfiltrationDetector.detect: the findings by where their two
\* events come from.
Exfiltrations(events) ==
  {<<events[p[1]].line, events[p[2]].line>> :
     p \in {q \in (DOMAIN events) \X (DOMAIN events) :
              /\ IsSensitive(events[q[1]])
              /\ IsExternal(events[q[2]])
              /\ Before(events, events[q[1]].id, events[q[2]].id)}}
=============================================================================
