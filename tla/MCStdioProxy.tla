---------------------------- MODULE MCStdioProxy ----------------------------
(* Small instances of StdioProxy for TLC.                                  *)
EXTENDS StdioProxy, TLC

CONSTANTS i1, i2, i3, s1

\* An enforcing gate and a client that calls tools, or sends other requests.
Enforcing ==
  [mode |-> "enforce", review |-> "rules", kinds |-> {"tool", "other"}, asks |-> 0]

\* A shadow gate with hybrid review; the client also replies, and the server
\* asks once.
Watching ==
  [mode |-> "shadow", review |-> "hybrid", kinds |-> {"tool", "reply"}, asks |-> 1]

\* No gate, and a client that calls no tool, or calls one without an id.
Ungated ==
  [mode |-> "off", review |-> "rules", kinds |-> {"other", "note", "anonymous"}, asks |-> 0]

EnforcingOnly == {Enforcing}
ToolsOnly == {[Enforcing EXCEPT !.kinds = {"tool"}]}
Replying == {[Enforcing EXCEPT !.kinds = {"other", "reply"}, !.asks = 1]}
EveryMode == ToolsOnly \cup {Watching, Ungated}

\* Ids are only compared, so any renaming of the client's ids is the same run.
ClientIdSymmetry == Permutations(ClientIds)

(* With a server that answers, run_stdio_proxy answers every request of a  *)
(* client that has nothing to reply to; a reply blocks the queue           *)
(* (EveryRequestAnswered is violated there).                               *)
RequestsAnswered == "reply" \in setup.kinds \/ EveryRequestAnswered
=============================================================================
