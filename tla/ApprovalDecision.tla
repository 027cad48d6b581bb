-------------------------- MODULE ApprovalDecision --------------------------
(***************************************************************************)
(* What a human approval promises, without the database, the polling loops *)
(* or the audit trail: an approval is requested at most once, decided at   *)
(* most once, and whoever waits on it is told what was decided.            *)
(***************************************************************************)
CONSTANTS Approvals,  \* the approval requests
          Waiters,    \* the callers that pause until one is decided
          NoApproval  \* stands for None

VARIABLES decision,   \* decision[a]: absent, pending, or how it was decided
          ask,        \* ask[w]: the approval w waits on
          answer      \* answer[w]: what w was told

vars == <<decision, ask, answer>>

Decided == {"approved", "denied", "expired"}
NoAnswer == "unanswered"

Init ==
  /\ decision = [a \in Approvals |-> "absent"]
  /\ ask = [w \in Waiters |-> NoApproval]
  /\ answer = [w \in Waiters |-> NoAnswer]

Request(a) ==
  /\ decision[a] = "absent"
  /\ decision' = [decision EXCEPT ![a] = "pending"]
  /\ UNCHANGED <<ask, answer>>

Decide(a) ==
  /\ decision[a] = "pending"
  /\ \E s \in Decided : decision' = [decision EXCEPT ![a] = s]
  /\ UNCHANGED <<ask, answer>>

Ask(w, a) ==
  /\ ask[w] = NoApproval
  /\ ask' = [ask EXCEPT ![w] = a]
  /\ UNCHANGED <<decision, answer>>

\* The answer is the decision, given in the step that decides it (the waiter
\* itself let the approval expire) or later.
Answer(w) ==
  /\ answer[w] = NoAnswer
  /\ ask[w] \in Approvals
  /\ decision[ask[w]] \in Decided
  /\ answer' = [answer EXCEPT ![w] = decision[ask[w]]]
  /\ UNCHANGED <<decision, ask>>

Next ==
  \/ \E a \in Approvals : Request(a) \/ Decide(a)
  \/ \E w \in Waiters : Answer(w) \/ \E a \in Approvals : Ask(w, a)

Spec == Init /\ [][Next]_vars
=============================================================================
