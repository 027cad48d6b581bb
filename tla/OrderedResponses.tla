-------------------------- MODULE OrderedResponses --------------------------
(***************************************************************************)
(* What the proxy promises the client about its requests, without tasks,   *)
(* buffers, gates or ids: requests queue up, each is answered at most      *)
(* once, in the order they came, and on shutdown the unanswered ones are   *)
(* dropped for good.                                                       *)
(***************************************************************************)
EXTENDS Naturals, Sequences

CONSTANT Requests    \* the numbers of the requests

VARIABLES queue,     \* requests still owed an answer, oldest first
          answered   \* requests answered, oldest first

vars == <<queue, answered>>

Init == queue = <<>> /\ answered = <<>>

\* Requests are numbered as they arrive.
Request(n) ==
  /\ \A i \in DOMAIN queue : queue[i] < n
  /\ \A i \in DOMAIN answered : answered[i] < n
  /\ queue' = Append(queue, n)
  /\ UNCHANGED answered

\* The answer goes to the oldest request: its number is the queue's head.
Answer ==
  /\ queue # <<>>
  /\ answered' = Append(answered, Head(queue))
  /\ queue' = Tail(queue)

Drop ==
  /\ queue' = <<>>
  /\ UNCHANGED answered

Next == Answer \/ Drop \/ \E n \in Requests : Request(n)

Spec == Init /\ [][Next]_vars

(* What first in, first out means to the client: nothing is answered twice *)
(* or before an older request, and what is still queued is newer than      *)
(* everything answered.                                                    *)
AnsweredInOrder ==
  /\ \A j, k \in DOMAIN answered : j < k => answered[j] < answered[k]
  /\ \A j, k \in DOMAIN queue : j < k => queue[j] < queue[k]
  /\ \A j \in DOMAIN answered, k \in DOMAIN queue : answered[j] < queue[k]
=============================================================================
