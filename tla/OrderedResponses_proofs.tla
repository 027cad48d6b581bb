---------------------- MODULE OrderedResponses_proofs ----------------------
(* The abstract queue answers each request at most once and in order.      *)
EXTENDS OrderedResponses, TLAPS

OrderType == queue \in Seq(Nat) /\ answered \in Seq(Nat)

Inv == OrderType /\ AnsweredInOrder

(* What popleft does to a queue.                                           *)
LEMMA TailFacts ==
  ASSUME NEW q \in Seq(Nat), q # <<>>
  PROVE  /\ Tail(q) \in Seq(Nat) /\ Head(q) = q[1] /\ 1 \in DOMAIN q /\ Head(q) \in Nat
         /\ \A k \in DOMAIN Tail(q) :
              /\ k \in Nat \ {0} /\ k + 1 \in DOMAIN q /\ Tail(q)[k] = q[k + 1]
OBVIOUS

(* What append does to a queue.                                            *)
LEMMA AppendFacts ==
  ASSUME NEW q \in Seq(Nat), NEW x \in Nat
  PROVE  /\ Append(q, x) \in Seq(Nat)
         /\ \A k \in DOMAIN q : k \in 1..Len(q)
         /\ Len(q) \in Nat /\ DOMAIN Append(q, x) = 1..(Len(q) + 1)
         /\ \A k \in DOMAIN Append(q, x) :
              \/ k \in DOMAIN q /\ Append(q, x)[k] = q[k]
              \/ k = Len(q) + 1 /\ Append(q, x)[k] = x
OBVIOUS

(* Numbers that grow as requests arrive come back growing: the abstract    *)
(* queue answers each request at most once, in the order of arrival, also  *)
(* across drops.                                                           *)
THEOREM QueueAnswersInOrder ==
  ASSUME Requests \subseteq Nat
  PROVE  Spec => []AnsweredInOrder
<1>1. Init => Inv
  BY DEF Init, Inv, OrderType, AnsweredInOrder
<1>2. Inv /\ [Next]_vars => Inv'
  <2> SUFFICES ASSUME Inv, [Next]_vars PROVE Inv'
    OBVIOUS
  <2> USE DEF Inv, OrderType
  <2>1. ASSUME NEW n \in Requests, Request(n) PROVE Inv'
    <3>1. n \in Nat /\ queue' = Append(queue, n) /\ answered' = answered
      BY <2>1 DEF Request
    <3>2. \A k \in DOMAIN queue' : \/ k \in DOMAIN queue /\ queue'[k] = queue[k]
                                   \/ k = Len(queue) + 1 /\ queue'[k] = n
      BY <3>1, AppendFacts
    <3>3. queue' \in Seq(Nat) /\ Len(queue) \in Nat /\ \A k \in DOMAIN queue : k \in 1..Len(queue)
      BY <3>1, AppendFacts
    <3>4. \A j, k \in DOMAIN queue' : j < k => queue'[j] < queue'[k]
      BY <2>1, <3>2, <3>3 DEF Request, AnsweredInOrder
    <3>5. \A j \in DOMAIN answered, k \in DOMAIN queue' : answered[j] < queue'[k]
      BY <2>1, <3>2 DEF Request, AnsweredInOrder
    <3>6. QED
      BY <3>1, <3>3, <3>4, <3>5 DEF AnsweredInOrder
  <2>2. CASE Answer
    <3> DEFINE h == Head(queue)
    <3>1. queue # <<>> /\ queue' = Tail(queue) /\ answered' = Append(answered, h)
      BY <2>2 DEF Answer
    <3>2. /\ h \in Nat /\ h = queue[1] /\ 1 \in DOMAIN queue /\ queue' \in Seq(Nat)
          /\ \A k \in DOMAIN queue' :
               k \in Nat \ {0} /\ k + 1 \in DOMAIN queue /\ queue'[k] = queue[k + 1]
      BY <3>1, TailFacts
    <3>3. /\ answered' \in Seq(Nat) /\ Len(answered) \in Nat
          /\ DOMAIN answered' = 1..(Len(answered) + 1)
          /\ \A k \in DOMAIN answered : k \in 1..Len(answered)
          /\ \A k \in DOMAIN answered' :
               \/ k \in DOMAIN answered /\ answered'[k] = answered[k]
               \/ k = Len(answered) + 1 /\ answered'[k] = h
      BY <3>1, <3>2, AppendFacts
    <3>4. /\ \A j \in DOMAIN answered : answered[j] < h
          /\ \A k \in DOMAIN queue' : h < queue'[k]
          /\ \A j \in DOMAIN answered, k \in DOMAIN queue' : answered[j] < queue'[k]
      BY <3>2 DEF AnsweredInOrder
    <3>5. \A j, k \in DOMAIN answered' : j < k => answered'[j] < answered'[k]
      <4> SUFFICES ASSUME NEW j \in DOMAIN answered', NEW k \in DOMAIN answered', j < k
                   PROVE  answered'[j] < answered'[k]
        OBVIOUS
      <4>1. j \in DOMAIN answered /\ answered'[j] = answered[j]
        <5>1. k \in 1..(Len(answered) + 1)
          BY <3>3
        <5>2. j # Len(answered) + 1
          BY <3>3, <5>1
        <5>3. QED
          BY <3>3, <5>2
      <4>2. CASE k \in DOMAIN answered /\ answered'[k] = answered[k]
        BY <4>1, <4>2 DEF AnsweredInOrder
      <4>3. CASE answered'[k] = h
        BY <3>4, <4>1, <4>3
      <4>4. QED
        BY <3>3, <4>2, <4>3
    <3>6. \A j, k \in DOMAIN queue' : j < k => queue'[j] < queue'[k]
      BY <3>2 DEF AnsweredInOrder
    <3>7. \A j \in DOMAIN answered', k \in DOMAIN queue' : answered'[j] < queue'[k]
      <4> SUFFICES ASSUME NEW j \in DOMAIN answered', NEW k \in DOMAIN queue'
                   PROVE  answered'[j] < queue'[k]
        OBVIOUS
      <4>1. (j \in DOMAIN answered /\ answered'[j] = answered[j]) \/ answered'[j] = h
        BY <3>3
      <4>2. QED
        BY <3>4, <4>1
    <3>8. QED
      BY <3>2, <3>3, <3>5, <3>6, <3>7 DEF AnsweredInOrder
  <2>3. CASE Drop
    BY <2>3 DEF Drop, AnsweredInOrder
  <2>4. CASE UNCHANGED vars
    BY <2>4 DEF vars, AnsweredInOrder
  <2>5. QED
    BY <2>1, <2>2, <2>3, <2>4 DEF Next
<1>3. Inv => AnsweredInOrder
  BY DEF Inv
<1>4. QED
  BY <1>1, <1>2, <1>3, PTL DEF Spec
=============================================================================
