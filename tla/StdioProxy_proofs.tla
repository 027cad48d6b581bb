------------------------- MODULE StdioProxy_proofs -------------------------
(***************************************************************************)
(* Proofs about StdioProxy, for any ids, message kinds, gate, sizes and    *)
(* bounds: the type invariant, the bounded window, its wakeups and the     *)
(* drain event, that only permitted calls reach the server, and that the   *)
(* proxy implements OrderedResponses.                                      *)
(***************************************************************************)
EXTENDS StdioProxy, TLAPS

\* response_order.popleft() with its two events.
Pops ==
  /\ order # <<>>
  /\ order' = Tail(order)
  /\ popped' = Append(popped, Head(order))
  /\ released' = TRUE
  /\ drained' = (drained \/ Tail(order) = <<>>)

\* A step that neither reads nor admits a message.
QueueStep ==
  /\ UNCHANGED <<order, popped, released, drained>> \/ Pops
  /\ cpc' = "slot" <=> cpc = "slot"
  /\ UNCHANGED <<setup, req, cmsg>>

QueueInv == SlotInv /\ OrderInv /\ WindowBounded /\ SlotWakeup /\ DrainedMeansEmpty

(* A flush round takes the head off response_order or leaves it alone.     *)
LEMMA FlushQueue ==
  ASSUME NEW b, NEW s, Flush(order, b, s)
  PROVE  UNCHANGED <<order, popped, released, drained>> \/ Pops
BY DEF Flush, Ready, Pops, Release

(* What popleft does to a queue.                                           *)
LEMMA TailFacts ==
  ASSUME NEW S, NEW q \in Seq(S), q # <<>>
  PROVE  /\ Tail(q) \in Seq(S) /\ Len(Tail(q)) = Len(q) - 1 /\ Head(q) = q[1]
         /\ 1 \in DOMAIN q /\ Head(q) \in S /\ Len(q) \in Nat \ {0}
         /\ \A k \in DOMAIN Tail(q) : k + 1 \in DOMAIN q /\ Tail(q)[k] = q[k + 1]
OBVIOUS

(* What append does to a queue.                                            *)
LEMMA AppendFacts ==
  ASSUME NEW S, NEW q \in Seq(S), NEW x \in S
  PROVE  /\ Append(q, x) \in Seq(S) /\ Len(Append(q, x)) = Len(q) + 1
         /\ \A k \in DOMAIN Append(q, x) :
              \/ k \in DOMAIN q /\ Append(q, x)[k] = q[k]
              \/ k = Len(q) + 1 /\ Append(q, x)[k] = x
OBVIOUS

(* The queue invariants survive every step that only pops.                 *)
LEMMA QueueKept ==
  ASSUME TypeOK, PositionInv, QueueInv, QueueStep
  PROVE  QueueInv'
<1> USE ProxyAssumption DEF TypeOK, TablesOK, ClientOK, GhostsOK, MainOK
<1>1. CASE UNCHANGED <<order, popped, released, drained>>
  <2>1. SlotInv' /\ OrderInv'
    BY <1>1 DEF QueueStep, QueueInv, SlotInv, Id, OrderInv, OlderThan
  <2>2. WindowBounded' /\ DrainedMeansEmpty'
    BY <1>1 DEF QueueStep, QueueInv, WindowBounded, DrainedMeansEmpty, Mode
  <2>3. SlotWakeup'
    BY <1>1 DEF QueueStep, QueueInv, SlotWakeup, WindowFull, Mode
  <2>4. QED
    BY <2>1, <2>2, <2>3 DEF QueueInv
<1>2. CASE Pops
  <2>1. /\ order \in Seq(1..Len(req)) /\ popped \in Seq(1..Len(req)) /\ order # <<>>
        /\ Len(req) \in Nat /\ cmsg \in Nat
    BY <1>2 DEF Pops
  <2>2. Len(order') = Len(order) - 1 /\ Len(order) \in Nat
    BY <1>2, <2>1, TailFacts DEF Pops
  <2>3. \A k \in DOMAIN order' : \E j \in DOMAIN order : order'[k] = order[j]
    BY <1>2, <2>1, TailFacts DEF Pops
  <2>4. \A k \in DOMAIN popped' : \/ \E j \in DOMAIN popped : popped'[k] = popped[j]
                                  \/ popped'[k] = order[1]
    <3>1. order[1] \in 1..Len(req) /\ popped' = Append(popped, order[1])
      <4>1. order[1] = Head(order) /\ order[1] \in 1..Len(req)
        BY <2>1, TailFacts
      <4>2. QED
        BY <1>2, <4>1 DEF Pops
    <3>2. QED
      BY <2>1, <3>1, AppendFacts
  <2>5. OrderInv'
    <3>1. 1 \in DOMAIN order
      BY <2>1
    <3>2. QED
      BY <2>3, <2>4, <3>1 DEF QueueInv, OrderInv, OlderThan, QueueStep
  <2>6. WindowBounded'
    BY <2>2 DEF QueueStep, QueueInv, WindowBounded, Mode
  <2>7. SlotWakeup'
    <3>1. Mode' = Mode /\ released' = TRUE
      BY <1>2 DEF QueueStep, Pops, Mode
    <3>2. ~WindowFull'
      BY <2>2, <3>1 DEF QueueInv, WindowBounded, WindowFull
    <3>3. QED
      BY <3>1, <3>2 DEF SlotWakeup
  <2>8. DrainedMeansEmpty'
    <3>1. drained = FALSE
      BY <2>1 DEF QueueInv, DrainedMeansEmpty
    <3>2. QED
      BY <1>2, <3>1 DEF Pops, DrainedMeansEmpty
  <2>9. SlotInv'
    BY <2>3 DEF QueueInv, SlotInv, QueueStep, Id
  <2>10. QED
    BY <2>5, <2>6, <2>7, <2>8, <2>9 DEF QueueInv
<1>3. QED
  BY <1>1, <1>2 DEF QueueStep

(* A message that was read has an id of one side, or none.                 *)
LEMMA IdType ==
  ASSUME TypeOK, NEW n \in 1..Len(req)
  PROVE  /\ Id(n) \in Ids \cup {NoId}
         /\ Id(n) # NoId => Id(n) \in Ids
BY DEF TypeOK, TablesOK, Id, Messages, Ids

(* A flush round keeps the tables and the output well typed: the head has  *)
(* an id, and an entry that is not Nil has a frame.                        *)
LEMMA FlushType ==
  ASSUME TypeOK, SlotInv,
         NEW b \in [Ids -> Entries], NEW s \in [Ids -> Entries], Flush(order, b, s)
  PROVE  /\ order' \in Seq(1..Len(req)) /\ popped' \in Seq(1..Len(req))
         /\ blocked' \in [Ids -> Entries] /\ served' \in [Ids -> Entries]
         /\ out' \in Seq(Writes)
         /\ drained' \in BOOLEAN /\ released' \in BOOLEAN
<1>1. CASE ~Ready(order, b, s)
  BY <1>1 DEF Flush, TypeOK, TablesOK, MainOK, GhostsOK
<1>2. CASE Ready(order, b, s)
  <2> DEFINE h == Head(order)
             i == Id(h)
             e == IF b[i] # Nil THEN b[i] ELSE s[i]
  <2>1. h \in 1..Len(req) /\ i \in Ids
    <3>1. order # <<>> /\ h = order[1] /\ 1 \in DOMAIN order
      BY <1>2 DEF Ready, TypeOK, TablesOK
    <3>2. h \in 1..Len(req) /\ i # NoId
      BY <3>1 DEF TypeOK, TablesOK, SlotInv
    <3>3. QED
      BY <3>2, IdType
  <2>2. e \in Entries /\ e # Nil
    BY <1>2, <2>1 DEF Ready
  <2>3. e.from \in 0..MaxMessages /\ e.body \in Bodies
    BY <2>2 DEF Entries
  <2>4. Write(h, e.from, e.body)
    BY <1>2 DEF Flush
  <2>5. out' \in Seq(Writes)
    BY <2>1, <2>3, <2>4, ProxyAssumption DEF Write, Writes, TypeOK, TablesOK, MainOK, GhostsOK
  <2>6. blocked' \in [Ids -> Entries] /\ served' \in [Ids -> Entries]
    BY <1>2, <2>1 DEF Flush, Entries
  <2>7. order' \in Seq(1..Len(req)) /\ popped' \in Seq(1..Len(req))
    <3>1. order # <<>> /\ order' = Tail(order) /\ popped' = Append(popped, h)
      BY <1>2 DEF Flush, Ready
    <3>2. order \in Seq(1..Len(req)) /\ popped \in Seq(1..Len(req))
      BY DEF TypeOK, TablesOK, GhostsOK
    <3>3. QED
      BY <2>1, <3>1, <3>2
  <2>8. drained' \in BOOLEAN /\ released' \in BOOLEAN
    BY <1>2 DEF Flush, Release
  <2>9. QED
    BY <2>5, <2>6, <2>7, <2>8
<1>3. QED
  BY <1>1, <1>2

(* Reading a message widens the range of tickets.                          *)
LEMMA Widen ==
  ASSUME NEW m \in Nat, NEW q \in Seq(1..m)
  PROVE  q \in Seq(1..(m + 1))
<1>1. Len(q) \in Nat /\ q \in [1..Len(q) -> 1..m] 
  OBVIOUS
<1>2. q \in [1..Len(q) -> 1..(m + 1)]
  BY <1>1
<1>3. QED
  BY <1>1, <1>2

(* A written frame is well typed.                                          *)
LEMMA WriteType ==
  ASSUME TypeOK, NEW slot \in 0..MaxMessages, NEW from \in 0..MaxMessages, NEW body \in Bodies,
         Write(slot, from, body)
  PROVE  out' \in Seq(Writes)
BY DEF TypeOK, MainOK, GhostsOK, Write, Writes

(* Refusing a request keeps the state well typed.                          *)
LEMMA RefuseType ==
  ASSUME TypeOK, SlotInv, NEW n \in 1..Len(req), NEW body \in RequestErrors, Refuse(n, body)
  PROVE  /\ order' \in Seq(1..Len(req)) /\ popped' \in Seq(1..Len(req))
         /\ blocked' \in [Ids -> Entries] /\ served' \in [Ids -> Entries]
         /\ out' \in Seq(Writes)
         /\ drained' \in BOOLEAN /\ released' \in BOOLEAN
         /\ cpc' \in {"read", "flush"}
<1>1. n \in 0..MaxMessages /\ body \in Bodies /\ 0 \in 0..MaxMessages
  BY ProxyAssumption DEF TypeOK, TablesOK, Bodies
<1>2. CASE Id(n) = NoId
  BY <1>1, <1>2, WriteType DEF Refuse, TypeOK, TablesOK, GhostsOK, MainOK, events
<1>3. CASE Id(n) # NoId
  <2> DEFINE b == [blocked EXCEPT ![Id(n)] =
                     [from |-> n, body |-> body, size |-> ErrorSize, gated |-> FALSE]]
  <2>1. b \in [Ids -> Entries] /\ served \in [Ids -> Entries]
    BY <1>1, ProxyAssumption DEF TypeOK, TablesOK, Entries
  <2>2. Flush(order, b, served) /\ cpc' \in {"read", "flush"}
    BY <1>3 DEF Refuse
  <2>3. QED
    BY <2>1, <2>2, FlushType
<1>4. QED
  BY <1>2, <1>3

(* Storing a response and flushing keeps the state well typed.             *)
LEMMA DeliverType ==
  ASSUME TypeOK, SlotInv, NEW i \in Ids, NEW e \in Entries, Deliver(i, e)
  PROVE  /\ order' \in Seq(1..Len(req)) /\ popped' \in Seq(1..Len(req))
         /\ blocked' \in [Ids -> Entries] /\ served' \in [Ids -> Entries]
         /\ out' \in Seq(Writes)
         /\ drained' \in BOOLEAN /\ released' \in BOOLEAN
         /\ spc' \in {"read", "flush"}
<1> DEFINE s == [served EXCEPT ![i] = e]
<1>1. s \in [Ids -> Entries] /\ blocked \in [Ids -> Entries]
  BY DEF TypeOK, TablesOK
<1>2. Flush(order, blocked, s) /\ spc' \in {"read", "flush"}
  BY DEF Deliver
<1>3. QED
  BY <1>1, <1>2, FlushType

(* Taking a frame from the server keeps the state well typed.              *)
LEMMA ReceiveType ==
  ASSUME TypeOK, SlotInv, NEW i \in Ids, NEW n \in 0..Len(req), NEW z \in Sizes,
         Receive(i, n, z), UNCHANGED req
  PROVE  /\ TablesOK' /\ ServerOK'
         /\ popped' \in Seq(1..Len(req)) /\ out' \in Seq(Writes)
         /\ drained' \in BOOLEAN /\ released' \in BOOLEAN
<1> USE ProxyAssumption DEF events, serverVars
<1>1. CASE /\ Pop(i)
           /\ Write(0, n, "raw")
           /\ UNCHANGED <<order, blocked, served, events, serverVars, shadow, popped>>
  <2>1. n \in 0..MaxMessages /\ 0 \in 0..MaxMessages /\ "raw" \in Bodies
    BY DEF TypeOK, TablesOK, Bodies
  <2>2. out' \in Seq(Writes)
    BY <1>1, <2>1, WriteType
  <2>3. QED
    BY <1>1, <2>2 DEF Pop, TypeOK, TablesOK, ServerOK, GhostsOK, MainOK
<1>2. CASE /\ Pop(i)
           /\ smsg' = [id |-> i, from |-> n, size |-> z, over |-> FALSE, gated |-> TRUE]
           /\ LET e == [from |-> n, body |-> "raw", size |-> z, gated |-> TRUE]
                  review == n # 0 /\ content'[n] # "failed"
                  flushing == Ready(order, blocked, [served EXCEPT ![i] = e])
              IN  /\ Deliver(i, e)
                  /\ act' = IF review /\ flushing THEN "review" ELSE "none"
                  /\ shadow' = IF review /\ ~flushing THEN shadow \cup {n} ELSE shadow
  <2> DEFINE e == [from |-> n, body |-> "raw", size |-> z, gated |-> TRUE]
  <2>1. e \in Entries
    BY DEF Entries, Bodies, TypeOK, TablesOK
  <2>2. Deliver(i, e)
    BY <1>2
  <2>3. TablesOK'
    BY <1>2, <2>1, <2>2, DeliverType DEF Pop, TypeOK, TablesOK
  <2>4. spc' \in {"read", "flush"} /\ smsg' = [id |-> i, from |-> n, size |-> z, over |-> FALSE,
        gated |-> TRUE]
    BY <1>2, <2>1, <2>2, DeliverType
  <2>5. act' \in {"review", "none"} /\ (shadow' = shadow \/ (n # 0 /\ shadow' = shadow \cup {n}))
    BY <1>2
  <2>6. ServerOK'
    <3>1. smsg' \in [id : Ids \cup {NoId}, from : 0..Len(req), size : Nat, over : BOOLEAN,
                     gated : BOOLEAN]
      BY <2>4
    <3>2. shadow' \subseteq 1..Len(req)
      <4>1. n # 0 => n \in 1..Len(req)
        BY DEF TypeOK, TablesOK
      <4>2. shadow \subseteq 1..Len(req)
        BY DEF TypeOK, ServerOK
      <4>3. QED
        BY <2>5, <4>1, <4>2
    <3>3. QED
      BY <2>4, <2>5, <3>1, <3>2 DEF ServerOK
  <2>7. QED
    BY <2>1, <2>2, <2>3, <2>6, DeliverType
<1>3. CASE /\ smsg' = [id |-> i, from |-> n, size |-> z,
                       over |-> pending[i] # 0 /\ Mode # "off" /\ OverLimit(z),
                       gated |-> pending[i] # 0 /\ Mode # "off"]
           /\ spc' = "inspect"
           /\ UNCHANGED <<order, blocked, served, pending, events, act, shadow, out, popped>>
  BY <1>3 DEF TypeOK, TablesOK, ServerOK, GhostsOK, MainOK
<1>4. QED
  BY <1>1, <1>2, <1>3 DEF Receive

(* GatewayRuntime.pending maps ids to tickets.                             *)
LEMMA RegisterType ==
  ASSUME TypeOK, NEW n \in 1..Len(req), Register(n)
  PROVE  pending' \in [Ids -> 0..Len(req)]
<1>1. pending \in [Ids -> 0..Len(req)] /\ n \in 0..Len(req)
  BY DEF TypeOK, TablesOK
<1>2. QED
  BY <1>1 DEF Register

(* The frame that replaces a held response is well typed.                  *)
LEMMA ReplyType ==
  ASSUME TypeOK, NEW body \in Bodies
  PROVE  Reply(body) \in Entries
<1>1. smsg.from \in 0..MaxMessages /\ smsg.size \in Nat /\ smsg.gated \in BOOLEAN
  BY ProxyAssumption DEF TypeOK, TablesOK, ServerOK
<1>2. (IF body = "raw" THEN smsg.size ELSE ErrorSize) \in Nat
  BY <1>1, ProxyAssumption
<1>3. QED
  BY <1>1, <1>2 DEF Reply, Entries

(* The server answers requests, and those have ids.                        *)
LEMMA OwedId ==
  ASSUME TypeOK, PositionInv, NEW n \in owed
  PROVE  n \in 1..Len(req) /\ Id(n) \in Ids
<1>1. n \in 1..Len(req) /\ Expected(n)
  BY DEF TypeOK, EnvironmentOK, PositionInv
<1>2. req[n] \in Messages
  BY <1>1 DEF TypeOK, TablesOK
<1>3. req[n].id \in ClientIds
  BY <1>1, <1>2 DEF Expected, Messages
<1>4. QED
  BY <1>1, <1>3 DEF Id, Ids

(* Every step keeps the state well typed.                                  *)
LEMMA TypeStep == TypeOK /\ PositionInv /\ SlotInv /\ [Next]_vars => TypeOK'
<1> SUFFICES ASSUME TypeOK, PositionInv, SlotInv, [Next]_vars PROVE TypeOK'
  OBVIOUS
<1> USE ProxyAssumption DEF tables, events, clientVars, serverVars, mainVars, envVars, ghosts
<1>1. ASSUME NEW m \in Messages, ClientRead(m) PROVE TypeOK'
  <2> DEFINE n == Len(req) + 1
  <2>1. /\ req' \in Seq(Messages) /\ Len(req') = n /\ n <= MaxMessages
        /\ Len(req) \in Nat
    BY <1>1 DEF ClientRead, TypeOK, TablesOK
  <2>2. order' \in Seq(1..n) /\ popped' \in Seq(1..n)
    <3>1. order \in Seq(1..n) /\ popped \in Seq(1..n)
      BY <2>1, Widen DEF TypeOK, TablesOK, GhostsOK
    <3>2. n \in 1..n
      BY <2>1
    <3>3. (order' = order \/ order' = Append(order, n)) /\ popped' = popped
      BY <1>1 DEF ClientRead, Admit
    <3>4. Append(order, n) \in Seq(1..n)
      BY <3>1, <3>2, AppendFacts
    <3>5. QED
      BY <3>1, <3>3, <3>4
  <2>3. TablesOK'
    BY <1>1, <2>1, <2>2 DEF ClientRead, TypeOK, TablesOK
  <2>4. ClientOK'
    BY <1>1, <2>1 DEF ClientRead, Admit, TypeOK, ClientOK
  <2>5. ServerOK' /\ EnvironmentOK'
    BY <1>1, <2>1 DEF ClientRead, TypeOK, ServerOK, EnvironmentOK
  <2>6. MainOK'
    BY <1>1 DEF ClientRead, Admit, TypeOK, MainOK
  <2>7. GhostsOK'
    <3>1. out' = out \/ Write(0, n, "duplicate")
      BY <1>1 DEF ClientRead
    <3>2. out' \in Seq(Writes)
      BY <2>1, <3>1, WriteType DEF Bodies, TypeOK, GhostsOK
    <3>3. QED
      BY <1>1, <2>1, <2>2, <3>2 DEF ClientRead, TypeOK, GhostsOK
  <2>8. QED
    BY <2>3, <2>4, <2>5, <2>6, <2>7 DEF TypeOK
<1>2. ASSUME ClientSlot PROVE TypeOK'
  <2>1. cmsg \in 1..Len(req) /\ order' = Append(order, cmsg)
    BY <1>2 DEF ClientSlot, Admit, PositionInv
  <2>2. TablesOK'
    BY <1>2, <2>1, AppendFacts DEF ClientSlot, TypeOK, TablesOK
  <2>3. ClientOK' /\ MainOK'
    BY <1>2 DEF ClientSlot, Admit, TypeOK, ClientOK, MainOK
  <2>4. ServerOK' /\ EnvironmentOK' /\ GhostsOK'
    BY <1>2 DEF ClientSlot, TypeOK, ServerOK, EnvironmentOK, GhostsOK
  <2>5. QED
    BY <2>2, <2>3, <2>4 DEF TypeOK
<1>3. ASSUME NEW v \in {"allow", "block", "require_approval"}, ClientInspect(v) PROVE TypeOK'
  <2>1. cmsg \in 1..Len(req)
    BY <1>3 DEF ClientInspect, PositionInv
  <2>2. pending' \in [Ids -> 0..Len(req)]
    BY <1>3, <2>1, RegisterType DEF ClientInspect, TypeOK, TablesOK
  <2>3. TablesOK'
    BY <1>3, <2>2 DEF ClientInspect, TypeOK, TablesOK
  <2>4. ClientOK' /\ GhostsOK'
    BY <1>3 DEF ClientInspect, TypeOK, ClientOK, GhostsOK
  <2>5. ServerOK' /\ MainOK' /\ EnvironmentOK'
    BY <1>3 DEF ClientInspect, TypeOK, ServerOK, MainOK, EnvironmentOK
  <2>6. QED
    BY <2>3, <2>4, <2>5 DEF TypeOK
<1>4. ASSUME ClientRefuse PROVE TypeOK'
  <2>1. cmsg \in 1..Len(req) /\ "refused" \in RequestErrors /\ Refuse(cmsg, "refused")
    BY <1>4 DEF ClientRefuse, PositionInv, RequestErrors
  <2>2. TablesOK' /\ ClientOK'
    BY <1>4, <2>1, RefuseType DEF ClientRefuse, TypeOK, TablesOK, ClientOK
  <2>3. ServerOK' /\ EnvironmentOK'
    BY <1>4 DEF ClientRefuse, TypeOK, ServerOK, EnvironmentOK
  <2>4. MainOK' /\ GhostsOK'
    BY <1>4, <2>1, RefuseType DEF ClientRefuse, TypeOK, MainOK, GhostsOK
  <2>5. QED
    BY <2>2, <2>3, <2>4 DEF TypeOK
<1>5. ASSUME NEW s \in {"approved", "denied", "expired"}, ClientApproval(s) PROVE TypeOK'
  <2>1. cmsg \in 1..Len(req)
    BY <1>5 DEF ClientApproval, PositionInv
  <2>2. ServerOK'
    BY <1>5 DEF ClientApproval, TypeOK, ServerOK
  <2>3. CASE Consent(s)
    <3>1. pending' \in [Ids -> 0..Len(req)]
      BY <1>5, <2>1, <2>3, RegisterType DEF ClientApproval
    <3>2. TablesOK' /\ ClientOK' /\ MainOK'
      BY <1>5, <2>3, <3>1 DEF ClientApproval, TypeOK, TablesOK, ClientOK, MainOK
    <3>3. EnvironmentOK' /\ GhostsOK'
      BY <1>5, <2>1, <2>3 DEF ClientApproval, Consent, Send, TypeOK, EnvironmentOK, GhostsOK
    <3>4. QED
      BY <2>2, <3>2, <3>3 DEF TypeOK
  <2>4. CASE ~Consent(s)
    <3>1. PICK body \in RequestErrors : Refuse(cmsg, body)
      BY <1>5, <2>4 DEF ClientApproval, RequestErrors
    <3>2. TablesOK' /\ ClientOK'
      BY <1>5, <2>1, <2>4, <3>1, RefuseType DEF ClientApproval, TypeOK, TablesOK, ClientOK
    <3>3. MainOK' /\ GhostsOK'
      BY <1>5, <2>1, <2>4, <3>1, RefuseType DEF ClientApproval, TypeOK, MainOK, GhostsOK
    <3>4. EnvironmentOK'
      BY <1>5, <2>4 DEF ClientApproval, TypeOK, EnvironmentOK
    <3>5. QED
      BY <2>2, <3>2, <3>3, <3>4 DEF TypeOK
  <2>5. QED
    BY <2>3, <2>4
<1>6. ASSUME ClientForward \/ ClientEOF \/ ClientCrash PROVE TypeOK'
  <2> USE DEF ClientForward, ClientEOF, ClientCrash
  <2>1. ClientOK'
    BY <1>6 DEF TypeOK, ClientOK
  <2>2. faults' \in 0..MaxFaults
    BY <1>6 DEF TypeOK, EnvironmentOK
  <2>3. owed' \subseteq 1..Len(req)
    BY <1>6 DEF PositionInv, Send, TypeOK, EnvironmentOK
  <2>4. EnvironmentOK'
    BY <1>6, <2>2, <2>3 DEF TypeOK, EnvironmentOK
  <2>5. UNCHANGED <<tables, events, serverVars, shadow, mainVars, ghosts>>
    BY <1>6
  <2>6. QED
    BY <2>1, <2>4, <2>5 DEF TypeOK, TablesOK, ServerOK, MainOK, GhostsOK
<1>7. ASSUME ClientFlush PROVE TypeOK'
  <2>1. TablesOK' /\ ClientOK'
    BY <1>7, FlushType DEF ClientFlush, TypeOK, TablesOK, ClientOK
  <2>2. MainOK' /\ GhostsOK'
    BY <1>7, FlushType DEF ClientFlush, TypeOK, TablesOK, MainOK, GhostsOK
  <2>3. ServerOK' /\ EnvironmentOK'
    BY <1>7 DEF ClientFlush, TypeOK, ServerOK, EnvironmentOK
  <2>4. QED
    BY <2>1, <2>2, <2>3 DEF TypeOK
<1>8. ASSUME NEW n \in Tickets, NEW c \in Contents, NEW z \in Sizes, ServerRespond(n, c, z)
      PROVE TypeOK'
  <2>1. n \in 1..Len(req) /\ Id(n) \in Ids /\ Receive(Id(n), n, z)
    BY <1>8, OwedId DEF ServerRespond
  <2>2. content' \in [Tickets -> Contents \cup {"none", "approved"}]
    BY <1>8 DEF ServerRespond, TypeOK, GhostsOK
  <2>3. ClientOK' /\ EnvironmentOK'
    BY <1>8 DEF ServerRespond, TypeOK, ClientOK, EnvironmentOK
  <2>4. UNCHANGED <<req, mainVars, verdict>>
    BY <1>8 DEF ServerRespond
  <2>5. n \in 0..Len(req)
    BY <2>1
  <2>6. /\ TablesOK' /\ ServerOK' /\ popped' \in Seq(1..Len(req)) /\ out' \in Seq(Writes)
        /\ drained' \in BOOLEAN /\ released' \in BOOLEAN
    BY <2>1, <2>4, <2>5, ReceiveType
  <2>7. MainOK' /\ GhostsOK'
    BY <2>2, <2>4, <2>6 DEF TypeOK, MainOK, GhostsOK
  <2>8. QED
    BY <2>3, <2>6, <2>7 DEF TypeOK
<1>9. ASSUME NEW i \in ServerIds, NEW z \in Sizes, ServerRequest(i, z) PROVE TypeOK'
  <2>1. i \in Ids /\ 0 \in 0..Len(req) /\ Receive(i, 0, z)
    BY <1>9 DEF ServerRequest, Ids, TypeOK, TablesOK
  <2>2. ClientOK' /\ EnvironmentOK'
    BY <1>9 DEF ServerRequest, TypeOK, ClientOK, EnvironmentOK
  <2>3. UNCHANGED <<req, mainVars, verdict, content>>
    BY <1>9 DEF ServerRequest
  <2>4. QED
    BY <2>1, <2>2, <2>3, ReceiveType DEF TypeOK, TablesOK, ServerOK, MainOK, GhostsOK
<1>10. ASSUME ServerNotify PROVE TypeOK'
  <2>1. out' \in Seq(Writes)
    BY <1>10, WriteType DEF ServerNotify, Bodies
  <2>2. GhostsOK'
    BY <1>10, <2>1 DEF ServerNotify, TypeOK, GhostsOK
  <2>3. QED
    BY <1>10, <2>2 DEF ServerNotify, TypeOK, TablesOK, ClientOK, ServerOK, MainOK, EnvironmentOK
<1>11. ASSUME NEW c \in Contents, ServerInspect(c) PROVE TypeOK'
  <2>1. TablesOK'
    <3>1. pending \in [Ids -> 0..Len(req)] /\ 0 \in 0..Len(req)
      BY DEF TypeOK, TablesOK
    <3>2. pending' \in [Ids -> 0..Len(req)] 
      BY <1>11, <3>1 DEF ServerInspect, Pop
    <3>3. QED
      BY <1>11, <3>2 DEF ServerInspect, TypeOK, TablesOK
  <2>2. ServerOK'
    BY <1>11 DEF ServerInspect, GateAction, LimitAction, TypeOK, ServerOK
  <2>3. QED
    BY <1>11, <2>1, <2>2 DEF ServerInspect, TypeOK, ClientOK, MainOK, EnvironmentOK, GhostsOK
<1>12. ASSUME ServerDecide PROVE TypeOK'
  <2>1. ClientOK' /\ EnvironmentOK'
    BY <1>12 DEF ServerDecide, TypeOK, ClientOK, EnvironmentOK
  <2>2. CASE act = "require_approval"
    BY <1>12, <2>1, <2>2 DEF ServerDecide, TypeOK, TablesOK, ServerOK, MainOK, GhostsOK
  <2>3. CASE act # "require_approval"
    <3>1. smsg.id \in Ids /\ Deliver(smsg.id, Reply(ResultBody(act)))
      BY <1>12, <2>3 DEF ServerDecide, PositionInv
    <3>2. ResultBody(act) \in Bodies
      BY DEF ResultBody, Bodies, ResultErrors
    <3>3. Reply(ResultBody(act)) \in Entries
      BY <3>2, ReplyType
    <3>4. TablesOK' /\ ServerOK'
      BY <1>12, <2>3, <3>1, <3>3, DeliverType DEF ServerDecide, TypeOK, TablesOK, ServerOK
    <3>5. MainOK' /\ GhostsOK'
      BY <1>12, <2>3, <3>1, <3>3, DeliverType DEF ServerDecide, TypeOK, MainOK, GhostsOK
    <3>6. QED
      BY <2>1, <3>4, <3>5 DEF TypeOK
  <2>4. QED
    BY <2>2, <2>3
<1>13. ASSUME NEW s \in {"approved", "denied", "expired"}, ServerApproval(s) PROVE TypeOK'
  <2>1. PICK body \in Bodies : Deliver(smsg.id, Reply(body))
    BY <1>13 DEF ServerApproval, Bodies, ResultErrors
  <2>2. smsg.id \in Ids /\ Reply(body) \in Entries
    BY <1>13, ReplyType DEF ServerApproval, PositionInv
  <2>3. TablesOK' /\ ServerOK'
    BY <1>13, <2>1, <2>2, DeliverType DEF ServerApproval, TypeOK, TablesOK, ServerOK
  <2>4. content' \in [Tickets -> Contents \cup {"none", "approved"}]
    BY <1>13 DEF ServerApproval, TypeOK, GhostsOK
  <2>5. MainOK' /\ GhostsOK'
    BY <1>13, <2>1, <2>2, <2>4, DeliverType DEF ServerApproval, TypeOK, MainOK, GhostsOK
  <2>6. ClientOK' /\ EnvironmentOK'
    BY <1>13 DEF ServerApproval, TypeOK, ClientOK, EnvironmentOK
  <2>7. QED
    BY <2>3, <2>5, <2>6 DEF TypeOK
<1>14. ASSUME ServerFlush PROVE TypeOK'
  <2>1. TablesOK'
    BY <1>14, FlushType DEF ServerFlush, TypeOK, TablesOK
  <2>2. ServerOK'
    <3>1. smsg.from \in 0..Len(req) /\ (act = "review" => smsg.from \in 1..Len(req))
      BY DEF TypeOK, ServerOK, TablesOK, PositionInv
    <3>2. QED
      BY <1>14, <3>1 DEF ServerFlush, TypeOK, ServerOK
  <2>3. MainOK' /\ GhostsOK'
    BY <1>14, FlushType DEF ServerFlush, TypeOK, TablesOK, MainOK, GhostsOK
  <2>4. ClientOK' /\ EnvironmentOK'
    BY <1>14 DEF ServerFlush, TypeOK, ClientOK, EnvironmentOK
  <2>5. QED
    BY <2>1, <2>2, <2>3, <2>4 DEF TypeOK
<1>15. ASSUME ServerEOF \/ ServerCrash \/ ServerExit PROVE TypeOK'
  <2>1. TablesOK' /\ ClientOK' /\ MainOK' /\ GhostsOK'
    BY <1>15 DEF ServerEOF, ServerCrash, ServerExit, TypeOK, TablesOK, ClientOK, MainOK, GhostsOK
  <2>2. faults' \in 0..MaxFaults
    BY <1>15 DEF ServerEOF, ServerCrash, ServerExit, TypeOK, EnvironmentOK
  <2>3. EnvironmentOK'
    BY <1>15, <2>2 DEF ServerEOF, ServerCrash, ServerExit, TypeOK, EnvironmentOK
  <2>4. ServerOK'
    BY <1>15 DEF ServerEOF, ServerCrash, ServerExit, TypeOK, ServerOK
  <2>5. QED
    BY <2>1, <2>3, <2>4 DEF TypeOK
<1>16. ASSUME NEW n \in Tickets, ShadowReviewed(n) PROVE TypeOK'
  <2>1. ServerOK'
    BY <1>16 DEF ShadowReviewed, TypeOK, ServerOK
  <2>2. QED
    BY <1>16, <2>1 DEF ShadowReviewed, TypeOK, TablesOK, ClientOK, MainOK, EnvironmentOK, GhostsOK
<1>17. ASSUME MainStep \/ Interrupt PROVE TypeOK'
  <2> USE DEF MainStep, ClientDone, Drained, DrainTimeout, WaitTimeout, ProcessExited, ServerDone,
              ShadowWaited, Aborted, MainGoto, Interrupt
  <2>1. TablesOK'
    <3>1. order' = order \/ order' = <<>>
      BY <1>17
    <3>2. order' \in Seq(1..Len(req))
      <4>1. <<>> \in Seq(1..Len(req)) /\ order \in Seq(1..Len(req))
        BY DEF TypeOK, TablesOK
      <4>2. QED
        BY <3>1, <4>1
    <3>3. UNCHANGED <<req, blocked, served, pending>>
      BY <1>17
    <3>4. QED
      BY <3>2, <3>3 DEF TypeOK, TablesOK
  <2>2. MainOK'
    BY <1>17 DEF TypeOK, MainOK
  <2>3. UNCHANGED <<clientVars, serverVars, shadow, ghosts, req>>
    BY <1>17
  <2>4. ClientOK' /\ ServerOK' /\ GhostsOK'
    BY <2>3 DEF TypeOK, ClientOK, ServerOK, GhostsOK
  <2>5. EnvironmentOK'
    <3>1. faults' \in 0..MaxFaults
      BY <1>17 DEF TypeOK, EnvironmentOK
    <3>2. UNCHANGED <<setup, up, owed, asked, fromServer, req>>
      BY <1>17
    <3>3. QED
      BY <3>1, <3>2 DEF TypeOK, EnvironmentOK
  <2>6. QED
    BY <2>1, <2>2, <2>4, <2>5 DEF TypeOK
<1>18. CASE UNCHANGED vars
  BY <1>18 DEF vars, TypeOK, TablesOK, ClientOK, ServerOK, MainOK, EnvironmentOK, GhostsOK
<1>19. QED
  BY <1>1, <1>2, <1>3, <1>4, <1>5, <1>6, <1>7, <1>8, <1>9, <1>10, <1>11, <1>12, <1>13, <1>14,
     <1>15, <1>16, <1>17, <1>18
  DEF Next, Environment, ClientStep, ServerStep, Respond

(* The server task works on a frame with an id.                            *)
LEMMA ReceivePosition ==
  ASSUME PositionInv, NEW i \in Ids, NEW n, NEW z, Receive(i, n, z), spc = "read"
  PROVE  /\ spc' \in {"inspect", "inspected", "approval", "flush"} => smsg'.id \in Ids
         /\ act' = "review" => spc' = "flush" /\ smsg'.from # 0
BY DEF Receive, Deliver, PositionInv, serverVars

(* Every step keeps the tasks where PositionInv says they are.             *)
LEMMA PositionStep == TypeOK /\ PositionInv /\ SlotInv /\ [Next]_vars => PositionInv'
<1> SUFFICES ASSUME TypeOK, PositionInv, SlotInv, [Next]_vars PROVE PositionInv'
  OBVIOUS
<1> USE ProxyAssumption DEF tables, events, clientVars, serverVars, mainVars, envVars, ghosts,
      TypeOK, TablesOK, ClientOK, PositionInv, Id, Expected, MainOK
<1>1. ASSUME NEW m \in Messages, ClientRead(m) PROVE PositionInv'
  <2>1. Len(req') = Len(req) + 1 /\ Len(req) \in Nat /\ req'[Len(req) + 1] = m
    BY <1>1 DEF ClientRead
  <2>2. \A n \in 1..Len(req) : req'[n] = req[n]
    BY <1>1 DEF ClientRead
  <2>3. \A n \in owed' : Expected(n)'
    BY <1>1, <2>2 DEF ClientRead, EnvironmentOK
  <2>4. cpc' \notin {"read", "done", "failed"} => cmsg' = Len(req) + 1
    BY <1>1 DEF ClientRead, Admit
  <2>5. cpc' = "slot" => m.id # NoId
    BY <1>1 DEF ClientRead, Admit
  <2>6. QED
    <3>1. /\ cpc' \notin {"read", "done", "failed"} => cmsg' \in 1..Len(req')
          /\ cpc' = "slot" => cmsg' = Len(req') /\ req'[cmsg'].id # NoId
      BY <2>1, <2>4, <2>5
    <3>2. UNCHANGED <<spc, smsg, act, main>> /\ main \in {"client", "exited"}
      BY <1>1 DEF ClientRead
    <3>3. QED
      BY <2>3, <3>1, <3>2
<1>2. ASSUME ClientSlot \/ ClientEOF \/ ClientFlush \/ ClientCrash PROVE PositionInv'
  BY <1>2 DEF ClientSlot, Admit, ClientEOF, ClientFlush, ClientCrash
<1>3. ASSUME NEW v \in {"allow", "block", "require_approval"}, ClientInspect(v)
      PROVE PositionInv'
  BY <1>3 DEF ClientInspect
<1>4. ASSUME NEW s \in {"approved", "denied", "expired"},
             ClientApproval(s) \/ ClientRefuse \/ ClientForward
      PROVE PositionInv'
  BY <1>4 DEF ClientApproval, ClientRefuse, Refuse, ClientForward, Send
<1>5. ASSUME NEW n \in Tickets, NEW c \in Contents, NEW z \in Sizes, ServerRespond(n, c, z)
      PROVE PositionInv'
  <2>1. Id(n) \in Ids /\ Receive(Id(n), n, z)
    BY <1>5, OwedId DEF ServerRespond
  <2>2. /\ spc' \in {"inspect", "inspected", "approval", "flush"} => smsg'.id \in Ids
        /\ act' = "review" => spc' = "flush" /\ smsg'.from # 0
    BY <1>5, <2>1, ReceivePosition DEF ServerRespond
  <2>3. QED
    BY <1>5, <2>2 DEF ServerRespond
<1>6. ASSUME NEW i \in ServerIds, NEW z \in Sizes, ServerRequest(i, z) PROVE PositionInv'
  <2>1. /\ spc' \in {"inspect", "inspected", "approval", "flush"} => smsg'.id \in Ids
        /\ act' = "review" => spc' = "flush" /\ smsg'.from # 0
    BY <1>6, ReceivePosition DEF ServerRequest, Ids
  <2>2. QED
    BY <1>6, <2>1 DEF ServerRequest
<1>7. ASSUME NEW c \in Contents, ServerInspect(c) PROVE PositionInv'
  BY <1>7 DEF ServerInspect, GateAction, LimitAction
<1>8. ASSUME NEW s \in {"approved", "denied", "expired"}, ServerDecide \/ ServerApproval(s)
      PROVE PositionInv'
  BY <1>8 DEF ServerDecide, ServerApproval, Deliver
<1>9. ASSUME ServerNotify \/ ServerFlush \/ ServerEOF \/ ServerCrash \/ ServerExit
      PROVE PositionInv'
  BY <1>9 DEF ServerNotify, ServerFlush, ServerEOF, ServerCrash, ServerExit
<1>10. ASSUME NEW n \in Tickets, ShadowReviewed(n) PROVE PositionInv'
  BY <1>10 DEF ShadowReviewed
<1>11. ASSUME MainStep \/ Interrupt \/ UNCHANGED vars PROVE PositionInv'
  BY <1>11 DEF MainStep, ClientDone, Drained, DrainTimeout, WaitTimeout, ProcessExited,
     ServerDone, ShadowWaited, Aborted, MainGoto, Interrupt, vars
<1>12. QED
  BY <1>1, <1>2, <1>3, <1>4, <1>5, <1>6, <1>7, <1>8, <1>9, <1>10, <1>11
  DEF Next, Environment, ClientStep, ServerStep, Respond

(* Only reading, getting a slot and the drain timeout change               *)
(* response_order other than by popping its head.                          *)
LEMMA QueueSteps ==
  ASSUME TypeOK, PositionInv, [Next]_vars
  PROVE  (\E m \in Messages : ClientRead(m)) \/ ClientSlot \/ DrainTimeout \/ QueueStep
<1> USE DEF tables, events, clientVars, serverVars, mainVars, envVars, ghosts, QueueStep
<1>1. ASSUME NEW v \in {"allow", "block", "require_approval"}, ClientInspect(v)
      PROVE QueueStep
  BY <1>1 DEF ClientInspect
<1>2. ASSUME NEW s \in {"approved", "denied", "expired"},
             ClientApproval(s) \/ ClientRefuse \/ ClientFlush
      PROVE QueueStep
  BY <1>2, FlushQueue DEF ClientApproval, ClientRefuse, Refuse, ClientFlush
<1>3. ASSUME ClientEOF \/ ClientForward \/ ClientCrash PROVE QueueStep
  BY <1>3 DEF ClientEOF, ClientForward, ClientCrash
<1>4. ASSUME NEW i, NEW n, NEW z, Receive(i, n, z), UNCHANGED <<setup, req, clientVars>>
      PROVE QueueStep
  BY <1>4, FlushQueue DEF Receive, Deliver
<1>5. ASSUME NEW n \in Tickets, NEW c \in Contents, NEW z \in Sizes, ServerRespond(n, c, z)
      PROVE QueueStep
  BY <1>4, <1>5 DEF ServerRespond
<1>6. ASSUME NEW i \in ServerIds, NEW z \in Sizes, ServerRequest(i, z) PROVE QueueStep
  BY <1>4, <1>6 DEF ServerRequest
<1>7. ASSUME NEW c \in Contents, ServerInspect(c) PROVE QueueStep
  BY <1>7 DEF ServerInspect
<1>8. ASSUME NEW s \in {"approved", "denied", "expired"},
             ServerDecide \/ ServerApproval(s) \/ ServerFlush
      PROVE QueueStep
  BY <1>8, FlushQueue DEF ServerDecide, ServerApproval, ServerFlush, Deliver
<1>9. ASSUME ServerNotify \/ ServerEOF \/ ServerCrash \/ ServerExit PROVE QueueStep
  BY <1>9 DEF ServerNotify, ServerEOF, ServerCrash, ServerExit
<1>10. ASSUME NEW n \in Tickets, ShadowReviewed(n) PROVE QueueStep
  BY <1>10 DEF ShadowReviewed
<1>11. ASSUME MainStep \/ Interrupt \/ UNCHANGED vars PROVE QueueStep \/ DrainTimeout
  BY <1>11 DEF MainStep, ClientDone, Drained, WaitTimeout, ProcessExited, ServerDone,
     ShadowWaited, Aborted, MainGoto, Interrupt, vars
<1>12. QED
  BY <1>1, <1>2, <1>3, <1>5, <1>6, <1>7, <1>8, <1>9, <1>10, <1>11
  DEF Next, Environment, ClientStep, ServerStep, Respond

(* Reading a message keeps the queue invariants.                           *)
LEMMA ReadQueue ==
  ASSUME TypeOK, PositionInv, QueueInv, NEW m \in Messages, ClientRead(m)
  PROVE  QueueInv'
<1> DEFINE n == Len(req) + 1
<1>1. /\ Len(req) \in Nat /\ Len(req') = n /\ req'[n] = m
      /\ \A j \in 1..Len(req) : req'[j] = req[j]
  BY DEF ClientRead, TypeOK, TablesOK
<1>2. /\ order \in Seq(1..Len(req)) /\ popped \in Seq(1..Len(req)) /\ popped' = popped
      /\ cpc = "read" /\ Len(order) \in Nat /\ Mode' = Mode
  BY DEF ClientRead, Mode, TypeOK, TablesOK, GhostsOK
<1>3. /\ \A k \in DOMAIN order : order[k] \in 1..Len(req)
      /\ \A k \in DOMAIN popped : popped[k] \in 1..Len(req)
  BY <1>2
<1>4. /\ OlderThan(order, n) /\ OlderThan(popped, n)
      /\ OlderThan(order, n + 1) /\ OlderThan(popped, n + 1)
  BY <1>1, <1>3 DEF OlderThan
<1>5. \A k \in DOMAIN order : req'[order[k]].id # NoId
  BY <1>1, <1>3 DEF QueueInv, SlotInv, Id
<1>6. CASE UNCHANGED <<cpc, cmsg, order, drained, released>>
  <2>1. SlotInv'
    BY <1>5, <1>6 DEF SlotInv, Id
  <2>2. OrderInv'
    BY <1>1, <1>2, <1>4, <1>6 DEF OrderInv
  <2>3. QED
    BY <1>2, <1>6, <2>1, <2>2 DEF QueueInv, WindowBounded, SlotWakeup, WindowFull, DrainedMeansEmpty
<1>7. CASE /\ WindowFull /\ cpc' = "slot" /\ cmsg' = n /\ released' = FALSE
           /\ UNCHANGED <<order, drained>>
  <2>1. SlotInv'
    BY <1>5, <1>7 DEF SlotInv, Id
  <2>2. OrderInv'
    BY <1>2, <1>4, <1>7 DEF OrderInv
  <2>3. QED
    BY <1>2, <1>7, <2>1, <2>2 DEF QueueInv, WindowBounded, SlotWakeup, WindowFull, DrainedMeansEmpty
<1>8. CASE (m.id = NoId \/ ~WindowFull) /\ Admit(n, m.id)
  <2>1. CASE m.id = NoId
    <3>1. UNCHANGED <<order, drained>> /\ cpc' = "inspect"
      BY <1>8, <2>1 DEF Admit
    <3>2. SlotInv'
      BY <1>5, <3>1 DEF SlotInv, Id
    <3>3. OrderInv'
      BY <1>1, <1>2, <1>4, <3>1 DEF OrderInv
    <3>4. QED
      BY <1>2, <3>1, <3>2, <3>3 DEF QueueInv, WindowBounded, SlotWakeup, DrainedMeansEmpty
  <2>2. CASE m.id # NoId
    <3>1. order' = Append(order, n) /\ drained' = FALSE /\ cpc' = "inspect" /\ ~WindowFull
      BY <1>8, <2>2 DEF Admit
    <3>2. order \in Seq(1..n) /\ n \in 1..n
      BY <1>1, <1>2, Widen
    <3>3. \A k \in DOMAIN order' : \/ k \in DOMAIN order /\ order'[k] = order[k]
                                   \/ order'[k] = n
      BY <3>1, <3>2, AppendFacts
    <3>4. SlotInv'
      BY <1>1, <1>5, <2>2, <3>3 DEF SlotInv, Id
    <3>5. OrderInv'
      <4>1. OlderThan(order', n + 1)
        BY <1>1, <1>3, <3>3 DEF OlderThan
      <4>2. QED
        BY <1>1, <1>2, <1>4, <3>1, <4>1 DEF OrderInv
    <3>6. Len(order') = Len(order) + 1
      BY <3>1, <3>2, AppendFacts
    <3>7. WindowBounded'
      BY <1>2, <3>1, <3>6, ProxyAssumption DEF WindowBounded, WindowFull
    <3>8. order' # <<>>
      BY <1>2, <3>6
    <3>9. QED
      BY <3>1, <3>4, <3>5, <3>7, <3>8 DEF QueueInv, SlotWakeup, DrainedMeansEmpty
  <2>3. QED
    BY <2>1, <2>2
<1>9. QED
  BY <1>6, <1>7, <1>8 DEF ClientRead

(* A client task that is woken finds room in the window.                   *)
LEMMA SlotQueue ==
  ASSUME TypeOK, PositionInv, QueueInv, ClientSlot
  PROVE  QueueInv'
<1> USE ProxyAssumption DEF TypeOK, TablesOK, ClientOK, GhostsOK, MainOK
<1>1. /\ cmsg = Len(req) /\ cmsg \in 1..Len(req) /\ Id(cmsg) # NoId /\ ~WindowFull
      /\ Len(order) \in Nat
  BY DEF ClientSlot, PositionInv, QueueInv, SlotWakeup
<1>2. /\ order' = Append(order, cmsg) /\ drained' = FALSE /\ cpc' = "inspect"
      /\ popped' = popped /\ req' = req /\ Mode' = Mode
  BY <1>1 DEF ClientSlot, Mode, Admit, tables, ghosts
<1>3. /\ Len(order') = Len(order) + 1
      /\ \A k \in DOMAIN order' : \/ k \in DOMAIN order /\ order'[k] = order[k]
                                  \/ order'[k] = cmsg
  BY <1>1, <1>2, AppendFacts
<1>4. SlotInv'
  BY <1>1, <1>2, <1>3 DEF QueueInv, SlotInv, Id
<1>5. OrderInv'
  BY <1>1, <1>2, <1>3 DEF OrderInv, OlderThan
<1>6. WindowBounded'
  BY <1>1, <1>2, <1>3 DEF WindowBounded, WindowFull
<1>7. order' # <<>>
  BY <1>1, <1>3
<1>8. QED
  BY <1>2, <1>4, <1>5, <1>6, <1>7 DEF QueueInv, SlotWakeup, DrainedMeansEmpty

(* Clearing response_order keeps the queue invariants: the client task is  *)
(* done and waits for nothing.                                             *)
LEMMA DrainQueue ==
  ASSUME TypeOK, PositionInv, QueueInv, DrainTimeout
  PROVE  QueueInv'
<1> USE ProxyAssumption DEF TypeOK, TablesOK, ClientOK, GhostsOK, MainOK
<1>1. cpc' = "done" /\ order' = <<>> /\ drained' = TRUE /\ popped' = popped /\ req' = req /\ cpc =
      "done"
  BY DEF DrainTimeout, PositionInv, clientVars, ghosts
<1>2. SlotInv' /\ OrderInv'
  BY <1>1 DEF QueueInv, SlotInv, OrderInv, OlderThan
<1>3. Len(order') = 0
  BY <1>1
<1>4. QED
  BY <1>1, <1>2, <1>3 DEF QueueInv, WindowBounded, SlotWakeup, DrainedMeansEmpty

(* The inductive invariant holds in every reachable state.                 *)
THEOREM Invariance == Spec => []IInv
<1> USE DEF IInv
<1>1. Init => IInv
  <2> SUFFICES ASSUME Init PROVE IInv
    OBVIOUS
  <2> USE ProxyAssumption DEF Init
  <2>1. TypeOK
    <3>1. TablesOK
      <4>1. /\ <<>> \in Seq(Messages) /\ <<>> \in Seq(1..0) /\ Len(<<>>) = 0
            /\ Nil \in Entries
        BY DEF Entries
      <4>2. QED
        BY <4>1 DEF TablesOK
    <3>2. ClientOK /\ MainOK
      <4>1. Len(req) = 0
        OBVIOUS
      <4>2. ClientOK
        BY <4>1 DEF ClientOK
      <4>3. QED
        BY <4>2 DEF MainOK
    <3>3. ServerOK /\ EnvironmentOK
      BY DEF ServerOK, EnvironmentOK, NoMessage
    <3>4. GhostsOK
      BY DEF GhostsOK
    <3>5. QED
      BY <3>1, <3>3, <3>4, <3>2 DEF TypeOK
  <2>2. PositionInv /\ SlotInv /\ OrderInv
    BY DEF PositionInv, SlotInv, OrderInv, OlderThan
  <2>3. WindowBounded /\ SlotWakeup /\ DrainedMeansEmpty
    BY DEF WindowBounded, SlotWakeup, DrainedMeansEmpty
  <2>4. QED
    BY <2>1, <2>2, <2>3
<1>2. IInv /\ [Next]_vars => IInv'
  <2> SUFFICES ASSUME IInv, [Next]_vars PROVE IInv'
    OBVIOUS
  <2>1. TypeOK' /\ PositionInv'
    BY TypeStep, PositionStep
  <2>2. QueueInv'
    <3>1. TypeOK /\ PositionInv /\ QueueInv
      BY DEF QueueInv
    <3>2. QED
      BY <3>1, QueueSteps, ReadQueue, SlotQueue, DrainQueue, QueueKept
  <2>3. QED
    BY <2>1, <2>2 DEF QueueInv
<1>3. QED
  BY <1>1, <1>2, PTL DEF Spec

(* A step of the proxy requests, answers or drops in OrderedResponses, or  *)
(* leaves its state alone.                                                 *)
LEMMA OrderStep == IInv /\ [Next]_vars => [Ordered!Next]_(Ordered!vars)
<1> SUFFICES ASSUME IInv, [Next]_vars PROVE [Ordered!Next]_(Ordered!vars)
  OBVIOUS
<1> USE DEF Ordered!Next, Ordered!vars
<1>1. ASSUME NEW m \in Messages, ClientRead(m)
      PROVE  Ordered!Request(Len(req) + 1) \/ UNCHANGED <<order, popped>>
  <2>1. \/ order' = Append(order, Len(req) + 1)
        \/ order' = order
    BY <1>1 DEF ClientRead, Admit
  <2>2. popped' = popped /\ cpc = "read"
    BY <1>1 DEF ClientRead
  <2>3. QED
    BY <2>1, <2>2 DEF IInv, OrderInv, OlderThan, Ordered!Request
<1>2. ASSUME ClientSlot PROVE Ordered!Request(cmsg)
  <2>1. order' = Append(order, cmsg) /\ popped' = popped
    BY <1>2 DEF ClientSlot, Admit, IInv, PositionInv, ghosts
  <2>2. QED
    BY <1>2, <2>1 DEF IInv, OrderInv, OlderThan, ClientSlot, Ordered!Request
<1>3. ASSUME DrainTimeout PROVE Ordered!Drop
  BY <1>3 DEF DrainTimeout, ghosts, Ordered!Drop
<1>4. ASSUME QueueStep PROVE Ordered!Answer \/ UNCHANGED <<order, popped>>
  BY <1>4 DEF QueueStep, Pops, Ordered!Answer
<1>5. Len(req) + 1 \in Nat /\ \A m \in Messages : ClientRead(m) => Len(req) + 1 \in Tickets
  BY DEF ClientRead, Tickets, IInv, TypeOK, TablesOK
<1>6. ClientSlot => cmsg \in Tickets
  BY ProxyAssumption DEF ClientSlot, Tickets, IInv, PositionInv, TypeOK, TablesOK
<1>7. QED
  BY <1>1, <1>2, <1>3, <1>4, <1>5, <1>6, QueueSteps DEF IInv

(* flush_ordered_responses answers requests in order and none twice,       *)
(* whichever tasks flush, however they interleave with reviews, approvals, *)
(* failures and the shutdown.                                              *)
THEOREM ProxyImplementsOrder == Spec => ImplementsOrder
<1>1. Init => Ordered!Init
  BY DEF Init, Ordered!Init
<1>2. QED
  BY <1>1, OrderStep, Invariance, PTL DEF Spec, ImplementsOrder, Ordered!Spec

(* Every variable of the proxy keeps its type.                             *)
THEOREM TypeCorrect == Spec => []TypeOK
<1>1. IInv => TypeOK
  BY DEF IInv
<1>2. QED
  BY <1>1, Invariance, PTL

(* response_order never outgrows max_pending_responses.                    *)
THEOREM WindowCorrect == Spec => []WindowBounded
<1>1. IInv => WindowBounded
  BY DEF IInv
<1>2. QED
  BY <1>1, Invariance, PTL

(* The client task is never left waiting while there is room in the        *)
(* window, and never woken without.                                        *)
THEOREM WakeupCorrect == Spec => []SlotWakeup
<1>1. IInv => SlotWakeup
  BY DEF IInv
<1>2. QED
  BY <1>1, Invariance, PTL

(* responses_drained is set exactly when response_order is empty.          *)
THEOREM DrainCorrect == Spec => []DrainedMeansEmpty
<1>1. IInv => DrainedMeansEmpty
  BY DEF IInv
<1>2. QED
  BY <1>1, Invariance, PTL
-----------------------------------------------------------------------------
(* OnlyPermittedForwarded.                                                 *)

\* The server cannot have answered, nor owe an answer to, the message the
\* client task is still deciding about; what is forwarded was allowed; and a
\* result under review came from the server.
PermitInv ==
  /\ \A n \in Tickets : content[n] # "none" => n \in 1..Len(req)
  /\ cpc \in {"slot", "inspect", "approval", "forward"} =>
       cmsg \notin owed /\ content[cmsg] = "none"
  /\ cpc = "forward" => verdict[cmsg] = "allow"
  /\ spc \in {"inspect", "inspected", "approval"} /\ smsg.from # 0 =>
       content[smsg.from] # "none"
  /\ OnlyPermittedForwarded

\* A step that touches nothing PermitInv speaks of but the program counters,
\* and those only to leave.
PermitStep ==
  /\ UNCHANGED <<req, owed, content, verdict, cmsg>>
  /\ cpc' \in {"slot", "inspect", "approval", "forward"} =>
       cpc' = cpc \/ (cpc = "slot" /\ cpc' = "inspect")
  /\ \/ spc' \notin {"inspect", "inspected", "approval"}
     \/ spc \in {"inspect", "inspected", "approval"} /\ smsg' = smsg

(* Such a step keeps PermitInv.                                            *)
LEMMA PermitKept ==
  ASSUME PermitInv, PermitStep
  PROVE  PermitInv'
<1>1. /\ UNCHANGED <<req, owed, content, verdict, cmsg>>
      /\ cpc' \in {"slot", "inspect", "approval", "forward"} =>
           cpc \in {"slot", "inspect", "approval", "forward"}
      /\ cpc' = "forward" => cpc = "forward"
  BY DEF PermitStep
<1>2. OnlyPermittedForwarded'
  BY <1>1 DEF PermitInv, OnlyPermittedForwarded
<1>3. spc' \in {"inspect", "inspected", "approval"} /\ smsg'.from # 0 =>
        content[smsg'.from] # "none"
  BY DEF PermitInv, PermitStep
<1>4. QED
  BY <1>1, <1>2, <1>3 DEF PermitInv

(* A message that is read is new to the server.                            *)
LEMMA PermitRead ==
  ASSUME IInv, PermitInv, NEW m \in Messages, ClientRead(m)
  PROVE  PermitInv'
<1> DEFINE n == Len(req) + 1
<1>1. /\ Len(req) \in Nat /\ Len(req') = n /\ n \in Tickets /\ cpc = "read"
      /\ UNCHANGED <<owed, content, verdict, spc, smsg>>
      /\ owed \subseteq 1..Len(req)
  BY DEF ClientRead, IInv, TypeOK, TablesOK, EnvironmentOK, Tickets, serverVars
<1>2. /\ \/ cpc' = "read"
         \/ cpc' \in {"slot", "inspect"} /\ cmsg' = n
  BY <1>1 DEF ClientRead, Admit
<1>3. n \notin owed /\ content[n] = "none"
  BY <1>1 DEF PermitInv
<1>4. OnlyPermittedForwarded'
  BY <1>1 DEF PermitInv, OnlyPermittedForwarded
<1>5. \A k \in Tickets : content[k] # "none" => k \in 1..n
  BY <1>1 DEF PermitInv
<1>6. QED
  BY <1>1, <1>2, <1>3, <1>4, <1>5 DEF PermitInv

(* The verdict on a message is given before the server can have it.        *)
LEMMA PermitInspect ==
  ASSUME IInv, PermitInv, NEW v, ClientInspect(v)
  PROVE  PermitInv'
<1>1. /\ UNCHANGED <<req, owed, content, cmsg, spc, smsg>>
      /\ cpc = "inspect" /\ cmsg \notin owed /\ content[cmsg] = "none"
      /\ verdict' = [verdict EXCEPT ![cmsg] = v]
      /\ cpc' \in {"forward", "refuse", "approval"} /\ (cpc' = "forward" => v = "allow")
  BY DEF ClientInspect, PermitInv, serverVars, envVars
<1>2. cmsg \in Tickets /\ DOMAIN verdict = Tickets
  BY <1>1, ProxyAssumption
  DEF IInv, TypeOK, TablesOK, GhostsOK, PositionInv, Tickets
<1>3. OnlyPermittedForwarded'
  BY <1>1, <1>2 DEF PermitInv, OnlyPermittedForwarded
<1>4. cpc' = "forward" => verdict'[cmsg'] = "allow"
  BY <1>1, <1>2
<1>5. QED
  BY <1>1, <1>3, <1>4 DEF PermitInv

(* What the client task sends was allowed, or approved.                    *)
LEMMA PermitSend ==
  ASSUME IInv, PermitInv, NEW s \in {"approved", "denied", "expired"},
         ClientForward \/ ClientApproval(s)
  PROVE  PermitInv'
<1>1. /\ UNCHANGED <<req, content, cmsg, spc, smsg>>
      /\ cpc \in {"forward", "approval"}
      /\ cpc' \in {"read", "failed", "flush"}
  BY DEF ClientForward, ClientApproval, Refuse, serverVars, tables, clientVars, ghosts
<1>2. /\ cmsg \in Tickets /\ DOMAIN verdict = Tickets
      /\ cmsg \notin owed /\ content[cmsg] = "none"
  BY <1>1, ProxyAssumption
  DEF IInv, TypeOK, TablesOK, GhostsOK, PositionInv, PermitInv, Tickets
<1>3. /\ owed' = owed \/ owed' = owed \cup {cmsg}
      /\ cmsg \in owed' => verdict'[cmsg] \in {"allow", "approved"}
      /\ verdict' = verdict \/ verdict' = [verdict EXCEPT ![cmsg] = s]
  <2>1. CASE ClientForward
    <3>1. verdict' = verdict /\ Send(cmsg) /\ verdict[cmsg] = "allow"
      BY <2>1 DEF ClientForward, ghosts, PermitInv
    <3>2. QED
      BY <3>1 DEF Send
  <2>2. CASE ClientApproval(s)
    <3>1. CASE Consent(s)
      <4>1. verdict' = [verdict EXCEPT ![cmsg] = s] /\ Send(cmsg) /\ s = "approved"
        BY <2>2, <3>1 DEF ClientApproval, Consent
      <4>2. QED
        BY <1>2, <4>1 DEF Send
    <3>2. CASE ~Consent(s)
      BY <1>2, <2>2, <3>2 DEF ClientApproval
    <3>3. QED
      BY <3>1, <3>2
  <2>3. QED
    BY <2>1, <2>2
<1>4. OnlyPermittedForwarded'
  BY <1>1, <1>2, <1>3 DEF PermitInv, OnlyPermittedForwarded
<1>5. QED
  BY <1>1, <1>4 DEF PermitInv

(* The server answers what it was sent.                                    *)
LEMMA PermitRespond ==
  ASSUME IInv, PermitInv, NEW n \in Tickets, NEW c \in Contents, NEW z \in Sizes,
         ServerRespond(n, c, z)
  PROVE  PermitInv'
<1>1. /\ UNCHANGED <<req, cpc, cmsg, verdict>> /\ n \in owed /\ owed' = owed \ {n}
      /\ content' = [content EXCEPT ![n] = c] /\ c # "none"
      /\ spc' \in {"read", "flush"} \/ smsg'.from = n
  BY DEF ServerRespond, clientVars, serverVars, Contents, Receive, Deliver
<1>2. DOMAIN content = Tickets /\ owed \subseteq 1..Len(req)
  BY DEF IInv, TypeOK, GhostsOK, EnvironmentOK
<1>3. spc = "read"
  BY DEF ServerRespond
<1>4. \A k \in Tickets : content'[k] = IF k = n THEN c ELSE content[k]
  BY <1>1, <1>2
<1>5. OnlyPermittedForwarded'
  BY <1>1, <1>4 DEF PermitInv, OnlyPermittedForwarded
<1>6. cpc \in {"slot", "inspect", "approval", "forward"} => cmsg \in Tickets /\ cmsg # n
  BY <1>1, ProxyAssumption DEF IInv, PositionInv, TypeOK, TablesOK, Tickets, PermitInv
<1>7. spc' \in {"inspect", "inspected", "approval"} => content'[smsg'.from] # "none"
  BY <1>1, <1>4
<1>8. \A k \in Tickets : content'[k] # "none" => k \in 1..Len(req)
  BY <1>1, <1>2, <1>4 DEF PermitInv
<1>9. QED
  BY <1>1, <1>4, <1>5, <1>6, <1>7, <1>8 DEF PermitInv

(* An approved result was a result before.                                 *)
LEMMA PermitApproval ==
  ASSUME IInv, PermitInv, NEW s, ServerApproval(s)
  PROVE  PermitInv'
<1>1. /\ UNCHANGED <<req, cpc, cmsg, verdict, owed>> /\ spc = "approval"
      /\ spc' \in {"read", "flush"}
      /\ \/ content' = content
         \/ smsg.from # 0 /\ content' = [content EXCEPT ![smsg.from] = "approved"]
  BY DEF ServerApproval, Deliver, clientVars, envVars
<1>2. smsg.from # 0 => smsg.from \in Tickets /\ content[smsg.from] # "none"
  BY <1>1, ProxyAssumption DEF PermitInv, IInv, TypeOK, TablesOK, ServerOK, Tickets
<1>3. DOMAIN content = Tickets
  BY DEF IInv, TypeOK, GhostsOK
<1>4. \A k \in Tickets : content'[k] # "none" <=> content[k] # "none"
  BY <1>1, <1>2, <1>3
<1>5. cpc \in {"slot", "inspect", "approval", "forward"} => cmsg \in Tickets
  BY ProxyAssumption DEF IInv, PositionInv, TypeOK, TablesOK, Tickets
<1>6. OnlyPermittedForwarded'
  BY <1>1, <1>4 DEF PermitInv, OnlyPermittedForwarded
<1>7. QED
  BY <1>1, <1>4, <1>5, <1>6 DEF PermitInv

(* The other steps do not touch what PermitInv is about.                   *)
LEMMA PermitSteps ==
  ASSUME [Next]_vars
  PROVE  \/ \E m \in Messages : ClientRead(m)
         \/ \E v \in {"allow", "block", "require_approval"} : ClientInspect(v)
         \/ \E s \in {"approved", "denied", "expired"} :
              ClientForward \/ ClientApproval(s) \/ ServerApproval(s)
         \/ \E n \in Tickets, c \in Contents, z \in Sizes : ServerRespond(n, c, z)
         \/ \E i \in ServerIds, z \in Sizes : ServerRequest(i, z)
         \/ PermitStep
<1> USE DEF tables, events, clientVars, serverVars, mainVars, envVars, ghosts, PermitStep
<1>1. ASSUME ClientSlot \/ ClientEOF \/ ClientCrash PROVE PermitStep
  BY <1>1 DEF ClientSlot, Admit, ClientEOF, ClientCrash
<1>2. ASSUME ClientRefuse \/ ClientFlush PROVE PermitStep
  BY <1>2 DEF ClientRefuse, Refuse, ClientFlush
<1>3. ASSUME NEW c \in Contents, ServerInspect(c) PROVE PermitStep
  BY <1>3 DEF ServerInspect
<1>4. ASSUME ServerDecide \/ ServerFlush PROVE PermitStep
  BY <1>4 DEF ServerDecide, ServerFlush, Deliver
<1>5. ASSUME ServerNotify \/ ServerEOF \/ ServerCrash \/ ServerExit PROVE PermitStep
  BY <1>5 DEF ServerNotify, ServerEOF, ServerCrash, ServerExit
<1>6. ASSUME NEW n \in Tickets, ShadowReviewed(n) PROVE PermitStep
  BY <1>6 DEF ShadowReviewed
<1>7. ASSUME MainStep \/ Interrupt PROVE PermitStep
  BY <1>7 DEF MainStep, ClientDone, Drained, DrainTimeout, WaitTimeout, ProcessExited,
     ServerDone, ShadowWaited, Aborted, MainGoto, Interrupt
<1>8. CASE UNCHANGED vars
  BY <1>8 DEF vars
<1>9. QED
  BY <1>1, <1>2, <1>3, <1>4, <1>5, <1>6, <1>7, <1>8
  DEF Next, Environment, ClientStep, ServerStep, Respond

(* A request of the server is nobody's result.                             *)
LEMMA PermitRequest ==
  ASSUME IInv, PermitInv, NEW i, NEW z, ServerRequest(i, z)
  PROVE  PermitInv'
<1>1. /\ UNCHANGED <<req, cpc, cmsg, verdict, owed, content>>
      /\ spc' \in {"read", "flush"} \/ smsg'.from = 0
  BY DEF ServerRequest, clientVars, serverVars, Receive, Deliver
<1>2. OnlyPermittedForwarded'
  BY <1>1 DEF PermitInv, OnlyPermittedForwarded
<1>3. QED
  BY <1>1, <1>2 DEF PermitInv

(* The server only ever gets, and only ever answers, calls the policy      *)
(* allowed or a human approved, whatever else goes on in the proxy.        *)
THEOREM PermitCorrect == Spec => []OnlyPermittedForwarded
<1>1. Init => PermitInv
  BY DEF Init, PermitInv, OnlyPermittedForwarded, NoMessage
<1>2. IInv /\ PermitInv /\ [Next]_vars => PermitInv'
  BY PermitSteps, PermitRead, PermitInspect, PermitSend, PermitRespond, PermitApproval,
     PermitRequest, PermitKept
<1>3. PermitInv => OnlyPermittedForwarded
  BY DEF PermitInv
<1>4. QED
  BY <1>1, <1>2, <1>3, Invariance, PTL DEF Spec
=============================================================================
