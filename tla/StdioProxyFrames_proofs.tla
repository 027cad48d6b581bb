---------------------- MODULE StdioProxyFrames_proofs ----------------------
(***************************************************************************)
(* Proofs about the frames StdioProxy writes to the client, for any ids,   *)
(* message kinds, gates, sizes and bounds: what the buffer may hold, that  *)
(* a shadow gate leaves the wire alone and, when the two sides do not use  *)
(* the same ids, that the responses keep the order of the requests and     *)
(* that an enforcing gate lets no unreviewed result through.               *)
(***************************************************************************)
EXTENDS StdioProxy_proofs, FiniteSetTheorems

\* Where the client task works on a message, and where the server task reviews
\* a frame.
Working == {"inspect", "refuse", "approval", "forward"}
Reviewing == {"inspect", "inspected", "approval"}

-----------------------------------------------------------------------------
(* What a flush round and a stored response do.                            *)

\* A flush round on the tables b and s that writes e, the answer of the head
\* of response_order.
Answers(b, s, e) ==
  /\ order # <<>> /\ order' = Tail(order)
  /\ Head(order) \in 1..Len(req) /\ Id(Head(order)) \in Ids
  /\ e \in Entries /\ e # Nil
  /\ out' = Append(out, [slot |-> Head(order), from |-> e.from, body |-> e.body, late |-> cleared])
  /\ \/ /\ e = b[Id(Head(order))]
        /\ blocked' = [b EXCEPT ![Id(Head(order))] = Nil] /\ served' = s
     \/ /\ e = s[Id(Head(order))]
        /\ blocked' = b /\ served' = [s EXCEPT ![Id(Head(order))] = Nil]

\* A flush round on the tables b and s that finds no answer.
Waits(b, s) == order' = order /\ blocked' = b /\ served' = s /\ out' = out

(* A flush round does one or the other.                                    *)
LEMMA FlushRound ==
  ASSUME TypeOK, SlotInv,
         NEW b \in [Ids -> Entries], NEW s \in [Ids -> Entries], Flush(order, b, s)
  PROVE  Waits(b, s) \/ \E e \in Entries : Answers(b, s, e)
<1>1. CASE ~Ready(order, b, s)
  BY <1>1 DEF Flush, Waits
<1>2. CASE Ready(order, b, s)
  <2> DEFINE h == Head(order)
             i == Id(h)
             e == IF b[i] # Nil THEN b[i] ELSE s[i]
  <2>1. h \in 1..Len(req) /\ i \in Ids /\ order # <<>>
    <3>1. order # <<>> /\ h = order[1] /\ 1 \in DOMAIN order
      BY <1>2 DEF Ready, TypeOK, TablesOK
    <3>2. h \in 1..Len(req) /\ i # NoId
      BY <3>1 DEF TypeOK, TablesOK, SlotInv
    <3>3. QED
      BY <3>1, <3>2, IdType
  <2>2. e \in Entries /\ e # Nil
    BY <1>2, <2>1 DEF Ready
  <2>3. /\ out' = Append(out, [slot |-> h, from |-> e.from, body |-> e.body, late |-> cleared])
        /\ order' = Tail(order)
    BY <1>2 DEF Flush, Write
  <2>4. \/ e = b[i] /\ blocked' = [b EXCEPT ![i] = Nil] /\ served' = s
        \/ e = s[i] /\ blocked' = b /\ served' = [s EXCEPT ![i] = Nil]
    BY <1>2 DEF Flush
  <2>5. Answers(b, s, e)
    BY <2>1, <2>2, <2>3, <2>4 DEF Answers
  <2>6. QED
    BY <2>2, <2>5
<1>3. QED
  BY <1>1, <1>2

-----------------------------------------------------------------------------
(* ShadowLeavesTheWire.                                                    *)

\* Without an enforcing gate nothing puts an error in the place of a result.
NoResultErrors(b, s, w) ==
  /\ \A i \in Ids : b[i].body \notin ResultErrors /\ s[i].body \notin ResultErrors
  /\ \A k \in DOMAIN w : w[k].body \notin ResultErrors

ShadowInv ==
  Mode # "enforce" =>
    /\ NoResultErrors(blocked, served, out)
    /\ act \in {"none", "review", "allow"} /\ spc # "approval"

(* A flush round makes no error.                                           *)
LEMMA ShadowFlush ==
  ASSUME TypeOK, SlotInv, NEW b \in [Ids -> Entries], NEW s \in [Ids -> Entries],
         Flush(order, b, s), NoResultErrors(b, s, out)
  PROVE  NoResultErrors(blocked', served', out')
<1>1. CASE Waits(b, s)
  BY <1>1 DEF Waits
<1>2. ASSUME NEW e \in Entries, Answers(b, s, e) PROVE NoResultErrors(blocked', served', out')
  <2> DEFINE i == Id(Head(order))
             f == [slot |-> Head(order), from |-> e.from, body |-> e.body, late |-> cleared]
  <2>1. i \in Ids /\ e \in {b[i], s[i]} /\ out' = Append(out, f) /\ f.body = e.body
    BY <1>2 DEF Answers
  <2>2. e.body \notin ResultErrors /\ Nil.body \notin ResultErrors
    BY <2>1 DEF NoResultErrors, Nil, ResultErrors
  <2>3. \A j \in Ids : blocked'[j].body \notin ResultErrors /\ served'[j].body \notin ResultErrors
    <3>1. \A j \in Ids : blocked'[j] \in {b[j], Nil} /\ served'[j] \in {s[j], Nil}
      BY <1>2 DEF Answers
    <3>2. QED
      BY <2>2, <3>1 DEF NoResultErrors
  <2>4. out \in Seq(Writes)
    BY DEF TypeOK, GhostsOK
  <2>5. \A k \in DOMAIN out' : \/ k \in DOMAIN out /\ out'[k] = out[k]
                               \/ out'[k] = f
    BY <2>1, <2>4
  <2>6. QED
    BY <2>1, <2>2, <2>3, <2>5 DEF NoResultErrors
<1>3. QED
  BY <1>1, <1>2, FlushRound

(* Nor does a response that is stored before it.                           *)
LEMMA ShadowDeliver ==
  ASSUME TypeOK, SlotInv, NEW i \in Ids, NEW e \in Entries, Deliver(i, e),
         e.body \notin ResultErrors, NoResultErrors(blocked, served, out)
  PROVE  NoResultErrors(blocked', served', out')
<1> DEFINE s == [served EXCEPT ![i] = e]
<1>1. s \in [Ids -> Entries] /\ blocked \in [Ids -> Entries]
  BY DEF TypeOK, TablesOK
<1>2. NoResultErrors(blocked, s, out)
  BY DEF NoResultErrors, TypeOK, TablesOK
<1>3. QED
  BY <1>1, <1>2, ShadowFlush DEF Deliver

(* A frame that is not a result's error leaves the output free of them.    *)
LEMMA ShadowWrite ==
  ASSUME TypeOK, NEW slot, NEW from, NEW body, Write(slot, from, body), body \notin ResultErrors,
         NoResultErrors(blocked, served, out), UNCHANGED <<blocked, served>>
  PROVE  NoResultErrors(blocked', served', out')
<1> DEFINE f == [slot |-> slot, from |-> from, body |-> body, late |-> cleared]
<1>1. out \in Seq(Writes) /\ out' = Append(out, f) /\ f.body = body
  BY DEF TypeOK, GhostsOK, Write
<1>2. \A k \in DOMAIN out' : \/ k \in DOMAIN out /\ out'[k] = out[k]
                             \/ out'[k] = f
  BY <1>1
<1>3. QED
  BY <1>1, <1>2 DEF NoResultErrors

(* A refused request is told so, and that is not an error of a result.     *)
LEMMA ShadowRefuse ==
  ASSUME TypeOK, SlotInv, NEW n \in 1..Len(req), NEW body \in RequestErrors, Refuse(n, body),
         NoResultErrors(blocked, served, out)
  PROVE  NoResultErrors(blocked', served', out')
<1>1. body \notin ResultErrors
  BY DEF RequestErrors, ResultErrors
<1>2. CASE Id(n) = NoId
  BY <1>1, <1>2, ShadowWrite DEF Refuse
<1>3. CASE Id(n) # NoId
  <2> DEFINE x == [from |-> n, body |-> body, size |-> ErrorSize, gated |-> FALSE]
             b == [blocked EXCEPT ![Id(n)] = x]
  <2>1. x \in Entries /\ x.body = body
    BY ProxyAssumption DEF TypeOK, TablesOK, Entries, Bodies
  <2>2. b \in [Ids -> Entries] /\ served \in [Ids -> Entries]
    BY <2>1 DEF TypeOK, TablesOK
  <2>3. \A j \in Ids : b[j].body \notin ResultErrors
    BY <1>1, <2>1 DEF NoResultErrors, TypeOK, TablesOK
  <2>4. NoResultErrors(b, served, out)
    BY <2>3 DEF NoResultErrors
  <2>5. Flush(order, b, served)
    BY <1>3 DEF Refuse
  <2>6. QED
    BY <2>2, <2>4, <2>5, ShadowFlush
<1>4. QED
  BY <1>2, <1>3

(* Receiving a frame from the server passes it on as it is.                *)
LEMMA ShadowReceive ==
  ASSUME TypeOK, SlotInv, NEW i \in Ids, NEW n \in 0..Len(req), NEW z \in Sizes,
         Receive(i, n, z), Mode # "enforce", ShadowInv
  PROVE  NoResultErrors(blocked', served', out') /\ act' \in {"none", "review", "allow"}
         /\ spc' # "approval"
<1>1. NoResultErrors(blocked, served, out) /\ act \in {"none", "review", "allow"} /\ spc # "approval"
      /\ "raw" \notin ResultErrors
  BY DEF ShadowInv, ResultErrors
<1>2. CASE Write(0, n, "raw") /\ UNCHANGED <<blocked, served, serverVars>>
  BY <1>1, <1>2, ShadowWrite DEF serverVars
<1>3. CASE /\ Deliver(i, [from |-> n, body |-> "raw", size |-> z, gated |-> TRUE])
           /\ act' \in {"review", "none"}
  <2> DEFINE e == [from |-> n, body |-> "raw", size |-> z, gated |-> TRUE]
  <2>1. e \in Entries /\ e.body = "raw"
    BY ProxyAssumption DEF Entries, Bodies, TypeOK, TablesOK
  <2>2. spc' # "approval"
    BY <1>3 DEF Deliver
  <2>3. NoResultErrors(blocked', served', out')
    BY <1>1, <1>3, <2>1, ShadowDeliver
  <2>4. QED
    BY <1>3, <2>2, <2>3
<1>4. CASE spc' = "inspect" /\ UNCHANGED <<blocked, served, act, out>>
  BY <1>1, <1>4
<1>5. QED
  BY <1>2, <1>3, <1>4 DEF Receive

(* The policy does not change while the proxy runs.                        *)
LEMMA SetupKept == [Next]_vars => setup' = setup
<1> SUFFICES ASSUME [Next]_vars PROVE setup' = setup
  OBVIOUS
<1>1. ASSUME Environment PROVE setup' = setup
  BY <1>1 DEF Environment, Respond, ClientRead, ClientEOF, ServerRespond, ServerRequest,
     ServerNotify, ServerExit
<1>2. ASSUME ClientStep \/ ClientCrash PROVE setup' = setup
  BY <1>2 DEF ClientStep, ClientSlot, ClientInspect, ClientRefuse, ClientApproval, ClientForward,
     ClientFlush, ClientCrash
<1>3. ASSUME ServerStep \/ ServerCrash PROVE setup' = setup
  BY <1>3 DEF ServerStep, ServerInspect, ServerDecide, ServerApproval, ServerFlush, ServerEOF,
     ServerCrash
<1>4. ASSUME MainStep \/ Interrupt PROVE setup' = setup
  BY <1>4 DEF MainStep, ClientDone, Drained, DrainTimeout, WaitTimeout, ProcessExited, ServerDone,
     ShadowWaited, Aborted, MainGoto, Interrupt
<1>5. QED
  BY <1>1, <1>2, <1>3, <1>4 DEF Next, ShadowReviewed, vars

(* Every step without an enforcing gate keeps the errors of results out.   *)
LEMMA ShadowStep == IInv /\ ShadowInv /\ [Next]_vars => ShadowInv'
<1> SUFFICES ASSUME IInv, ShadowInv, [Next]_vars PROVE ShadowInv'
  OBVIOUS
<1>0. Mode' = Mode
  BY SetupKept DEF Mode
<1> SUFFICES ASSUME Mode # "enforce"
             PROVE  /\ NoResultErrors(blocked', served', out')
                    /\ act' \in {"none", "review", "allow"} /\ spc' # "approval"
  BY <1>0 DEF ShadowInv, NoResultErrors
<1> DEFINE Goal == /\ NoResultErrors(blocked', served', out')
                   /\ act' \in {"none", "review", "allow"} /\ spc' # "approval"
<1>a. TypeOK /\ SlotInv /\ PositionInv
  BY DEF IInv
<1>b. NoResultErrors(blocked, served, out) /\ act \in {"none", "review", "allow"} /\ spc # "approval"
  BY DEF ShadowInv
<1>c. blocked \in [Ids -> Entries] /\ served \in [Ids -> Entries]
  BY <1>a DEF TypeOK, TablesOK
<1> USE DEF tables, events, clientVars, serverVars, mainVars, envVars, ghosts
<1>1. ASSUME NEW m \in Messages, ClientRead(m) PROVE Goal
  <2>1. "duplicate" \notin ResultErrors
    BY DEF ResultErrors
  <2>2. UNCHANGED <<blocked, served, act, spc>>
    BY <1>1 DEF ClientRead
  <2>3. out' = out \/ Write(0, Len(req) + 1, "duplicate")
    BY <1>1 DEF ClientRead
  <2>4. QED
    BY <1>a, <1>b, <2>1, <2>2, <2>3, ShadowWrite
<1>2. ASSUME NEW v, ClientInspect(v) PROVE Goal
  BY <1>2, <1>b DEF ClientInspect
<1>3. ASSUME NEW s \in {"approved", "denied", "expired"}, ClientRefuse \/ ClientApproval(s)
      PROVE Goal
  <2>1. UNCHANGED <<act, spc>> /\ cmsg \in 1..Len(req)
    BY <1>3, <1>a DEF ClientRefuse, ClientApproval, PositionInv
  <2>2. \/ UNCHANGED <<blocked, served, out>>
        \/ \E body \in RequestErrors : Refuse(cmsg, body)
    BY <1>3 DEF ClientRefuse, ClientApproval, RequestErrors
  <2>3. QED
    BY <1>a, <1>b, <2>1, <2>2, ShadowRefuse
<1>4. ASSUME ClientFlush PROVE Goal
  BY <1>4, <1>a, <1>b, <1>c, ShadowFlush DEF ClientFlush
<1>5. ASSUME ClientSlot \/ ClientEOF \/ ClientForward \/ ClientCrash PROVE Goal
  BY <1>5, <1>b DEF ClientSlot, ClientEOF, ClientForward, ClientCrash
<1>6. ASSUME NEW n \in Tickets, NEW c \in Contents, NEW z \in Sizes, ServerRespond(n, c, z)
      PROVE Goal
  <2>1. n \in 0..Len(req) /\ Id(n) \in Ids /\ Receive(Id(n), n, z)
    BY <1>6, <1>a, OwedId DEF ServerRespond
  <2>2. QED
    BY <1>a, <2>1, ShadowReceive
<1>7. ASSUME NEW i \in ServerIds, NEW z \in Sizes, ServerRequest(i, z) PROVE Goal
  <2>1. i \in Ids /\ 0 \in 0..Len(req) /\ Receive(i, 0, z)
    BY <1>7, <1>a DEF ServerRequest, Ids, TypeOK, TablesOK
  <2>2. QED
    BY <1>a, <2>1, ShadowReceive
<1>8. ASSUME ServerNotify PROVE Goal
  <2>1. "raw" \notin ResultErrors
    BY DEF ResultErrors
  <2>2. QED
    BY <1>8, <1>a, <1>b, <2>1, ShadowWrite DEF ServerNotify
<1>9. ASSUME NEW c \in Contents, ServerInspect(c) PROVE Goal
  BY <1>9, <1>b DEF ServerInspect, LimitAction, GateAction
<1>10. ASSUME ServerDecide PROVE Goal
  <2>1. act' = "none" /\ Deliver(smsg.id, Reply(ResultBody(act))) /\ spc' # "approval"
    BY <1>10, <1>b DEF ServerDecide, Deliver
  <2>2. ResultBody(act) = "raw" /\ "raw" \in Bodies /\ "raw" \notin ResultErrors
    BY <1>b DEF ResultBody, Bodies, ResultErrors
  <2>3. smsg.id \in Ids /\ Reply("raw") \in Entries
    BY <1>10, <1>a, <2>2, ReplyType DEF ServerDecide, PositionInv
  <2>4. Reply("raw").body = "raw"
    BY DEF Reply
  <2>5. QED
    BY <1>a, <1>b, <2>1, <2>2, <2>3, <2>4, ShadowDeliver
<1>11. ASSUME ServerFlush PROVE Goal
  BY <1>11, <1>a, <1>b, <1>c, ShadowFlush DEF ServerFlush
<1>12. ASSUME ServerEOF \/ ServerCrash \/ ServerExit PROVE Goal
  BY <1>12, <1>b DEF ServerEOF, ServerCrash, ServerExit
<1>13. ASSUME NEW s, ServerApproval(s) PROVE Goal
  BY <1>13, <1>b DEF ServerApproval
<1>14. ASSUME NEW n \in Tickets, ShadowReviewed(n) PROVE Goal
  BY <1>14, <1>b DEF ShadowReviewed
<1>15. ASSUME MainStep \/ Interrupt \/ UNCHANGED vars PROVE Goal
  BY <1>15, <1>b DEF MainStep, ClientDone, Drained, DrainTimeout, WaitTimeout, ProcessExited,
     ServerDone, ShadowWaited, Aborted, MainGoto, Interrupt, vars
<1>16. QED
  BY <1>1, <1>2, <1>3, <1>4, <1>5, <1>6, <1>7, <1>8, <1>9, <1>10, <1>11, <1>12, <1>13, <1>14, <1>15
  DEF Next, Environment, ClientStep, ServerStep, Respond

(* A shadow gate, or none, never changes a response on the wire, whatever  *)
(* its reviews find and whenever they end.                                 *)
THEOREM ShadowCorrect == Spec => []ShadowLeavesTheWire
<1>1. Init => ShadowInv
  BY DEF Init, ShadowInv, NoResultErrors, Nil, ResultErrors
<1>2. ShadowInv => ShadowLeavesTheWire
  BY DEF ShadowInv, NoResultErrors, ShadowLeavesTheWire
<1>3. QED
  BY <1>1, <1>2, ShadowStep, Invariance, PTL DEF Spec

-----------------------------------------------------------------------------
(* HeldResultsBounded.                                                     *)

Gated(s) == {i \in Ids : s[i].gated}

\* The bytes a table s of server responses holds for the ids in S.
Bytes(s, S) == UNION {{i} \X (1..s[i].size) : i \in S}

\* The frame under review still fits next to the results that are held, or is
\* already known to be over the limit.
Fits ==
  spc \in Reviewing /\ smsg.gated =>
    \/ smsg.over /\ spc = "inspect"
    \/ smsg.over /\ spc = "inspected" /\ act = "limit"
    \/ smsg.size + Cardinality(Bytes(served, Gated(served))) <= MaxBuffer

BufferInv ==
  /\ IsFiniteSet(Bytes(served, Ids))
  /\ Mode = "enforce" =>
       /\ Cardinality(Bytes(served, Gated(served))) <= MaxBuffer
       /\ Fits

(* Taking responses out of the table leaves fewer bytes in it.             *)
LEMMA FewerBytes ==
  ASSUME NEW s \in [Ids -> Entries], NEW t \in [Ids -> Entries],
         \A i \in Ids : t[i] \in {s[i], Nil}, IsFiniteSet(Bytes(s, Ids))
  PROVE  /\ IsFiniteSet(Bytes(t, Ids))
         /\ IsFiniteSet(Bytes(s, Gated(s)))
         /\ Cardinality(Bytes(t, Gated(t))) <= Cardinality(Bytes(s, Gated(s)))
         /\ Cardinality(Bytes(s, Gated(s))) <= Cardinality(Bytes(s, Ids))
         /\ Cardinality(Bytes(s, Ids)) \in Nat /\ Cardinality(Bytes(s, Gated(s))) \in Nat
         /\ Cardinality(Bytes(t, Gated(t))) \in Nat
<1>1. Nil.size = 0 /\ ~Nil.gated
  BY DEF Nil
<1>2. Bytes(t, Ids) \subseteq Bytes(s, Ids)
  <2>1. SUFFICES ASSUME NEW i \in Ids, NEW x \in {i} \X (1..t[i].size)
                 PROVE  x \in Bytes(s, Ids)
    BY DEF Bytes
  <2>2. t[i] = s[i]
    BY <1>1, <2>1
  <2>3. QED
    BY <2>1, <2>2 DEF Bytes
<1>3. Bytes(t, Gated(t)) \subseteq Bytes(s, Gated(s))
  <2>1. SUFFICES ASSUME NEW i \in Gated(t), NEW x \in {i} \X (1..t[i].size)
                 PROVE  x \in Bytes(s, Gated(s))
    BY DEF Bytes
  <2>2. i \in Gated(s) /\ t[i] = s[i]
    BY <1>1, <2>1 DEF Gated
  <2>3. QED
    BY <2>1, <2>2 DEF Bytes
<1>4. Bytes(s, Gated(s)) \subseteq Bytes(s, Ids)
  BY DEF Bytes, Gated
<1>5. IsFiniteSet(Bytes(t, Ids))
  BY <1>2, FS_Subset
<1>6. /\ IsFiniteSet(Bytes(s, Gated(s)))
      /\ Cardinality(Bytes(s, Gated(s))) <= Cardinality(Bytes(s, Ids))
  BY <1>4, FS_Subset
<1>7. /\ IsFiniteSet(Bytes(t, Gated(t)))
      /\ Cardinality(Bytes(t, Gated(t))) <= Cardinality(Bytes(s, Gated(s)))
  BY <1>3, <1>6, FS_Subset
<1>8. QED
  BY <1>5, <1>6, <1>7, FS_CardinalityType

(* A response of size z is z bytes.                                        *)
LEMMA FrameBytes ==
  ASSUME NEW i, NEW z \in Nat
  PROVE  IsFiniteSet({i} \X (1..z)) /\ Cardinality({i} \X (1..z)) = z
<1>1. IsFiniteSet({i}) /\ Cardinality({i}) = 1
  BY FS_Singleton
<1>2. IsFiniteSet(1..z) /\ Cardinality(1..z) = z
  BY FS_Interval
<1>3. IsFiniteSet({i} \X (1..z)) /\ Cardinality({i} \X (1..z)) = Cardinality({i}) * Cardinality(1..z)
  BY <1>1, <1>2, FS_Product
<1>4. QED
  BY <1>1, <1>2, <1>3

(* Storing a response adds at most its own bytes, and none to the gated    *)
(* ones when it is not gated.                                              *)
LEMMA MoreBytes ==
  ASSUME NEW s \in [Ids -> Entries], NEW i \in Ids, NEW e \in Entries, IsFiniteSet(Bytes(s, Ids))
  PROVE  LET t == [s EXCEPT ![i] = e]
         IN  /\ IsFiniteSet(Bytes(t, Ids))
             /\ e.gated => Cardinality(Bytes(t, Gated(t))) <= e.size + Cardinality(Bytes(s, Gated(s)))
             /\ ~e.gated => Cardinality(Bytes(t, Gated(t))) <= Cardinality(Bytes(s, Gated(s)))
<1> DEFINE t == [s EXCEPT ![i] = e]
           new == {i} \X (1..e.size)
<1>1. e.size \in Nat /\ \A j \in Ids : t[j] = IF j = i THEN e ELSE s[j]
  BY DEF Entries, Nil
<1>2. IsFiniteSet(new) /\ Cardinality(new) = e.size
  BY <1>1, FrameBytes
<1>3. IsFiniteSet(Bytes(s, Gated(s))) /\ Cardinality(Bytes(s, Gated(s))) \in Nat
  BY FewerBytes
<1> HIDE DEF t, new
<1>4. Bytes(t, Ids) \subseteq Bytes(s, Ids) \cup new
  BY <1>1 DEF Bytes, new
<1>5. Bytes(t, Gated(t)) \subseteq Bytes(s, Gated(s)) \cup new
  BY <1>1 DEF Bytes, Gated, new
<1>6. ~e.gated => Bytes(t, Gated(t)) \subseteq Bytes(s, Gated(s))
  BY <1>1 DEF Bytes, Gated
<1>7. IsFiniteSet(Bytes(t, Ids))
  BY <1>2, <1>4, FS_Union, FS_Subset
<1>8. Cardinality(Bytes(t, Gated(t))) <= e.size + Cardinality(Bytes(s, Gated(s)))
  <2> DEFINE old == Bytes(s, Gated(s))
  <2>1. /\ IsFiniteSet(old \cup new)
        /\ Cardinality(old \cup new) = Cardinality(old) + Cardinality(new) - Cardinality(old \cap new)
    BY <1>2, <1>3, FS_Union
  <2>2. IsFiniteSet(old \cap new) /\ Cardinality(old \cap new) \in Nat
    <3>1. old \cap new \subseteq new
      OBVIOUS
    <3>2. QED
      BY <1>2, <3>1, FS_Subset, FS_CardinalityType
  <2>3. Cardinality(Bytes(t, Gated(t))) <= Cardinality(old \cup new)
        /\ IsFiniteSet(Bytes(t, Gated(t)))
    BY <1>5, <2>1, FS_Subset
  <2>4. Cardinality(Bytes(t, Gated(t))) \in Nat
    BY <2>3, FS_CardinalityType
  <2> HIDE DEF old
  <2>5. QED
    BY <1>1, <1>2, <1>3, <2>1, <2>2, <2>3, <2>4 DEF old
<1>9. ~e.gated => Cardinality(Bytes(t, Gated(t))) <= Cardinality(Bytes(s, Gated(s)))
  BY <1>3, <1>6, FS_Subset
<1>10. QED
  BY <1>7, <1>8, <1>9 DEF t

(* A flush round only takes responses out of the table.                    *)
LEMMA FlushTakes ==
  ASSUME TypeOK, SlotInv,
         NEW b \in [Ids -> Entries], NEW s \in [Ids -> Entries], Flush(order, b, s)
  PROVE  \A i \in Ids : served'[i] \in {s[i], Nil}
<1>1. CASE Waits(b, s)
  BY <1>1 DEF Waits
<1>2. ASSUME NEW e \in Entries, Answers(b, s, e) PROVE \A i \in Ids : served'[i] \in {s[i], Nil}
  BY <1>2 DEF Answers
<1>3. QED
  BY <1>1, <1>2, FlushRound

\* A step of the review that forgets no limit: the task stays where it is, has
\* its inspection, or asks a human about a frame that fits.
ReviewStep ==
  spc' \in Reviewing =>
    /\ smsg' = smsg
    /\ \/ spc' = spc /\ act' = act
       \/ spc = "inspect" /\ spc' = "inspected" /\ (smsg.over /\ Mode = "enforce" => act' = "limit")
       \/ spc = "inspected" /\ spc' = "approval" /\ act = "require_approval"

(* The held bytes stay bounded while the table only loses responses.       *)
LEMMA BufferTakes ==
  ASSUME TypeOK, TypeOK', BufferInv, \A i \in Ids : served'[i] \in {served[i], Nil}, ReviewStep,
         setup' = setup
  PROVE  BufferInv'
<1> DEFINE old == Cardinality(Bytes(served, Gated(served)))
           new == Cardinality(Bytes(served', Gated(served')))
<1>1. served \in [Ids -> Entries] /\ served' \in [Ids -> Entries] /\ Mode' = Mode
  BY DEF TypeOK, TablesOK, Mode
<1>2. IsFiniteSet(Bytes(served', Ids)) /\ new <= old /\ new \in Nat /\ old \in Nat
  BY <1>1, FewerBytes DEF BufferInv
<1>3. smsg.size \in Nat /\ MaxBuffer \in Nat
  BY ProxyAssumption DEF TypeOK, ServerOK
<1>4. ASSUME Mode = "enforce" PROVE new <= MaxBuffer /\ Fits'
  <2>1. old <= MaxBuffer /\ Fits
    BY <1>4 DEF BufferInv
  <2>2. Fits' <=> (spc' \in Reviewing /\ smsg'.gated =>
                    \/ smsg'.over /\ spc' = "inspect"
                    \/ smsg'.over /\ spc' = "inspected" /\ act' = "limit"
                    \/ smsg'.size + new <= MaxBuffer)
    BY DEF Fits, Bytes, Gated
  <2> HIDE DEF old, new
  <2>3. spc' \in Reviewing /\ smsg.gated =>
                    \/ smsg.over /\ spc' = "inspect"
                    \/ smsg.over /\ spc' = "inspected" /\ act' = "limit"
                    \/ smsg.size + new <= MaxBuffer
    <3>1. smsg.size + old <= MaxBuffer => smsg.size + new <= MaxBuffer
      BY <1>2, <1>3
    <3>2. spc' \in Reviewing => spc \in Reviewing
      BY DEF ReviewStep, Reviewing
    <3>3. spc' \in Reviewing /\ smsg.gated =>
                    \/ smsg.over /\ spc = "inspect"
                    \/ smsg.over /\ spc = "inspected" /\ act = "limit"
                    \/ smsg.size + old <= MaxBuffer
      BY <2>1, <3>2 DEF Fits, old
    <3>4. QED
      BY <1>4, <3>1, <3>3 DEF ReviewStep, Reviewing
  <2>4. spc' \in Reviewing => smsg' = smsg
    BY DEF ReviewStep
  <2>5. QED
    BY <1>2, <1>3, <2>1, <2>2, <2>3, <2>4
<1>5. BufferInv' <=> /\ IsFiniteSet(Bytes(served', Ids))
                     /\ Mode' = "enforce" => new <= MaxBuffer /\ Fits'
  BY DEF BufferInv, Bytes, Gated
<1>6. QED
  BY <1>1, <1>2, <1>4, <1>5

(* A response that fits, or that is not held as a result, can be stored.   *)
LEMMA BufferStores ==
  ASSUME TypeOK, SlotInv, TypeOK', BufferInv, NEW i \in Ids, NEW e \in Entries, Deliver(i, e),
         setup' = setup,
         Mode = "enforce" /\ e.gated =>
           e.size + Cardinality(Bytes(served, Gated(served))) <= MaxBuffer
  PROVE  BufferInv'
<1> DEFINE s == [served EXCEPT ![i] = e]
           old == Cardinality(Bytes(served, Gated(served)))
           mid == Cardinality(Bytes(s, Gated(s)))
           new == Cardinality(Bytes(served', Gated(served')))
<1>1. served \in [Ids -> Entries] /\ served' \in [Ids -> Entries] /\ Mode' = Mode
      /\ blocked \in [Ids -> Entries]
  BY DEF TypeOK, TablesOK, Mode
<1>2. s \in [Ids -> Entries] /\ Flush(order, blocked, s) /\ spc' \notin Reviewing
  BY <1>1 DEF Deliver, Reviewing
<1>3. \A j \in Ids : served'[j] \in {s[j], Nil}
  BY <1>1, <1>2, FlushTakes
<1>4. /\ IsFiniteSet(Bytes(s, Ids))
      /\ e.gated => mid <= e.size + old
      /\ ~e.gated => mid <= old
  BY <1>1, MoreBytes DEF BufferInv
<1>5. IsFiniteSet(Bytes(served', Ids)) /\ new <= mid /\ new \in Nat /\ mid \in Nat
  BY <1>1, <1>2, <1>3, <1>4, FewerBytes
<1>6. old \in Nat /\ e.size \in Nat /\ MaxBuffer \in Nat
  BY <1>1, FewerBytes, ProxyAssumption DEF BufferInv, Entries, Nil
<1>7. Mode = "enforce" => new <= MaxBuffer
  <2> HIDE DEF old, mid, new
  <2>1. Mode = "enforce" => mid <= MaxBuffer
    BY <1>4, <1>6, <1>5 DEF BufferInv, old
  <2>2. QED
    BY <1>5, <1>6, <2>1
<1>8. Fits'
  BY <1>2 DEF Fits
<1>9. BufferInv' <=> /\ IsFiniteSet(Bytes(served', Ids))
                     /\ Mode' = "enforce" => new <= MaxBuffer /\ Fits'
  BY DEF BufferInv, Bytes, Gated
<1>10. QED
  BY <1>1, <1>5, <1>7, <1>8, <1>9

(* The limit is checked against everything that is held when a frame       *)
(* arrives.                                                                *)
LEMMA BufferReceive ==
  ASSUME TypeOK, SlotInv, TypeOK', BufferInv, NEW i \in Ids, NEW n \in 0..Len(req), NEW z \in Sizes,
         Receive(i, n, z), setup' = setup, spc = "read"
  PROVE  BufferInv'
<1>1. z \in Nat /\ MaxBuffer \in Nat
  BY ProxyAssumption
<1>2. ~OverLimit(z) => z + Cardinality(Bytes(served, Gated(served))) <= MaxBuffer
  <2>1. served \in [Ids -> Entries]
    BY DEF TypeOK, TablesOK
  <2>2. /\ Cardinality(Bytes(served, Gated(served))) <= Cardinality(Bytes(served, Ids))
        /\ Cardinality(Bytes(served, Gated(served))) \in Nat /\ Cardinality(Bytes(served, Ids)) \in Nat
    BY <2>1, FewerBytes DEF BufferInv
  <2>3. Buffered = Cardinality(Bytes(served, Ids))
    BY DEF Buffered, HeldBytes, Bytes
  <2>4. QED
    BY <1>1, <2>2, <2>3 DEF OverLimit
<1>3. CASE UNCHANGED <<served, serverVars>>
  <2>1. \A j \in Ids : served'[j] \in {served[j], Nil}
    BY <1>3
  <2>2. ReviewStep
    BY <1>3 DEF ReviewStep, serverVars
  <2>3. QED
    BY <2>1, <2>2, BufferTakes
<1>4. CASE /\ Deliver(i, [from |-> n, body |-> "raw", size |-> z, gated |-> TRUE])
           /\ Mode = "shadow"
  <2> DEFINE e == [from |-> n, body |-> "raw", size |-> z, gated |-> TRUE]
  <2>1. e \in Entries
    BY ProxyAssumption DEF Entries, Bodies, TypeOK, TablesOK
  <2>2. QED
    BY <1>4, <2>1, BufferStores
<1>5. CASE /\ smsg' = [id |-> i, from |-> n, size |-> z,
                       over |-> pending[i] # 0 /\ Mode # "off" /\ OverLimit(z),
                       gated |-> pending[i] # 0 /\ Mode # "off"]
           /\ spc' = "inspect"
           /\ UNCHANGED served
  <2>1. /\ smsg'.gated <=> pending[i] # 0 /\ Mode # "off"
        /\ smsg'.over <=> pending[i] # 0 /\ Mode # "off" /\ OverLimit(z)
        /\ smsg'.size = z
    BY <1>5
  <2>2. Fits'
    BY <1>2, <1>5, <2>1 DEF Fits, Bytes, Gated
  <2>3. QED
    BY <1>5, <2>2 DEF BufferInv, Bytes, Gated, Mode
<1>6. QED
  BY <1>3, <1>4, <1>5 DEF Receive

(* Every step keeps what is held within the buffer.                        *)
LEMMA BufferStep == IInv /\ IInv' /\ BufferInv /\ [Next]_vars => BufferInv'
<1> SUFFICES ASSUME IInv, IInv', BufferInv, [Next]_vars PROVE BufferInv'
  OBVIOUS
<1>a. TypeOK /\ SlotInv /\ PositionInv /\ TypeOK'
  BY DEF IInv
<1>b. setup' = setup
  BY SetupKept
<1>c. blocked \in [Ids -> Entries] /\ served \in [Ids -> Entries]
  BY <1>a DEF TypeOK, TablesOK
<1> USE DEF tables, events, clientVars, serverVars, mainVars, envVars, ghosts
<1>1. ASSUME UNCHANGED served, ReviewStep PROVE BufferInv'
  BY <1>1, <1>a, <1>b, BufferTakes
<1>2. ASSUME NEW m \in Messages, ClientRead(m) PROVE BufferInv'
  BY <1>1, <1>2 DEF ClientRead, ReviewStep
<1>3. ASSUME NEW v, ClientInspect(v) PROVE BufferInv'
  BY <1>1, <1>3 DEF ClientInspect, ReviewStep
<1>4. ASSUME NEW s \in {"approved", "denied", "expired"}, ClientRefuse \/ ClientApproval(s)
      PROVE BufferInv'
  <2>1. UNCHANGED <<act, spc, smsg>> /\ cmsg \in 1..Len(req)
    BY <1>4, <1>a DEF ClientRefuse, ClientApproval, PositionInv
  <2>2. \/ UNCHANGED served
        \/ \E body \in RequestErrors : Refuse(cmsg, body)
    BY <1>4 DEF ClientRefuse, ClientApproval, RequestErrors
  <2>3. ASSUME NEW body \in RequestErrors, Refuse(cmsg, body)
        PROVE  \A i \in Ids : served'[i] \in {served[i], Nil}
    <3>1. CASE Id(cmsg) = NoId
      BY <2>3, <3>1 DEF Refuse
    <3>2. CASE Id(cmsg) # NoId
      <4> DEFINE x == [from |-> cmsg, body |-> body, size |-> ErrorSize, gated |-> FALSE]
                 b == [blocked EXCEPT ![Id(cmsg)] = x]
      <4>1. x \in Entries
        BY <1>a, <2>1, ProxyAssumption DEF TypeOK, TablesOK, Entries, Bodies
      <4>2. b \in [Ids -> Entries]
        BY <1>c, <4>1
      <4>3. Flush(order, b, served)
        BY <2>3, <3>2 DEF Refuse
      <4>4. QED
        BY <1>a, <1>c, <4>2, <4>3, FlushTakes
    <3>3. QED
      BY <3>1, <3>2
  <2>4. ReviewStep
    BY <2>1 DEF ReviewStep
  <2>5. QED
    BY <1>1, <1>a, <1>b, <2>2, <2>3, <2>4, BufferTakes
<1>5. ASSUME ClientFlush PROVE BufferInv'
  <2>1. \A i \in Ids : served'[i] \in {served[i], Nil}
    BY <1>5, <1>a, <1>c, FlushTakes DEF ClientFlush
  <2>2. ReviewStep
    BY <1>5 DEF ClientFlush, ReviewStep
  <2>3. QED
    BY <1>a, <1>b, <2>1, <2>2, BufferTakes
<1>6. ASSUME ClientSlot \/ ClientEOF \/ ClientForward \/ ClientCrash PROVE BufferInv'
  BY <1>1, <1>6 DEF ClientSlot, ClientEOF, ClientForward, ClientCrash, ReviewStep
<1>7. ASSUME NEW n \in Tickets, NEW c \in Contents, NEW z \in Sizes, ServerRespond(n, c, z)
      PROVE BufferInv'
  <2>1. n \in 0..Len(req) /\ Id(n) \in Ids /\ Receive(Id(n), n, z) /\ spc = "read"
    BY <1>7, <1>a, OwedId DEF ServerRespond
  <2>2. QED
    BY <1>a, <1>b, <2>1, BufferReceive
<1>8. ASSUME NEW i \in ServerIds, NEW z \in Sizes, ServerRequest(i, z) PROVE BufferInv'
  <2>1. i \in Ids /\ 0 \in 0..Len(req) /\ Receive(i, 0, z) /\ spc = "read"
    BY <1>8, <1>a DEF ServerRequest, Ids, TypeOK, TablesOK
  <2>2. QED
    BY <1>a, <1>b, <2>1, BufferReceive
<1>9. ASSUME NEW c \in Contents, ServerInspect(c) PROVE BufferInv'
  <2>1. ReviewStep
    BY <1>9 DEF ServerInspect, LimitAction, ReviewStep
  <2>2. QED
    BY <1>1, <1>9, <2>1 DEF ServerInspect
<1>10. ASSUME NEW body \in Bodies, Deliver(smsg.id, Reply(body)), spc \in {"inspected", "approval"},
              smsg.over /\ smsg.gated /\ spc = "inspected" /\ act = "limit" => body # "raw"
       PROVE  BufferInv'
  <2> DEFINE e == Reply(body)
  <2>1. smsg.id \in Ids /\ e \in Entries
    BY <1>10, <1>a, ReplyType DEF PositionInv
  <2>2. e.gated => smsg.gated /\ body = "raw" /\ e.size = smsg.size
    BY DEF Reply
  <2>3. Mode = "enforce" /\ e.gated =>
          e.size + Cardinality(Bytes(served, Gated(served))) <= MaxBuffer
    BY <1>10, <2>2 DEF BufferInv, Fits, Reviewing
  <2>4. QED
    BY <1>10, <1>a, <1>b, <2>1, <2>3, BufferStores
<1>11. ASSUME ServerDecide PROVE BufferInv'
  <2>1. CASE act = "require_approval"
    BY <1>1, <1>11, <2>1 DEF ServerDecide, ReviewStep
  <2>2. CASE act # "require_approval"
    <3>1. ResultBody(act) \in Bodies /\ (act = "limit" => ResultBody(act) # "raw")
      BY DEF ResultBody, Bodies, ResultErrors
    <3>2. Deliver(smsg.id, Reply(ResultBody(act))) /\ spc = "inspected"
      BY <1>11, <2>2 DEF ServerDecide
    <3>3. QED
      BY <1>10, <3>1, <3>2
  <2>3. QED
    BY <2>1, <2>2
<1>12. ASSUME NEW s \in {"approved", "denied", "expired"}, ServerApproval(s) PROVE BufferInv'
  <2>1. PICK body \in Bodies : Deliver(smsg.id, Reply(body))
    BY <1>12 DEF ServerApproval, Bodies, ResultErrors
  <2>2. spc = "approval"
    BY <1>12 DEF ServerApproval
  <2>3. QED
    BY <1>10, <2>1, <2>2
<1>13. ASSUME ServerFlush PROVE BufferInv'
  <2>1. \A i \in Ids : served'[i] \in {served[i], Nil}
    BY <1>13, <1>a, <1>c, FlushTakes DEF ServerFlush
  <2>2. ReviewStep
    BY <1>13 DEF ServerFlush, ReviewStep, Reviewing
  <2>3. QED
    BY <1>a, <1>b, <2>1, <2>2, BufferTakes
<1>14. ASSUME ServerNotify \/ ServerEOF \/ ServerCrash \/ ServerExit PROVE BufferInv'
  BY <1>1, <1>14 DEF ServerNotify, ServerEOF, ServerCrash, ServerExit, ReviewStep, Reviewing
<1>15. ASSUME NEW n \in Tickets, ShadowReviewed(n) PROVE BufferInv'
  BY <1>1, <1>15 DEF ShadowReviewed, ReviewStep
<1>16. ASSUME MainStep \/ Interrupt \/ UNCHANGED vars PROVE BufferInv'
  <2>1. UNCHANGED <<served, spc, smsg, act>>
    BY <1>16 DEF MainStep, ClientDone, Drained, DrainTimeout, WaitTimeout, ProcessExited,
       ServerDone, ShadowWaited, Aborted, MainGoto, Interrupt, vars
  <2>2. QED
    BY <1>1, <2>1 DEF ReviewStep
<1>17. QED
  BY <1>2, <1>3, <1>4, <1>5, <1>6, <1>7, <1>8, <1>9, <1>11, <1>12, <1>13, <1>14, <1>15, <1>16
  DEF Next, Environment, ClientStep, ServerStep, Respond

(* The tool results an enforcing gate holds never outgrow                  *)
(* max_buffer_bytes, however long approvals keep them and whichever ids    *)
(* the two sides use.                                                      *)
THEOREM BufferCorrect == Spec => []HeldResultsBounded
<1>1. Init => BufferInv
  <2> SUFFICES ASSUME Init PROVE BufferInv
    OBVIOUS
  <2>1. \A i \in Ids : served[i] = Nil
    BY DEF Init
  <2>2. Bytes(served, Ids) = {} /\ Gated(served) = {}
    <3>1. Nil.size = 0 /\ ~Nil.gated
      BY DEF Nil
    <3>2. QED
      BY <2>1, <3>1 DEF Bytes, Gated
  <2>3. Bytes(served, Gated(served)) = {}
    BY <2>2 DEF Bytes
  <2>4. spc \notin Reviewing
    BY DEF Init, Reviewing
  <2>5. QED
    BY <2>2, <2>3, <2>4, FS_EmptySet, ProxyAssumption DEF BufferInv, Fits
<1>2. BufferInv => HeldResultsBounded
  BY DEF BufferInv, HeldResultsBounded, HeldBytes, Bytes, Gated
<1>3. QED
  BY <1>1, <1>2, BufferStep, Invariance, PTL DEF Spec

-----------------------------------------------------------------------------
(* ResponsesRetainOrder.  An answer is at one place at a time on its way   *)
(* to the client, and as long as it is its ticket is in response_order: so *)
(* the slot a flush takes is that of the answer it writes.                 *)

\* The tickets of the client's requests.
Numbered == {n \in 1..Len(req) : Id(n) \in ClientIds}

\* The ticket the client task works on, and the one the server task reviews.
ClientHas == IF cpc \in Working THEN {cmsg} ELSE {}
ReviewHas == IF spc \in Reviewing THEN {smsg.from} \ {0} ELSE {}

\* A table t of responses has ticket n.
Stored(t, n) == t[Id(n)].from = n

\* The answer of n is with the client task (c), the server (ow), the server
\* task (v) or in one of the tables b and s.
Held(n, b, s, c, ow, v) == n \in c \/ n \in ow \/ n \in v \/ Stored(b, n) \/ Stored(s, n)

Once(n, b, s, c, ow, v) ==
  /\ n \in c => n \notin ow /\ n \notin v /\ ~Stored(b, n) /\ ~Stored(s, n)
  /\ n \in ow => n \notin v /\ ~Stored(b, n) /\ ~Stored(s, n)
  /\ n \in v => ~Stored(b, n) /\ ~Stored(s, n)
  /\ Stored(b, n) => ~Stored(s, n)

\* response_order o holds tickets of different ids, oldest first.
Sorted(o) == \A j, k \in DOMAIN o : j < k => o[j] < o[k] /\ Id(o[j]) # Id(o[k])

In(n, o) == \E k \in DOMAIN o : o[k] = n

\* The tables keep each answer under the id of its request.
Filed(b, s) ==
  \A i \in Ids :
    /\ b[i] # Nil => b[i].from \in Numbered /\ Id(b[i].from) = i
    /\ s[i] # Nil => \/ s[i].from = 0 /\ i \in ServerIds
                     \/ s[i].from \in Numbered /\ Id(s[i].from) = i

Placed(o, b, s, c, ow, v) ==
  \A n \in Numbered :
    /\ Once(n, b, s, c, ow, v)
    /\ ~cleared /\ Held(n, b, s, c, ow, v) => In(n, o)

\* What is written is older than what is queued, and nowhere else any more.
Answered(w, o, b, s, c, ow, v) ==
  \A k \in DOMAIN w :
    /\ w[k].from <= Len(req)
    /\ IsAnswer(w[k]) =>
         /\ w[k].from \in Numbered
         /\ ~Held(w[k].from, b, s, c, ow, v)
         /\ \A j \in DOMAIN o : w[k].from < o[j]

InSequence(w) ==
  \A j, k \in DOMAIN w : j < k /\ IsAnswer(w[j]) /\ IsAnswer(w[k]) => w[j].from < w[k].from

Frames(o, b, s, w, c, ow, v) ==
  /\ Sorted(o)
  /\ Filed(b, s)
  /\ Placed(o, b, s, c, ow, v)
  /\ Answered(w, o, b, s, c, ow, v)
  /\ InSequence(w)

\* What the tasks rely on: a message that waits for a slot is not a duplicate
\* and newer than every answer, and only tool calls are refused.
TaskInv ==
  /\ cleared => order = <<>> /\ main # "client"
  /\ cpc = "slot" /\ main # "exited" =>
       ~InOrder(Id(cmsg)) /\ \A k \in DOMAIN out : IsAnswer(out[k]) => out[k].from < cmsg
  /\ cpc \in {"refuse", "approval"} => IsTool(cmsg)
  /\ spc \in Reviewing => \/ smsg.from = 0 /\ smsg.id \in ServerIds
                          \/ smsg.from \in Numbered /\ smsg.id = Id(smsg.from)

FrameInv == TaskInv /\ Frames(order, blocked, served, out, ClientHas, owed, ReviewHas)

\* JSON-RPC lets each side choose its ids, and the proxy keeps one table for
\* both: the order of responses is that of requests when they do not collide.
Disjoint == ClientIds \cap ServerIds = {}

\* The answers a step writes are those of requests in response_order.
OnlyQueued ==
  \A k \in DOMAIN out' :
    IsAnswer(out'[k]) => In(out'[k].from, order) \/ \E j \in DOMAIN out : out'[k] = out[j]

(* A flush round writes the answer of the request whose slot it takes.     *)
LEMMA FlushFrames ==
  ASSUME Disjoint, TypeOK, SlotInv, cleared => order = <<>>,
         NEW b \in [Ids -> Entries], NEW s \in [Ids -> Entries], Flush(order, b, s),
         NEW c, NEW ow, NEW v, Frames(order, b, s, out, c, ow, v)
  PROVE  Frames(order', blocked', served', out', c, ow, v) /\ OnlyQueued
<1>1. CASE Waits(b, s)
  BY <1>1 DEF Waits, OnlyQueued
<1>2. ASSUME NEW e \in Entries, Answers(b, s, e)
      PROVE  Frames(order', blocked', served', out', c, ow, v) /\ OnlyQueued
  <2> DEFINE h == Head(order)
             i == Id(h)
             f == [slot |-> h, from |-> e.from, body |-> e.body, late |-> cleared]
  <2>1. /\ order # <<>> /\ order' = Tail(order) /\ h \in 1..Len(req) /\ i \in Ids /\ e # Nil
        /\ out' = Append(out, f) /\ ~cleared
    BY <1>2 DEF Answers
  <2>2. /\ order \in Seq(1..Len(req)) /\ out \in Seq(Writes) /\ h = order[1] /\ 1 \in DOMAIN order
        /\ Len(req) \in Nat
    BY <2>1 DEF TypeOK, TablesOK, GhostsOK
  <2>3. \/ e = b[i] /\ blocked' = [b EXCEPT ![i] = Nil] /\ served' = s
        \/ e = s[i] /\ blocked' = b /\ served' = [s EXCEPT ![i] = Nil]
    BY <1>2 DEF Answers
  <2>4. \/ e.from = h /\ h \in Numbered
        \/ e.from = 0 /\ i \in ServerIds /\ h \notin Numbered
    <3>1. \/ e.from \in Numbered /\ Id(e.from) = i
          \/ e.from = 0 /\ i \in ServerIds
      BY <2>1, <2>3 DEF Frames, Filed
    <3>2. ASSUME e.from \in Numbered, Id(e.from) = i PROVE e.from = h
      <4>1. Held(e.from, b, s, c, ow, v)
        BY <2>3, <3>2 DEF Held, Stored
      <4>2. PICK k \in DOMAIN order : order[k] = e.from
        BY <2>1, <3>2, <4>1 DEF Frames, Placed, In
      <4>3. k \in Nat /\ k >= 1
        BY <2>2
      <4>4. k = 1
        BY <2>2, <3>2, <4>2, <4>3 DEF Frames, Sorted
      <4>5. QED
        BY <2>2, <4>2, <4>4
    <3>3. i \in ServerIds => h \notin Numbered
      BY DEF Disjoint, Numbered
    <3>4. QED
      BY <3>1, <3>2, <3>3
  <2>5. f.from = e.from /\ (IsAnswer(f) => f.from = h /\ h \in Numbered)
    BY <2>4 DEF IsAnswer
  <2>6. \A n \in Numbered : /\ n \in Nat /\ n # 0 /\ Id(n) \in Ids
                            /\ Stored(blocked', n) => Stored(b, n)
                            /\ Stored(served', n) => Stored(s, n)
    <3>1. \A j \in Ids : blocked'[j] \in {b[j], Nil} /\ served'[j] \in {s[j], Nil}
      BY <2>3
    <3>2. Nil.from = 0
      BY DEF Nil
    <3>3. \A n \in Numbered : n \in Nat /\ n # 0 /\ Id(n) \in Ids
      BY <2>2 DEF Numbered, Ids
    <3>4. QED
      BY <3>1, <3>2, <3>3 DEF Stored
  <2>7. \A n \in Numbered : Held(n, blocked', served', c, ow, v) => Held(n, b, s, c, ow, v)
    BY <2>6 DEF Held
  <2>8. h \in Numbered => ~Held(h, blocked', served', c, ow, v)
    <3>1. SUFFICES ASSUME h \in Numbered PROVE ~Held(h, blocked', served', c, ow, v)
      OBVIOUS
    <3>2. e.from = h /\ Nil.from = 0 /\ h # 0
      BY <2>4, <2>6, <3>1 DEF Nil
    <3>3. Once(h, b, s, c, ow, v)
      BY <3>1 DEF Frames, Placed
    <3>4. CASE e = b[i] /\ blocked' = [b EXCEPT ![i] = Nil] /\ served' = s
      <4>1. Stored(b, h) /\ ~Stored(blocked', h)
        BY <2>1, <3>2, <3>4 DEF Stored
      <4>2. QED
        BY <3>3, <3>4, <4>1 DEF Once, Held
    <3>5. CASE e = s[i] /\ blocked' = b /\ served' = [s EXCEPT ![i] = Nil]
      <4>1. Stored(s, h) /\ ~Stored(served', h)
        BY <2>1, <3>2, <3>5 DEF Stored
      <4>2. QED
        BY <3>3, <3>5, <4>1 DEF Once, Held
    <3>6. QED
      BY <2>3, <3>4, <3>5
  <2>9. \A k \in DOMAIN order' : k + 1 \in DOMAIN order /\ order'[k] = order[k + 1] /\ k \in Nat /\ k >= 1
    BY <2>1, <2>2, TailFacts
  <2>10. Sorted(order')
    BY <2>2, <2>9 DEF Frames, Sorted
  <2>11. Filed(blocked', served')
    <3>1. \A j \in Ids : blocked'[j] \in {b[j], Nil} /\ served'[j] \in {s[j], Nil}
      BY <2>3
    <3>2. QED
      BY <3>1 DEF Frames, Filed
  <2>12. Placed(order', blocked', served', c, ow, v)
    <3>1. SUFFICES ASSUME NEW n \in Numbered
                   PROVE  /\ Once(n, blocked', served', c, ow, v)
                          /\ Held(n, blocked', served', c, ow, v) => In(n, order')
      BY DEF Placed
    <3>2. Once(n, blocked', served', c, ow, v)
      BY <2>6 DEF Frames, Placed, Once
    <3>3. ASSUME Held(n, blocked', served', c, ow, v) PROVE In(n, order')
      <4>1. PICK k \in DOMAIN order : order[k] = n
        BY <2>1, <2>7, <3>3 DEF Frames, Placed, In
      <4>2. k # 1
        BY <2>2, <2>8, <3>3, <4>1
      <4>3. k - 1 \in DOMAIN order' /\ order'[k - 1] = n
        BY <2>1, <2>2, <4>1, <4>2, TailFacts
      <4>4. QED
        BY <4>3 DEF In
    <3>4. QED
      BY <3>2, <3>3
  <2>13. \A k \in DOMAIN out' : \/ k \in DOMAIN out /\ out'[k] = out[k]
                                \/ k = Len(out) + 1 /\ out'[k] = f
    BY <2>1, <2>2
  <2>14. \A k \in DOMAIN out : k \in Nat /\ k <= Len(out)
    BY <2>2
  <2>15. \A j \in DOMAIN order' : h < order'[j]
    <3>1. ASSUME NEW j \in DOMAIN order' PROVE h < order'[j]
      <4>1. j + 1 \in DOMAIN order /\ order'[j] = order[j + 1] /\ 1 < j + 1
        BY <2>9
      <4>2. QED
        BY <2>2, <4>1 DEF Frames, Sorted
    <3>2. QED
      BY <3>1
  <2>16. Answered(out', order', blocked', served', c, ow, v)
    <3>1. ASSUME NEW k \in DOMAIN out
          PROVE  /\ out[k].from <= Len(req)
                 /\ IsAnswer(out[k]) =>
                     /\ out[k].from \in Numbered
                     /\ ~Held(out[k].from, blocked', served', c, ow, v)
                     /\ \A j \in DOMAIN order' : out[k].from < order'[j]
      BY <2>7, <2>9 DEF Frames, Answered
    <3>2. /\ f.from <= Len(req)
          /\ IsAnswer(f) => /\ f.from \in Numbered
                            /\ ~Held(f.from, blocked', served', c, ow, v)
                            /\ \A j \in DOMAIN order' : f.from < order'[j]
      BY <2>1, <2>2, <2>4, <2>5, <2>8, <2>15
    <3>3. QED
      BY <2>13, <3>1, <3>2 DEF Answered
  <2>17. InSequence(out')
    <3>1. \A k \in DOMAIN out : IsAnswer(out[k]) => out[k].from < h
      BY <2>2 DEF Frames, Answered
    <3>2. QED
      BY <2>2, <2>5, <2>13, <2>14, <3>1 DEF Frames, InSequence
  <2>18. OnlyQueued
    BY <2>2, <2>5, <2>13 DEF OnlyQueued, In
  <2>19. QED
    BY <2>10, <2>11, <2>12, <2>16, <2>17, <2>18 DEF Frames
<1>3. QED
  BY <1>1, <1>2, FlushRound

(* An answer moves from one place to another.                              *)
LEMMA MoveFrames ==
  ASSUME NEW o, NEW w, NEW b, NEW s, NEW c, NEW ow, NEW v, Frames(o, b, s, w, c, ow, v),
         NEW b2, NEW s2, NEW c2, NEW ow2, NEW v2, Filed(b2, s2),
         \A n \in Numbered : /\ Once(n, b2, s2, c2, ow2, v2)
                             /\ Held(n, b2, s2, c2, ow2, v2) => Held(n, b, s, c, ow, v)
  PROVE  Frames(o, b2, s2, w, c2, ow2, v2)
<1>1. Placed(o, b2, s2, c2, ow2, v2)
  BY DEF Frames, Placed
<1>2. Answered(w, o, b2, s2, c2, ow2, v2)
  BY DEF Frames, Answered
<1>3. QED
  BY <1>1, <1>2 DEF Frames

(* A frame that is not the answer of a numbered request.                   *)
LEMMA WriteFrames ==
  ASSUME TypeOK, NEW o, NEW b, NEW s, NEW c, NEW ow, NEW v, Frames(o, b, s, out, c, ow, v),
         NEW slot, NEW from \in 0..Len(req), NEW body, Write(slot, from, body),
         from = 0 \/ body = "duplicate" \/ cleared \/ Id(from) = NoId
  PROVE  Frames(o, b, s, out', c, ow, v)
<1> DEFINE f == [slot |-> slot, from |-> from, body |-> body, late |-> cleared]
<1>1. out' = Append(out, f) /\ out \in Seq(Writes) /\ ~IsAnswer(f) /\ f.from <= Len(req)
  BY DEF Write, TypeOK, TablesOK, GhostsOK, IsAnswer
<1> HIDE DEF f
<1>2. \A k \in DOMAIN out' : \/ k \in DOMAIN out /\ out'[k] = out[k]
                             \/ out'[k] = f
  BY <1>1
<1>3. Answered(out', o, b, s, c, ow, v) /\ InSequence(out')
  BY <1>1, <1>2 DEF Frames, Answered, InSequence
<1>4. QED
  BY <1>3 DEF Frames

(* While no message is read and the drain does not time out the invariant  *)
(* is about the new values of the rest.                                    *)
LEMMA NextFrames ==
  ASSUME UNCHANGED <<req, cleared>>,
         Frames(order', blocked', served', out', ClientHas', owed', ReviewHas')
  PROVE  Frames(order, blocked, served, out, ClientHas, owed, ReviewHas)'
BY DEF Frames, Sorted, Filed, Placed, Answered, InSequence, Numbered, Id, Held, Once, Stored, In,
       IsAnswer

(* Refusing a tool call puts its answer in the table of its id.            *)
LEMMA RefuseFrames ==
  ASSUME Disjoint, IInv, FrameInv, cpc \in {"refuse", "approval"}, NEW body \in RequestErrors,
         Refuse(cmsg, body), UNCHANGED <<req, cleared, owed, spc, smsg>>
  PROVE  Frames(order', blocked', served', out', ClientHas', owed', ReviewHas')
<1> DEFINE c == {cmsg}
           v == ReviewHas
<1>1. TypeOK /\ SlotInv /\ cmsg \in 1..Len(req) /\ ClientHas = c
  BY DEF IInv, PositionInv, ClientHas, Working
<1>2. ReviewHas' = v /\ ClientHas' = {}
  BY DEF ReviewHas, ClientHas, Working, Refuse
<1>3. Frames(order, blocked, served, out, c, owed, v)
  BY <1>1 DEF FrameInv
<1> HIDE DEF v
<1>4. CASE Id(cmsg) = NoId
  <2>1. Write(0, cmsg, body) /\ UNCHANGED <<order, blocked, served>>
    BY <1>4 DEF Refuse
  <2>2. cmsg \in 0..Len(req)
    BY <1>1
  <2>3. Frames(order, blocked, served, out', c, owed, v)
    BY <1>1, <1>3, <1>4, <2>1, <2>2, WriteFrames
  <2>4. Frames(order, blocked, served, out', {}, owed, v)
    BY <2>3, MoveFrames DEF Frames, Placed, Once, Held
  <2>5. QED
    BY <1>2, <2>1, <2>4
<1>5. CASE Id(cmsg) # NoId
  <2> DEFINE i == Id(cmsg)
             x == [from |-> cmsg, body |-> body, size |-> ErrorSize, gated |-> FALSE]
             b == [blocked EXCEPT ![i] = x]
  <2>1. cmsg \in Numbered /\ i \in Ids
    <3>1. req[cmsg] \in Messages /\ IsTool(cmsg)
      BY <1>1 DEF TypeOK, TablesOK, FrameInv, TaskInv
    <3>2. i \in ClientIds
      BY <1>5, <3>1 DEF Messages, IsTool, Id
    <3>3. QED
      BY <1>1, <3>2 DEF Numbered, Ids
  <2>2. x \in Entries /\ x.from = cmsg
    BY <1>1, ProxyAssumption DEF TypeOK, TablesOK, Entries, Bodies
  <2>3. /\ b \in [Ids -> Entries] /\ served \in [Ids -> Entries] /\ blocked \in [Ids -> Entries]
        /\ \A j \in Ids : b[j] = IF j = i THEN x ELSE blocked[j]
    BY <1>1, <2>2 DEF TypeOK, TablesOK
  <2>4. Flush(order, b, served)
    BY <1>5 DEF Refuse
  <2> HIDE DEF b, x
  <2>5. Filed(b, served)
    BY <1>3, <2>1, <2>2, <2>3 DEF Frames, Filed
  <2>6. \A n \in Numbered : Id(n) \in Ids /\ (Stored(b, n) => n = cmsg \/ Stored(blocked, n))
    BY <2>2, <2>3 DEF Stored, Numbered, Ids
  <2>7. \A n \in Numbered : /\ Once(n, b, served, {}, owed, v)
                            /\ Held(n, b, served, {}, owed, v) => Held(n, blocked, served, c, owed, v)
    BY <1>3, <2>6 DEF Frames, Placed, Once, Held
  <2>8. Frames(order, b, served, out, {}, owed, v)
    BY <1>3, <2>5, <2>7, MoveFrames
  <2>9. cleared => order = <<>>
    BY DEF FrameInv, TaskInv
  <2>10. Frames(order', blocked', served', out', {}, owed, v)
    BY <1>1, <2>3, <2>4, <2>8, <2>9, FlushFrames
  <2>11. QED
    BY <1>2, <2>10
<1>6. QED
  BY <1>4, <1>5

(* Sending a message gives its answer to the server, or to nobody.         *)
LEMMA SendFrames ==
  ASSUME IInv, FrameInv, cpc \in {"approval", "forward"}, Send(cmsg), cpc' \in {"read", "failed"},
         UNCHANGED <<req, cleared, order, blocked, served, out, spc, smsg>>
  PROVE  Frames(order', blocked', served', out', ClientHas', owed', ReviewHas')
<1> DEFINE v == ReviewHas
<1>1. ClientHas = {cmsg} /\ ClientHas' = {} /\ ReviewHas' = v
  BY DEF ReviewHas, ClientHas, Working
<1>2. owed' = owed \/ owed' = owed \cup {cmsg}
  BY DEF Send
<1> HIDE DEF v
<1>3. Frames(order, blocked, served, out, {cmsg}, owed, v)
  BY <1>1 DEF FrameInv, v
<1>4. \A n \in Numbered :
        /\ Once(n, blocked, served, {}, owed', v)
        /\ Held(n, blocked, served, {}, owed', v) => Held(n, blocked, served, {cmsg}, owed, v)
  BY <1>2, <1>3 DEF Frames, Placed, Once, Held
<1>5. Filed(blocked, served)
  BY <1>3 DEF Frames
<1>6. Frames(order, blocked, served, out, {}, owed', v)
  BY <1>3, <1>4, <1>5, MoveFrames
<1>7. QED
  BY <1>1, <1>6

(* Storing a response of the server and flushing.                          *)
LEMMA DeliverFrames ==
  ASSUME Disjoint, IInv, FrameInv, NEW i \in Ids, NEW e \in Entries, Deliver(i, e),
         NEW ow \in SUBSET owed, NEW v \in SUBSET ReviewHas,
         \/ e.from = 0 /\ i \in ServerIds
         \/ /\ e.from \in Numbered /\ Id(e.from) = i
            /\ e.from \in owed \cup ReviewHas /\ e.from \notin ow \cup v
  PROVE  Frames(order', blocked', served', out', ClientHas, ow, v) /\ OnlyQueued
<1> DEFINE c == ClientHas
           v1 == ReviewHas
           s == [served EXCEPT ![i] = e]
<1>1. TypeOK /\ SlotInv /\ blocked \in [Ids -> Entries] /\ served \in [Ids -> Entries]
  BY DEF IInv, TypeOK, TablesOK
<1>2. /\ s \in [Ids -> Entries] /\ Flush(order, blocked, s)
      /\ \A j \in Ids : s[j] = IF j = i THEN e ELSE served[j]
  BY <1>1 DEF Deliver
<1>3. Frames(order, blocked, served, out, c, owed, v1) /\ (cleared => order = <<>>)
  BY DEF FrameInv, TaskInv
<1> HIDE DEF c, s, v1
<1>4. Filed(blocked, s)
  BY <1>2, <1>3 DEF Frames, Filed
<1>5. \A n \in Numbered : /\ n \in Nat /\ n # 0 /\ Id(n) \in Ids
                          /\ Stored(s, n) => \/ Stored(served, n)
                                             \/ n = e.from /\ n \in owed \cup v1 /\ n \notin ow \cup v
  <2>1. \A n \in Numbered : n \in Nat /\ n # 0 /\ Id(n) \in Ids
    BY <1>1 DEF Numbered, Ids, TypeOK, TablesOK
  <2>2. QED
    BY <1>2, <2>1 DEF Stored, v1
<1>6. \A n \in Numbered :
        /\ Once(n, blocked, s, c, ow, v)
        /\ Held(n, blocked, s, c, ow, v) => Held(n, blocked, served, c, owed, v1)
  <2>1. ow \subseteq owed /\ v \subseteq v1
    BY DEF v1
  <2>2. QED
    BY <1>3, <1>5, <2>1 DEF Frames, Placed, Once, Held
<1>7. Frames(order, blocked, s, out, c, ow, v)
  BY <1>3, <1>4, <1>6, MoveFrames
<1>8. QED
  BY <1>1, <1>2, <1>3, <1>7, FlushFrames DEF c

\* What the server task reviews, after a step.
Reviewable ==
  spc' \in Reviewing => \/ smsg'.from = 0 /\ smsg'.id \in ServerIds
                        \/ smsg'.from \in Numbered /\ smsg'.id = Id(smsg'.from)

(* The server's frame is passed on, stored or taken for review.            *)
LEMMA ReceiveFrames ==
  ASSUME Disjoint, IInv, FrameInv, NEW i \in Ids, NEW n, NEW z \in Sizes, Receive(i, n, z),
         spc = "read", UNCHANGED <<req, cleared, cpc, cmsg>>,
         \/ n = 0 /\ i \in ServerIds /\ owed' = owed
         \/ n \in owed /\ n \in Numbered /\ i = Id(n) /\ owed' = owed \ {n}
  PROVE  /\ Frames(order', blocked', served', out', ClientHas', owed', ReviewHas')
         /\ OnlyQueued /\ Reviewable
<1> DEFINE c == ClientHas
<1>1. TypeOK /\ ClientHas' = c /\ ReviewHas = {} /\ n \in 0..Len(req) /\ Len(req) \in Nat
  <2>1. TypeOK /\ Len(req) \in Nat /\ owed \subseteq 1..Len(req)
    BY DEF IInv, TypeOK, TablesOK, EnvironmentOK
  <2>2. ClientHas' = c /\ ReviewHas = {}
    BY DEF ClientHas, ReviewHas, Reviewing
  <2>3. n \in 0..Len(req)
    <3>1. n = 0 \/ n \in 1..Len(req)
      BY <2>1
    <3>2. QED
      BY <2>1, <3>1
  <2>4. QED
    BY <2>1, <2>2, <2>3
<1>2. Frames(order, blocked, served, out, c, owed, {}) /\ Filed(blocked, served)
  BY <1>1 DEF FrameInv, Frames
<1> HIDE DEF c
<1>3. CASE ~InOrder(i) /\ Write(0, n, "raw") /\ UNCHANGED <<order, blocked, served, spc, smsg>>
  <2>1. n = 0 \/ cleared
    <3>1. ASSUME n # 0, ~cleared PROVE FALSE
      <4>1. n \in Numbered /\ Held(n, blocked, served, c, owed, {}) /\ i = Id(n)
        BY <3>1 DEF Held
      <4>2. PICK k \in DOMAIN order : order[k] = n
        BY <1>2, <3>1, <4>1 DEF Frames, Placed, In
      <4>3. QED
        BY <1>3, <4>1, <4>2 DEF InOrder
    <3>2. QED
      BY <3>1
  <2>2. Frames(order, blocked, served, out', c, owed, {})
    BY <1>1, <1>2, <1>3, <2>1, WriteFrames
  <2>3. \A k \in Numbered :
          /\ Once(k, blocked, served, c, owed', {})
          /\ Held(k, blocked, served, c, owed', {}) => Held(k, blocked, served, c, owed, {})
    BY <1>2 DEF Frames, Placed, Once, Held
  <2>4. Frames(order, blocked, served, out', c, owed', {})
    BY <1>2, <2>2, <2>3, MoveFrames
  <2>5. ReviewHas' = {} /\ Reviewable
    BY <1>3 DEF ReviewHas, Reviewing, Reviewable
  <2>6. OnlyQueued
    <3> DEFINE f == [slot |-> 0, from |-> n, body |-> "raw", late |-> cleared]
    <3>1. out' = Append(out, f) /\ out \in Seq(Writes) /\ ~IsAnswer(f)
      BY <1>1, <1>3, <2>1 DEF Write, TypeOK, GhostsOK, IsAnswer
    <3> HIDE DEF f
    <3>2. \A k \in DOMAIN out' : out'[k] = f \/ (k \in DOMAIN out /\ out'[k] = out[k])
      BY <3>1
    <3>3. QED
      BY <3>1, <3>2 DEF OnlyQueued
  <2>7. QED
    BY <1>1, <1>3, <2>4, <2>5, <2>6
<1>4. CASE Deliver(i, [from |-> n, body |-> "raw", size |-> z, gated |-> TRUE])
  <2> DEFINE e == [from |-> n, body |-> "raw", size |-> z, gated |-> TRUE]
  <2>1. e \in Entries /\ e.from = n
    BY <1>1, ProxyAssumption DEF Entries, Bodies, TypeOK, TablesOK
  <2>2. ReviewHas' = {} /\ Reviewable
    BY <1>4 DEF Deliver, ReviewHas, Reviewing, Reviewable
  <2>3. owed' \in SUBSET owed /\ {} \in SUBSET ReviewHas
    OBVIOUS
  <2> HIDE DEF e
  <2>4. \/ e.from = 0 /\ i \in ServerIds
        \/ /\ e.from \in Numbered /\ Id(e.from) = i
           /\ e.from \in owed \cup ReviewHas /\ e.from \notin owed' \cup {}
    BY <2>1
  <2>5. Deliver(i, e)
    BY <1>4 DEF e
  <2>6. Frames(order', blocked', served', out', ClientHas, owed', {}) /\ OnlyQueued
    BY <2>1, <2>3, <2>4, <2>5, DeliverFrames
  <2>7. QED
    BY <1>1, <2>2, <2>6 DEF c
<1>5. CASE /\ smsg'.from = n /\ smsg'.id = i /\ spc' = "inspect"
           /\ UNCHANGED <<order, blocked, served, out>>
  <2>1. ReviewHas' = {n} \ {0} /\ Reviewable /\ OnlyQueued
    BY <1>5 DEF ReviewHas, Reviewing, Reviewable, OnlyQueued
  <2>2. \A k \in Numbered :
          /\ Once(k, blocked, served, c, owed', {n} \ {0})
          /\ Held(k, blocked, served, c, owed', {n} \ {0}) => Held(k, blocked, served, c, owed, {})
    <3>1. 0 \notin Numbered
      BY <1>1 DEF Numbered
    <3>2. QED
      BY <1>2, <3>1 DEF Frames, Placed, Once, Held
  <2>3. Frames(order, blocked, served, out, c, owed', {n} \ {0})
    BY <1>2, <2>2, MoveFrames
  <2>4. QED
    BY <1>1, <1>5, <2>1, <2>3
<1>6. QED
  <2>1. \/ ~InOrder(i) /\ Write(0, n, "raw") /\ UNCHANGED <<order, blocked, served, spc, smsg>>
        \/ Deliver(i, [from |-> n, body |-> "raw", size |-> z, gated |-> TRUE])
        \/ /\ smsg'.from = n /\ smsg'.id = i /\ spc' = "inspect"
           /\ UNCHANGED <<order, blocked, served, out>>
    BY DEF Receive, serverVars
  <2>2. QED
    BY <2>1, <1>3, <1>4, <1>5

(* A step that at most loses what the tasks hold.                          *)
LEMMA QuietFrames ==
  ASSUME FrameInv, UNCHANGED <<req, cleared, order, blocked, served, out, owed>>,
         ClientHas' \subseteq ClientHas, ReviewHas' \subseteq ReviewHas
  PROVE  Frames(order', blocked', served', out', ClientHas', owed', ReviewHas') /\ OnlyQueued
<1> DEFINE c == ClientHas
           v == ReviewHas
           c1 == ClientHas'
           v1 == ReviewHas'
<1>1. Frames(order, blocked, served, out, c, owed, v) /\ c1 \subseteq c /\ v1 \subseteq v
      /\ Filed(blocked, served)
  BY DEF FrameInv, Frames
<1> HIDE DEF c, v, c1, v1
<1>2. \A n \in Numbered :
        /\ Once(n, blocked, served, c1, owed, v1)
        /\ Held(n, blocked, served, c1, owed, v1) => Held(n, blocked, served, c, owed, v)
  BY <1>1 DEF Frames, Placed, Once, Held
<1>3. Frames(order, blocked, served, out, c1, owed, v1)
  BY <1>1, <1>2, MoveFrames
<1>4. OnlyQueued
  BY DEF OnlyQueued
<1>5. QED
  BY <1>3, <1>4 DEF c1, v1

(* What the tasks rely on survives a step that reads no message.           *)
LEMMA TaskKept ==
  ASSUME IInv, FrameInv, UNCHANGED <<req, cleared, cmsg>>,
         order' = order \/ Pops,
         cpc' = "slot" => cpc = "slot" /\ OnlyQueued,
         main' = "client" => main = "client",
         main' # "exited" => main # "exited",
         cpc' \in {"refuse", "approval"} => IsTool(cmsg),
         Reviewable
  PROVE  TaskInv'
<1>1. /\ cleared => order = <<>> /\ main # "client"
      /\ order \in Seq(1..Len(req))
  BY DEF FrameInv, TaskInv, IInv, TypeOK, TablesOK
<1>2. \A k \in DOMAIN order' : \E j \in DOMAIN order : order'[k] = order[j]
  <2>1. CASE Pops
    BY <1>1, <2>1, TailFacts DEF Pops
  <2>2. CASE order' = order
    BY <2>2
  <2>3. QED
    BY <2>1, <2>2
<1>3. cleared' => order' = <<>> /\ main' # "client"
  BY <1>1 DEF Pops
<1>4. ASSUME cpc' = "slot", main' # "exited"
      PROVE  (~InOrder(Id(cmsg)) /\ \A k \in DOMAIN out : IsAnswer(out[k]) => out[k].from < cmsg)'
  <2>1. ~InOrder(Id(cmsg)) /\ \A k \in DOMAIN out : IsAnswer(out[k]) => out[k].from < cmsg
    BY <1>4 DEF FrameInv, TaskInv
  <2>2. ~InOrder(Id(cmsg))'
    BY <1>2, <2>1 DEF InOrder, Id
  <2>3. \A n : In(n, order) => n < cmsg
    BY <1>4 DEF IInv, OrderInv, OlderThan, In
  <2>4. \A k \in DOMAIN out' : IsAnswer(out'[k]) => out'[k].from < cmsg
    BY <1>4, <2>1, <2>3 DEF OnlyQueued
  <2>5. (\A k \in DOMAIN out : IsAnswer(out[k]) => out[k].from < cmsg)'
    BY <2>4 DEF IsAnswer, Id
  <2>6. QED
    BY <2>2, <2>5
<1>5. cpc' \in {"refuse", "approval"} => IsTool(cmsg)'
  BY DEF IsTool
<1>6. (spc \in Reviewing => \/ smsg.from = 0 /\ smsg.id \in ServerIds
                            \/ smsg.from \in Numbered /\ smsg.id = Id(smsg.from))'
  BY DEF Reviewable, Numbered, Id
<1>7. QED
  BY <1>3, <1>4, <1>5, <1>6 DEF TaskInv

(* A new message is older than nothing and has no answer anywhere.         *)
LEMMA ReadFrames ==
  ASSUME IInv, FrameInv, NEW m \in Messages, ClientRead(m)
  PROVE  FrameInv'
<1>0. PICK n \in Nat : n = Len(req) + 1
  BY DEF IInv, TypeOK, TablesOK
<1> DEFINE b == blocked
           s == served
           ow == owed
           v == ReviewHas
           c1 == ClientHas'
<1>1. /\ Len(req) \in Nat /\ n = Len(req) + 1 /\ Len(req') = n
      /\ req'[n] = m /\ req' = Append(req, m)
      /\ \A j \in 1..Len(req) : req'[j] = req[j]
  BY <1>0 DEF ClientRead, IInv, TypeOK, TablesOK
<1>2. /\ cpc = "read" /\ main = "client" /\ ~cleared /\ ClientHas = {} /\ ReviewHas' = v
      /\ UNCHANGED <<blocked, served, owed, cleared, main, spc, smsg>>
  BY DEF ClientRead, IInv, PositionInv, TypeOK, MainOK, FrameInv, TaskInv, ClientHas, Working,
     ReviewHas, serverVars, mainVars
<1>3. /\ order \in Seq(1..Len(req)) /\ out \in Seq(Writes) /\ owed \subseteq 1..Len(req)
      /\ blocked \in [Ids -> Entries] /\ served \in [Ids -> Entries]
      /\ \A k \in DOMAIN order : order[k] \in 1..Len(req)
  BY DEF IInv, TypeOK, TablesOK, GhostsOK, EnvironmentOK
<1>4. v \subseteq 1..Len(req) /\ n \notin v
  <2>1. smsg.from \in 0..Len(req)
    BY DEF IInv, TypeOK, ServerOK
  <2>2. QED
    BY <1>1, <2>1 DEF ReviewHas
<1>5. Frames(order, b, s, out, {}, ow, v)
  BY <1>2 DEF FrameInv
<1>6. /\ \/ /\ out' = Append(out, [slot |-> 0, from |-> n, body |-> "duplicate", late |-> cleared])
            /\ order' = order /\ c1 = {} /\ cpc' = "read"
         \/ /\ out' = out /\ order' = order /\ c1 = {} /\ cpc' = "slot" /\ cmsg' = n
            /\ ~InOrder(m.id)
         \/ /\ out' = out /\ order' = order /\ m.id = NoId /\ c1 = {n} /\ cpc' = "inspect"
         \/ /\ out' = out /\ order' = Append(order, n) /\ ~InOrder(m.id) /\ c1 = {n}
            /\ cpc' = "inspect"
  <2>1. \/ /\ out' = Append(out, [slot |-> 0, from |-> n, body |-> "duplicate", late |-> cleared])
           /\ order' = order /\ cpc' = "read"
        \/ /\ out' = out /\ order' = order /\ cpc' = "slot" /\ cmsg' = n
           /\ ~Duplicate(m.id) /\ m.id # NoId
        \/ out' = out /\ order' = order /\ m.id = NoId /\ cmsg' = n /\ cpc' = "inspect"
        \/ /\ out' = out /\ order' = Append(order, n) /\ ~Duplicate(m.id) /\ m.id # NoId /\ cmsg' = n
           /\ cpc' = "inspect"
    BY <1>1, <1>2 DEF ClientRead, Admit, Write
  <2>2. ~Duplicate(m.id) /\ m.id # NoId => ~InOrder(m.id)
    BY DEF Duplicate
  <2>3. c1 = IF cpc' \in Working THEN {cmsg'} ELSE {}
    BY DEF ClientHas
  <2> HIDE DEF c1
  <2>4. QED
    BY <2>1, <2>2, <2>3 DEF Working
<1> HIDE DEF c1, v
<1>7. /\ \A j \in 1..Len(req) : Id(j)' = Id(j) /\ (j \in Numbered' <=> j \in Numbered)
      /\ Numbered \subseteq 1..Len(req) /\ Numbered' \subseteq 1..n /\ Id(n)' = m.id
      /\ m.id = NoId => n \notin Numbered'
  <2>1. \A j \in 1..n : Id(j)' = req'[j].id
    BY DEF Id
  <2>2. Numbered' = {j \in 1..n : req'[j].id \in ClientIds}
    BY <1>1 DEF Numbered, Id
  <2>3. Numbered = {j \in 1..Len(req) : req[j].id \in ClientIds} /\ NoId \notin ClientIds
    BY ProxyAssumption DEF Numbered, Id
  <2>4. \A j \in 1..Len(req) : j \in 1..n /\ req'[j].id = req[j].id
    BY <1>1
  <2>5. Id(n)' = m.id
    BY <1>1 DEF Id
  <2>6. \A j \in 1..Len(req) : Id(j)' = Id(j)
    BY <1>1 DEF Id
  <2>7. m.id = NoId => n \notin Numbered'
    BY <1>1, <2>2, <2>3
  <2>8. \A j \in 1..Len(req) : j \in Numbered' <=> j \in Numbered
    BY <2>2, <2>3, <2>4
  <2>9. QED
    BY <2>2, <2>3, <2>5, <2>6, <2>7, <2>8
<1>8. \A k \in DOMAIN order : order[k] # n /\ order[k] < n
  BY <1>1, <1>3
<1>a. order' = Append(order, n) =>
        /\ \A k \in DOMAIN order' : \/ k \in DOMAIN order /\ order'[k] = order[k]
                                    \/ k = Len(order) + 1 /\ order'[k] = n
        /\ \A k \in DOMAIN order : k \in DOMAIN order' /\ order'[k] = order[k]
  <2>1. n \in 1..n /\ order \in Seq(1..n)
    BY <1>1, <1>3, Widen
  <2>2. SUFFICES ASSUME order' = Append(order, n)
                 PROVE  /\ \A k \in DOMAIN order' : \/ k \in DOMAIN order /\ order'[k] = order[k]
                                                    \/ k = Len(order) + 1 /\ order'[k] = n
                        /\ \A k \in DOMAIN order : k \in DOMAIN order' /\ order'[k] = order[k]
    OBVIOUS
  <2>3. /\ Len(Append(order, n)) = Len(order) + 1 /\ Append(order, n) \in Seq(1..n)
        /\ \A k \in DOMAIN Append(order, n) : \/ k \in DOMAIN order /\ Append(order, n)[k] = order[k]
                                              \/ k = Len(order) + 1 /\ Append(order, n)[k] = n
    BY <2>1, AppendFacts
  <2>4. \A k \in DOMAIN order : k \in DOMAIN Append(order, n) /\ k # Len(order) + 1
    BY <2>1, <2>3
  <2>5. QED
    BY <2>2, <2>3, <2>4
<1>9. Sorted(order)'
  <2>1. \A j, k \in DOMAIN order : j < k => order[j] < order[k] /\ req'[order[j]].id # req'[order[k]].id
    BY <1>1, <1>3, <1>5 DEF Frames, Sorted, Id
  <2>2. CASE order' = order
    BY <2>1, <2>2 DEF Sorted, Id
  <2>3. CASE order' = Append(order, n) /\ ~InOrder(m.id)
    <3>1. \A j \in DOMAIN order : req'[order[j]].id # m.id
      BY <1>1, <1>3, <2>3 DEF InOrder, Id
    <3>3. \A k \in DOMAIN order' : \/ k \in DOMAIN order /\ order'[k] = order[k]
                                   \/ k = Len(order) + 1 /\ order'[k] = n
      BY <1>a, <2>3
    <3>4. Len(order) \in Nat /\ \A k \in DOMAIN order : k \in Nat /\ k <= Len(order)
      BY <1>3
    <3>5. ASSUME NEW j \in DOMAIN order', NEW k \in DOMAIN order', j < k
          PROVE  order'[j] < order'[k] /\ req'[order'[j]].id # req'[order'[k]].id
      <4>1. j \in DOMAIN order /\ order'[j] = order[j]
        BY <3>3, <3>4, <3>5
      <4>2. CASE k \in DOMAIN order /\ order'[k] = order[k]
        BY <2>1, <3>5, <4>1, <4>2
      <4>3. CASE order'[k] = n
        BY <1>1, <1>8, <3>1, <4>1, <4>3
      <4>4. QED
        BY <3>3, <4>2, <4>3
    <3>6. QED
      BY <3>5 DEF Sorted, Id
  <2>4. QED
    BY <1>6, <2>2, <2>3
<1>10. \A i \in Ids :
         /\ b[i] # Nil => b[i].from \in Numbered /\ Id(b[i].from) = i
         /\ s[i] # Nil => \/ s[i].from = 0 /\ i \in ServerIds
                          \/ s[i].from \in Numbered /\ Id(s[i].from) = i
  BY <1>5 DEF Frames, Filed
<1>11. Filed(blocked, served)'
  <2>1. \A j \in Numbered : j \in Numbered' /\ Id(j)' = Id(j)
    BY <1>7
  <2>2. \A i \in Ids :
         /\ b[i] # Nil => b[i].from \in Numbered' /\ req'[b[i].from].id = i
         /\ s[i] # Nil => \/ s[i].from = 0 /\ i \in ServerIds
                          \/ s[i].from \in Numbered' /\ req'[s[i].from].id = i
    BY <1>10, <2>1 DEF Id
  <2>3. QED
    BY <1>2, <2>2 DEF Filed, Id, Numbered
<1>12. \A j \in Numbered' : Stored(b, j)' <=> b[req'[j].id].from = j
  BY <1>2 DEF Stored, Id
<1>13. \A i \in Ids : b[i].from # n /\ s[i].from # n
  <2>1. Nil.from = 0
    BY DEF Nil
  <2>2. QED
    BY <1>1, <1>7, <1>10, <2>1
<1>14. ASSUME NEW k \in Numbered'
       PROVE  /\ k # n => /\ k \in Numbered
                          /\ Held(k, b, s, {}, ow, v) <=> Held(k, blocked, served, ClientHas, owed, ReviewHas)'
                          /\ Once(k, b, s, {}, ow, v) => Once(k, blocked, served, ClientHas, owed, ReviewHas)'
              /\ k = n => /\ Once(k, blocked, served, ClientHas, owed, ReviewHas)'
                          /\ Held(k, blocked, served, ClientHas, owed, ReviewHas)' <=> n \in c1
  <2>1. /\ Held(k, blocked, served, ClientHas, owed, ReviewHas)' <=>
             k \in c1 \/ k \in ow \/ k \in v \/ b[req'[k].id].from = k \/ s[req'[k].id].from = k
        /\ Once(k, blocked, served, ClientHas, owed, ReviewHas)' <=>
             /\ k \in c1 => k \notin ow /\ k \notin v /\ b[req'[k].id].from # k /\ s[req'[k].id].from # k
             /\ k \in ow => k \notin v /\ b[req'[k].id].from # k /\ s[req'[k].id].from # k
             /\ k \in v => b[req'[k].id].from # k /\ s[req'[k].id].from # k
             /\ b[req'[k].id].from = k => s[req'[k].id].from # k
    BY <1>2 DEF Held, Once, Stored, Id, c1
  <2>2. c1 \subseteq {n}
    BY <1>6
  <2>3. ASSUME k # n
        PROVE  /\ k \in Numbered
               /\ Held(k, b, s, {}, ow, v) <=> Held(k, blocked, served, ClientHas, owed, ReviewHas)'
               /\ Once(k, b, s, {}, ow, v) => Once(k, blocked, served, ClientHas, owed, ReviewHas)'
    <3>1. k \in 1..Len(req) /\ k \in Numbered /\ req'[k].id = Id(k)
      BY <1>1, <1>7, <2>3 DEF Id
    <3>2. QED
      BY <2>1, <2>2, <2>3, <3>1 DEF Held, Once, Stored
  <2>4. ASSUME k = n
        PROVE  /\ Once(k, blocked, served, ClientHas, owed, ReviewHas)'
               /\ Held(k, blocked, served, ClientHas, owed, ReviewHas)' <=> n \in c1
    <3>1. req'[n].id \in Ids /\ n \notin ow /\ n \notin v
      <4>1. Id(n)' \in ClientIds
        BY <1>14, <2>4 DEF Numbered
      <4>2. n \notin 1..Len(req)
        BY <1>1
      <4>3. QED
        BY <1>3, <1>4, <4>1, <4>2 DEF Id, Ids
    <3>2. QED
      BY <1>13, <2>1, <2>4, <3>1
  <2>5. QED
    BY <2>3, <2>4
<1>15. Placed(order, blocked, served, ClientHas, owed, ReviewHas)'
  <2>1. ASSUME NEW k \in Numbered'
        PROVE  /\ Once(k, blocked, served, ClientHas, owed, ReviewHas)'
               /\ Held(k, blocked, served, ClientHas, owed, ReviewHas)' => In(k, order)'
    <3>1. CASE k # n
      <4>1. k \in Numbered /\ (Held(k, b, s, {}, ow, v) => In(k, order)) /\ Once(k, b, s, {}, ow, v)
        BY <1>2, <1>5, <1>14, <2>1, <3>1 DEF Frames, Placed
      <4>2. In(k, order) => In(k, order)'
        <5>1. order' = order \/ order' = Append(order, n)
          BY <1>6
        <5>2. \A j \in DOMAIN order : j \in DOMAIN order' /\ order'[j] = order[j]
          BY <1>a, <5>1
        <5>3. QED
          BY <5>2 DEF In
      <4>3. QED
        BY <1>14, <2>1, <3>1, <4>1, <4>2
    <3>2. CASE k = n
      <4>1. n \in c1 => order' = Append(order, n)
        BY <1>6, <1>7, <2>1, <3>2
      <4>2. order' = Append(order, n) => In(n, order)'
        <5>1. order' = Append(order, n) => Len(order) + 1 \in DOMAIN order' /\ order'[Len(order) + 1] = n
          BY <1>3
        <5>2. QED
          BY <5>1 DEF In
      <4>3. QED
        BY <1>14, <2>1, <3>2, <4>1, <4>2
    <3>3. QED
      BY <3>1, <3>2
  <2>2. QED
    BY <2>1 DEF Placed
<1>16. \A k \in DOMAIN out' : \/ k \in DOMAIN out /\ out'[k] = out[k]
                              \/ out'[k].from = n /\ out'[k].body = "duplicate"
  <2>1. CASE out' = out
    BY <2>1
  <2>2. CASE out' = Append(out, [slot |-> 0, from |-> n, body |-> "duplicate", late |-> cleared])
    BY <1>3, <2>2
  <2>3. QED
    BY <1>6, <2>1, <2>2
<1>17. \A k \in DOMAIN out' :
         /\ out'[k].from <= n
         /\ out'[k].from # 0 /\ out'[k].body # "duplicate" /\ ~out'[k].late /\ req'[out'[k].from].id # NoId
              => /\ k \in DOMAIN out /\ out'[k] = out[k] /\ IsAnswer(out[k])
                 /\ out[k].from \in Numbered /\ out[k].from < n
  <2>1. ASSUME NEW k \in DOMAIN out, out'[k] = out[k]
        PROVE  /\ out'[k].from <= n
               /\ out'[k].from # 0 /\ out'[k].body # "duplicate" /\ ~out'[k].late
                    /\ req'[out'[k].from].id # NoId
                  => IsAnswer(out[k]) /\ out[k].from \in Numbered /\ out[k].from < n
    <3>1. out[k].from \in Nat /\ out[k].from <= Len(req)
      <4>1. out[k] \in Writes
        BY <1>3, <2>1
      <4>2. QED
        BY <1>5, <2>1, <4>1, ProxyAssumption DEF Frames, Answered, Writes
    <3>2. out[k].from # 0 => req'[out[k].from].id = Id(out[k].from)
      BY <1>1, <3>1 DEF Id
    <3>3. IsAnswer(out[k]) => out[k].from \in Numbered
      BY <1>5, <2>1 DEF Frames, Answered
    <3>4. QED
      BY <1>1, <2>1, <3>1, <3>2, <3>3 DEF IsAnswer
  <2>2. ASSUME NEW k \in DOMAIN out', out'[k].from = n, out'[k].body = "duplicate"
        PROVE  out'[k].from <= n
    BY <1>0, <2>2
  <2>3. QED
    BY <1>16, <2>1, <2>2
<1>18. Answered(out, order, blocked, served, ClientHas, owed, ReviewHas)'
  <2>1. ASSUME NEW k \in DOMAIN out, IsAnswer(out[k]), out[k].from < n
        PROVE  /\ out[k].from \in Numbered'
               /\ ~Held(out[k].from, blocked, served, {}, owed, v)
               /\ \A j \in DOMAIN order' : out[k].from < order'[j]
    <3>1. /\ out[k].from \in Numbered /\ ~Held(out[k].from, blocked, served, {}, owed, v)
          /\ \A j \in DOMAIN order : out[k].from < order[j]
      BY <1>5, <2>1 DEF Frames, Answered
    <3>2. \A j \in DOMAIN order' : (\E i \in DOMAIN order : order'[j] = order[i]) \/ order'[j] = n
      <4>1. order' = order \/ order' = Append(order, n)
        BY <1>6
      <4>2. QED
        BY <1>a, <4>1
    <3>3. QED
      BY <1>7, <2>1, <3>1, <3>2
  <2>2. ASSUME NEW x \in Numbered', x # n, ~Held(x, blocked, served, {}, owed, v)
        PROVE  ~Held(x, blocked, served, ClientHas, owed, ReviewHas)'
    BY <1>14, <2>2
  <2>3. \A x \in Numbered' :
          Held(x, blocked, served, ClientHas, owed, ReviewHas)' <=>
             x \in c1 \/ x \in ow \/ x \in v \/ b[req'[x].id].from = x \/ s[req'[x].id].from = x
    BY <1>2 DEF Held, Stored, Id, c1
  <2>4. \A k \in DOMAIN out' :
         /\ out'[k].from <= n
         /\ out'[k].from # 0 /\ out'[k].body # "duplicate" /\ ~out'[k].late /\ req'[out'[k].from].id # NoId
              => /\ out'[k].from \in Numbered'
                 /\ LET x == out'[k].from
                    IN  ~(x \in c1 \/ x \in ow \/ x \in v \/ b[req'[x].id].from = x
                            \/ s[req'[x].id].from = x)
                 /\ \A j \in DOMAIN order' : out'[k].from < order'[j]
    <3>1. ASSUME NEW k \in DOMAIN out', out'[k].from # 0, out'[k].body # "duplicate", ~out'[k].late,
                 req'[out'[k].from].id # NoId
          PROVE  /\ out'[k].from \in Numbered'
                 /\ LET x == out'[k].from
                    IN  ~(x \in c1 \/ x \in ow \/ x \in v \/ b[req'[x].id].from = x
                            \/ s[req'[x].id].from = x)
                 /\ \A j \in DOMAIN order' : out'[k].from < order'[j]
      <4>1. /\ k \in DOMAIN out /\ out'[k] = out[k] /\ IsAnswer(out[k])
            /\ out[k].from \in Numbered /\ out[k].from < n
        BY <1>17, <3>1
      <4>2. out[k].from # n
        BY <1>1, <1>7, <4>1
      <4>3. QED
        BY <2>1, <2>2, <2>3, <4>1, <4>2
    <3>2. QED
      BY <1>17, <3>1
  <2>5. QED
    BY <1>1, <1>2, <2>4 DEF Answered, IsAnswer, Held, Stored, Id, c1, Numbered
<1>19. InSequence(out)'
  <2>1. \A j, k \in DOMAIN out' :
          /\ j < k
          /\ out'[j].from # 0 /\ out'[j].body # "duplicate" /\ ~out'[j].late /\ req'[out'[j].from].id # NoId
          /\ out'[k].from # 0 /\ out'[k].body # "duplicate" /\ ~out'[k].late /\ req'[out'[k].from].id # NoId
          => out'[j].from < out'[k].from
    BY <1>5, <1>17 DEF Frames, InSequence
  <2>2. QED
    BY <2>1 DEF InSequence, IsAnswer, Id
<1>20. TaskInv'
  <2>1. cleared' = FALSE /\ cpc' \notin {"refuse", "approval"}
    BY <1>2, <1>6 DEF FrameInv
  <2>2. (cpc = "slot" /\ main # "exited" =>
          ~InOrder(Id(cmsg)) /\ \A k \in DOMAIN out : IsAnswer(out[k]) => out[k].from < cmsg)'
    <3>1. SUFFICES ASSUME cpc' = "slot"
                   PROVE  /\ ~InOrder(Id(cmsg))'
                          /\ (\A k \in DOMAIN out : IsAnswer(out[k]) => out[k].from < cmsg)'
      OBVIOUS
    <3>2. cmsg' = n /\ order' = order /\ ~InOrder(m.id)
      BY <1>6, <3>1
    <3>3. ~InOrder(Id(cmsg))'
      BY <1>1, <1>3, <3>2 DEF InOrder, Id
    <3>4. (\A k \in DOMAIN out : IsAnswer(out[k]) => out[k].from < cmsg)'
      BY <1>17, <3>2 DEF IsAnswer, Id
    <3>5. QED
      BY <3>3, <3>4
  <2>3. (spc \in Reviewing => \/ smsg.from = 0 /\ smsg.id \in ServerIds
                              \/ smsg.from \in Numbered /\ smsg.id = Id(smsg.from))'
    <3>1. spc \in Reviewing => \/ smsg.from = 0 /\ smsg.id \in ServerIds
                               \/ smsg.from \in Numbered /\ smsg.id = Id(smsg.from)
      BY DEF FrameInv, TaskInv
    <3>2. \A j \in Numbered : j \in Numbered' /\ req'[j].id = Id(j)
      BY <1>1, <1>7 DEF Id
    <3>3. QED
      BY <1>2, <3>1, <3>2 DEF Id, Numbered
  <2>4. QED
    BY <2>1, <2>2, <2>3 DEF TaskInv
<1>21. QED
  BY <1>9, <1>11, <1>15, <1>18, <1>19, <1>20 DEF FrameInv, Frames

(* The message that waited for a slot gets the last one.                   *)
LEMMA SlotFrames ==
  ASSUME IInv, FrameInv, ClientSlot
  PROVE  FrameInv'
<1>0. PICK n \in Nat : n = cmsg
  BY DEF IInv, TypeOK, ClientOK, TablesOK
<1> DEFINE v == ReviewHas
<1>1. /\ main = "client" /\ ~cleared /\ cpc = "slot" /\ Id(n) # NoId /\ n \in 1..Len(req)
      /\ Len(req) \in Nat /\ ~InOrder(Id(n))
      /\ \A k \in DOMAIN out : IsAnswer(out[k]) => out[k].from < n
  BY <1>0 DEF ClientSlot, IInv, PositionInv, FrameInv, TaskInv, TypeOK, TablesOK, MainOK
<1>2. /\ order' = Append(order, n) /\ cpc' = "inspect" /\ cmsg' = n
      /\ UNCHANGED <<req, blocked, served, owed, out, cleared, main, spc, smsg>>
  BY <1>0, <1>1 DEF ClientSlot, Admit, serverVars, mainVars, envVars, ghosts
<1>3. ClientHas = {} /\ ClientHas' = {n} /\ ReviewHas' = v
  BY <1>1, <1>2 DEF ClientHas, Working, ReviewHas
<1>4. Frames(order, blocked, served, out, {}, owed, v)
  BY <1>3 DEF FrameInv
<1> HIDE DEF v
<1>5. /\ order \in Seq(1..Len(req))
      /\ \A k \in DOMAIN order : order[k] < n /\ order[k] \in Nat /\ k \in Nat /\ k <= Len(order)
  <2>1. order \in Seq(1..Len(req)) /\ OlderThan(order, n)
    BY <1>0, <1>1 DEF IInv, TypeOK, TablesOK, OrderInv
  <2>2. QED
    BY <2>1 DEF OlderThan
<1>6. /\ \A k \in DOMAIN order' : \/ k \in DOMAIN order /\ order'[k] = order[k]
                                  \/ k = Len(order) + 1 /\ order'[k] = n
      /\ \A k \in DOMAIN order : k \in DOMAIN order' /\ order'[k] = order[k]
      /\ Len(order) + 1 \in DOMAIN order' /\ order'[Len(order) + 1] = n
  BY <1>1, <1>2, <1>5, AppendFacts
<1>7. Sorted(order')
  <2>1. \A j \in DOMAIN order : Id(order[j]) # Id(n)
    BY <1>1 DEF InOrder
  <2>2. ASSUME NEW j \in DOMAIN order', NEW k \in DOMAIN order', j < k
        PROVE  order'[j] < order'[k] /\ Id(order'[j]) # Id(order'[k])
    <3>1. j \in DOMAIN order /\ order'[j] = order[j]
      <4>1. k \in Nat /\ k <= Len(order) + 1 /\ Len(order) \in Nat
        BY <1>5, <1>6
      <4>2. j # Len(order) + 1
        BY <2>2, <4>1
      <4>3. QED
        BY <1>6, <4>2
    <3>2. CASE k \in DOMAIN order /\ order'[k] = order[k]
      BY <1>4, <2>2, <3>1, <3>2 DEF Frames, Sorted
    <3>3. CASE order'[k] = n
      BY <1>5, <2>1, <3>1, <3>3
    <3>4. QED
      BY <1>6, <3>2, <3>3
  <2>3. QED
    BY <2>2 DEF Sorted
<1>8. Placed(order', blocked, served, {n}, owed, v)
  <2>1. ASSUME NEW x \in Numbered
        PROVE  /\ Once(x, blocked, served, {n}, owed, v)
               /\ Held(x, blocked, served, {n}, owed, v) => In(x, order')
    <3>1. /\ Once(x, blocked, served, {}, owed, v)
          /\ Held(x, blocked, served, {}, owed, v) => In(x, order)
      BY <1>1, <1>4 DEF Frames, Placed
    <3>2. In(x, order) => In(x, order') /\ x # n
      BY <1>5, <1>6 DEF In
    <3>3. In(n, order')
      BY <1>6 DEF In
    <3>4. QED
      BY <3>1, <3>2, <3>3 DEF Once, Held
  <2>2. QED
    BY <2>1 DEF Placed
<1>9. Answered(out, order', blocked, served, {n}, owed, v)
  <2>1. ASSUME NEW k \in DOMAIN out, IsAnswer(out[k])
        PROVE  /\ out[k].from \in Numbered
               /\ ~Held(out[k].from, blocked, served, {n}, owed, v)
               /\ \A j \in DOMAIN order' : out[k].from < order'[j]
    <3>1. /\ out[k].from \in Numbered /\ out[k].from < n
          /\ ~Held(out[k].from, blocked, served, {}, owed, v)
          /\ \A j \in DOMAIN order : out[k].from < order[j]
      BY <1>1, <1>4, <2>1 DEF Frames, Answered
    <3>2. out[k].from # n
      BY <1>1, <3>1 DEF Numbered
    <3>3. ~Held(out[k].from, blocked, served, {n}, owed, v)
      BY <3>1, <3>2 DEF Held
    <3>4. \A j \in DOMAIN order' : out[k].from < order'[j]
      BY <1>6, <3>1
    <3>5. QED
      BY <3>1, <3>3, <3>4
  <2>2. QED
    BY <1>4, <2>1 DEF Frames, Answered
<1>10. Frames(order', blocked', served', out', ClientHas', owed', ReviewHas')
  BY <1>2, <1>3, <1>4, <1>7, <1>8, <1>9 DEF Frames
<1>11. TaskInv'
  <2>1. spc \in Reviewing => \/ smsg.from = 0 /\ smsg.id \in ServerIds
                             \/ smsg.from \in Numbered /\ smsg.id = Id(smsg.from)
    BY DEF FrameInv, TaskInv
  <2>2. (spc \in Reviewing => \/ smsg.from = 0 /\ smsg.id \in ServerIds
                              \/ smsg.from \in Numbered /\ smsg.id = Id(smsg.from))'
    BY <1>2, <2>1 DEF Numbered, Id
  <2>3. QED
    BY <1>1, <1>2, <2>2 DEF TaskInv
<1>12. QED
  BY <1>2, <1>10, <1>11, NextFrames DEF FrameInv

(* The drain times out when the client has gone, and forgets every slot.   *)
LEMMA DrainFrames ==
  ASSUME IInv, FrameInv, DrainTimeout
  PROVE  FrameInv'
<1>1. /\ UNCHANGED <<req, blocked, served, owed, out, cpc, cmsg, spc, smsg>>
      /\ order' = <<>> /\ cleared' = TRUE /\ main' = "wait" /\ cpc = "done"
  BY DEF DrainTimeout, IInv, PositionInv, clientVars, serverVars, envVars, ghosts
<1>2. UNCHANGED <<ClientHas, ReviewHas>>
  BY <1>1 DEF ClientHas, ReviewHas
<1>3. Frames(order, blocked, served, out, ClientHas, owed, ReviewHas)
  BY DEF FrameInv
<1>4. DOMAIN order' = {}
  BY <1>1
<1>5. Frames(order, blocked, served, out, ClientHas, owed, ReviewHas)'
  BY <1>1, <1>2, <1>3, <1>4 DEF Frames, Sorted, Filed, Placed, Answered, InSequence, Numbered, Id,
     Held, Once, Stored, In, IsAnswer
<1>6. TaskInv'
  <2>1. spc \in Reviewing => \/ smsg.from = 0 /\ smsg.id \in ServerIds
                             \/ smsg.from \in Numbered /\ smsg.id = Id(smsg.from)
    BY DEF FrameInv, TaskInv
  <2>2. (spc \in Reviewing => \/ smsg.from = 0 /\ smsg.id \in ServerIds
                              \/ smsg.from \in Numbered /\ smsg.id = Id(smsg.from))'
    BY <1>1, <2>1 DEF Numbered, Id
  <2>3. QED
    BY <1>1, <2>2 DEF TaskInv
<1>7. QED
  BY <1>5, <1>6 DEF FrameInv

(* A step that touches neither the queue, the tables nor the wire.         *)
LEMMA QuietStep ==
  ASSUME IInv, FrameInv, UNCHANGED <<req, cleared, cmsg, order, blocked, served, out, owed>>,
         cpc' = "slot" => cpc = "slot",
         cpc' \in Working => cpc \in Working,
         cpc' \in {"refuse", "approval"} => IsTool(cmsg),
         main' = "client" => main = "client",
         main' # "exited" => main # "exited",
         spc' \in Reviewing => spc \in Reviewing /\ smsg' = smsg
  PROVE  FrameInv'
<1>1. ClientHas' \subseteq ClientHas /\ ReviewHas' \subseteq ReviewHas
  BY DEF ClientHas, ReviewHas
<1>2. Frames(order', blocked', served', out', ClientHas', owed', ReviewHas') /\ OnlyQueued
  BY <1>1, QuietFrames
<1>3. Reviewable
  BY DEF Reviewable, FrameInv, TaskInv
<1>4. TaskInv'
  BY <1>2, <1>3, TaskKept
<1>5. QED
  BY <1>2, <1>4, NextFrames DEF FrameInv

(* The server task hands its result to the flush.                          *)
LEMMA ReviewedFrames ==
  ASSUME Disjoint, IInv, FrameInv, spc \in Reviewing, NEW body \in Bodies,
         Deliver(smsg.id, Reply(body)), UNCHANGED <<req, cleared, cmsg, cpc, main, owed>>
  PROVE  FrameInv'
<1> DEFINE e == Reply(body)
           i == smsg.id
<1>1. TypeOK /\ i \in Ids /\ e \in Entries /\ e.from = smsg.from
  <2>1. TypeOK /\ i \in Ids
    BY DEF IInv, PositionInv, Reviewing
  <2>2. e \in Entries
    BY <2>1, ReplyType
  <2>3. e.from = smsg.from
    BY DEF Reply
  <2>4. QED
    BY <2>1, <2>2, <2>3
<1>2. \/ smsg.from = 0 /\ i \in ServerIds
      \/ smsg.from \in Numbered /\ i = Id(smsg.from)
  BY DEF FrameInv, TaskInv
<1>3. ASSUME smsg.from \in Numbered PROVE smsg.from \in ReviewHas /\ smsg.from \notin owed
  <2>1. smsg.from \in ReviewHas
    <3>1. smsg.from # 0
      BY <1>1, <1>3 DEF Numbered, TypeOK, TablesOK
    <3>2. QED
      BY <3>1 DEF ReviewHas
  <2>2. Once(smsg.from, blocked, served, ClientHas, owed, ReviewHas)
    BY <1>3 DEF FrameInv, Frames, Placed
  <2>3. QED
    BY <2>1, <2>2 DEF Once
<1>4. ClientHas' = ClientHas /\ ReviewHas' = {} /\ spc' \notin Reviewing
  BY DEF ClientHas, ReviewHas, Deliver, Reviewing
<1>5. owed \in SUBSET owed /\ {} \in SUBSET ReviewHas
  OBVIOUS
<1>6. \/ e.from = 0 /\ i \in ServerIds
      \/ /\ e.from \in Numbered /\ Id(e.from) = i
         /\ e.from \in owed \cup ReviewHas /\ e.from \notin owed \cup {}
  BY <1>1, <1>2, <1>3
<1>7. order' = order \/ Pops
  BY FlushQueue DEF Deliver
<1>8. Deliver(i, e)
  OBVIOUS
<1> HIDE DEF e, i
<1>9. Frames(order', blocked', served', out', ClientHas, owed, {}) /\ OnlyQueued
  BY <1>1, <1>5, <1>6, <1>8, DeliverFrames
<1>10. Reviewable
  BY <1>4 DEF Reviewable
<1>11. TaskInv'
  BY <1>7, <1>9, <1>10, TaskKept DEF FrameInv, TaskInv
<1>12. QED
  BY <1>4, <1>9, <1>11, NextFrames DEF FrameInv

(* Every step keeps the frames in place.                                   *)
LEMMA FrameStep ==
  ASSUME Disjoint, IInv, FrameInv, [Next]_vars
  PROVE  FrameInv'
<1>a. /\ cpc \in {"refuse", "approval"} => IsTool(cmsg)
      /\ spc \in Reviewing => \/ smsg.from = 0 /\ smsg.id \in ServerIds
                              \/ smsg.from \in Numbered /\ smsg.id = Id(smsg.from)
  BY DEF FrameInv, TaskInv
<1>b. TypeOK /\ SlotInv /\ PositionInv /\ (cleared => order = <<>>)
  BY DEF IInv, FrameInv, TaskInv
<1>c. ASSUME Frames(order', blocked', served', out', ClientHas', owed', ReviewHas'),
             UNCHANGED <<req, cleared, cmsg, main>>, order' = order \/ Pops,
             cpc' = "slot" => cpc = "slot" /\ OnlyQueued, cpc' \notin {"refuse", "approval"} \/ cpc' = cpc,
             Reviewable
      PROVE  FrameInv'
  BY <1>a, <1>c, TaskKept, NextFrames DEF FrameInv
<1>d. spc' = spc /\ smsg' = smsg => ReviewHas' = ReviewHas /\ Reviewable
  BY <1>a DEF ReviewHas, Reviewable
<1>e. cpc' = cpc /\ cmsg' = cmsg => ClientHas' = ClientHas
  BY DEF ClientHas
<1> USE DEF tables, events, clientVars, serverVars, mainVars, envVars, ghosts
<1>1. ASSUME NEW m \in Messages, ClientRead(m) PROVE FrameInv'
  BY <1>1, ReadFrames
<1>2. ASSUME NEW v, ClientInspect(v) PROVE FrameInv'
  BY <1>2, QuietStep DEF ClientInspect, Working
<1>3. ASSUME NEW s \in {"approved", "denied", "expired"}, ClientRefuse \/ ClientApproval(s)
      PROVE FrameInv'
  <2>1. CASE \E body \in RequestErrors : Refuse(cmsg, body) /\ UNCHANGED owed
    <3>1. PICK body \in RequestErrors : Refuse(cmsg, body) /\ UNCHANGED owed
      BY <2>1
    <3>2. UNCHANGED <<req, cleared, spc, smsg, cmsg, main>> /\ cpc \in {"refuse", "approval"}
      BY <1>3 DEF ClientRefuse, ClientApproval
    <3>3. Frames(order', blocked', served', out', ClientHas', owed', ReviewHas')
      BY <3>1, <3>2, RefuseFrames
    <3>4. (order' = order \/ Pops) /\ cpc' \in {"read", "flush"}
      BY <3>1, FlushQueue DEF Refuse
    <3>5. QED
      BY <1>c, <1>d, <3>2, <3>3, <3>4
  <2>2. CASE ClientApproval(s) /\ Consent(s)
    <3>1. /\ Send(cmsg) /\ cpc = "approval" /\ cpc' \in {"read", "failed"}
          /\ UNCHANGED <<req, cleared, order, blocked, served, out, spc, smsg, cmsg, main>>
      BY <2>2 DEF ClientApproval
    <3>2. Frames(order', blocked', served', out', ClientHas', owed', ReviewHas')
      BY <3>1, SendFrames
    <3>3. QED
      BY <1>c, <1>d, <3>1, <3>2
  <2>3. QED
    BY <1>3, <2>1, <2>2 DEF ClientRefuse, ClientApproval, RequestErrors
<1>4. ASSUME ClientForward PROVE FrameInv'
  <2>1. /\ Send(cmsg) /\ cpc = "forward" /\ cpc' \in {"read", "failed"}
        /\ UNCHANGED <<req, cleared, order, blocked, served, out, spc, smsg, cmsg, main>>
    BY <1>4 DEF ClientForward
  <2>2. Frames(order', blocked', served', out', ClientHas', owed', ReviewHas')
    BY <2>1, SendFrames
  <2>3. QED
    BY <1>c, <1>d, <2>1, <2>2
<1>5. ASSUME ClientFlush \/ ServerFlush PROVE FrameInv'
  <2>1. /\ Flush(order, blocked, served) /\ UNCHANGED <<req, cleared, owed, smsg, cmsg, main>>
        /\ \/ cpc = "flush" /\ cpc' \in {"flush", "read"} /\ spc' = spc
           \/ spc = "flush" /\ spc' \in {"flush", "read"} /\ cpc' = cpc
    BY <1>5 DEF ClientFlush, ServerFlush
  <2>2. ClientHas' = ClientHas /\ ReviewHas' = ReviewHas /\ Reviewable
    BY <1>d, <1>e, <2>1 DEF ClientHas, ReviewHas, Reviewable, Working, Reviewing
  <2>3. blocked \in [Ids -> Entries] /\ served \in [Ids -> Entries]
    BY <1>b DEF TypeOK, TablesOK
  <2>4. /\ Frames(order', blocked', served', out', ClientHas, owed, ReviewHas)
        /\ OnlyQueued
    BY <1>b, <2>1, <2>3, FlushFrames DEF FrameInv
  <2>5. order' = order \/ Pops
    BY <2>1, FlushQueue
  <2>6. QED
    BY <1>c, <2>1, <2>2, <2>4, <2>5
<1>6. ASSUME ClientSlot PROVE FrameInv'
  BY <1>6, SlotFrames
<1>7. ASSUME ClientEOF \/ ClientCrash PROVE FrameInv'
  BY <1>7, QuietStep DEF ClientEOF, ClientCrash, Working
<1>8. ASSUME NEW i \in Ids, NEW n, NEW z \in Sizes, Receive(i, n, z), spc = "read",
             UNCHANGED <<req, cleared, cpc, cmsg, main>>,
             \/ n = 0 /\ i \in ServerIds /\ owed' = owed
             \/ n \in owed /\ n \in Numbered /\ i = Id(n) /\ owed' = owed \ {n}
      PROVE  FrameInv'
  <2>1. /\ Frames(order', blocked', served', out', ClientHas', owed', ReviewHas')
        /\ OnlyQueued /\ Reviewable
    BY <1>8, ReceiveFrames
  <2>2. order' = order \/ Pops
    BY <1>8, FlushQueue DEF Receive, Deliver
  <2>3. QED
    BY <1>8, <1>c, <2>1, <2>2
<1>9. ASSUME NEW n \in Tickets, NEW c \in Contents, NEW z \in Sizes, ServerRespond(n, c, z)
      PROVE FrameInv'
  <2>1. /\ n \in owed /\ Receive(Id(n), n, z) /\ spc = "read" /\ owed' = owed \ {n}
        /\ UNCHANGED <<req, cleared, cpc, cmsg, main>>
    BY <1>9 DEF ServerRespond
  <2>2. n \in Numbered /\ Id(n) \in Ids
    <3>1. n \in 1..Len(req) /\ Expected(n) /\ Id(n) \in Ids
      BY <1>b, <2>1, OwedId DEF PositionInv
    <3>2. req[n] \in Messages
      BY <1>b, <3>1 DEF TypeOK, TablesOK
    <3>3. QED
      BY <3>1, <3>2 DEF Numbered, Expected, Messages, Id
  <2>3. QED
    BY <1>8, <2>1, <2>2
<1>10. ASSUME NEW i \in ServerIds, NEW z \in Sizes, ServerRequest(i, z) PROVE FrameInv'
  <2>1. /\ Receive(i, 0, z) /\ spc = "read" /\ owed' = owed /\ i \in Ids
        /\ UNCHANGED <<req, cleared, cpc, cmsg, main>>
    BY <1>10 DEF ServerRequest, Ids
  <2>2. QED
    BY <1>8, <2>1
<1>11. ASSUME ServerNotify PROVE FrameInv'
  <2> DEFINE f == [slot |-> 0, from |-> 0, body |-> "raw", late |-> cleared]
  <2>1. /\ Write(0, 0, "raw") /\ out' = Append(out, f) /\ out \in Seq(Writes) /\ ~IsAnswer(f)
        /\ UNCHANGED <<req, cleared, order, blocked, served, owed, cpc, cmsg, spc, smsg, main>>
    BY <1>11, <1>b DEF ServerNotify, Write, TypeOK, GhostsOK, IsAnswer
  <2>2. 0 \in 0..Len(req)
    BY <1>b DEF TypeOK, TablesOK
  <2>3. Frames(order, blocked, served, out', ClientHas, owed, ReviewHas)
    BY <1>b, <2>1, <2>2, WriteFrames DEF FrameInv
  <2> HIDE DEF f
  <2>4. \A k \in DOMAIN out' : out'[k] = f \/ (k \in DOMAIN out /\ out'[k] = out[k])
    BY <2>1
  <2>5. OnlyQueued
    BY <2>1, <2>4 DEF OnlyQueued
  <2>6. QED
    BY <1>c, <1>d, <1>e, <2>1, <2>3, <2>5
<1>12. ASSUME NEW c \in Contents, ServerInspect(c) PROVE FrameInv'
  BY <1>12, <1>a, QuietStep DEF ServerInspect, Reviewing
<1>13. ASSUME ServerDecide PROVE FrameInv'
  <2>1. CASE act = "require_approval"
    BY <1>13, <1>a, <2>1, QuietStep DEF ServerDecide, Reviewing
  <2>2. CASE act # "require_approval"
    <3>1. ResultBody(act) \in Bodies
      BY DEF ResultBody, Bodies, ResultErrors
    <3>2. /\ Deliver(smsg.id, Reply(ResultBody(act))) /\ spc \in Reviewing
          /\ UNCHANGED <<req, cleared, cmsg, cpc, main, owed>>
      BY <1>13, <2>2 DEF ServerDecide, Reviewing
    <3>3. QED
      BY <3>1, <3>2, ReviewedFrames
  <2>3. QED
    BY <2>1, <2>2
<1>14. ASSUME NEW s \in {"approved", "denied", "expired"}, ServerApproval(s) PROVE FrameInv'
  <2>1. PICK body \in Bodies : Deliver(smsg.id, Reply(body))
    BY <1>14 DEF ServerApproval, Bodies, ResultErrors
  <2>2. spc \in Reviewing /\ UNCHANGED <<req, cleared, cmsg, cpc, main, owed>>
    BY <1>14 DEF ServerApproval, Reviewing
  <2>3. QED
    BY <2>1, <2>2, ReviewedFrames
<1>15. ASSUME ServerEOF \/ ServerCrash \/ ServerExit \/ UNCHANGED vars PROVE FrameInv'
  BY <1>15, <1>a, QuietStep DEF ServerEOF, ServerCrash, ServerExit, Reviewing, vars
<1>16. ASSUME NEW n \in Tickets, ShadowReviewed(n) PROVE FrameInv'
  BY <1>16, <1>a, QuietStep DEF ShadowReviewed
<1>17. ASSUME MainStep \/ Interrupt, ~DrainTimeout PROVE FrameInv'
  <2>1. /\ UNCHANGED <<req, cleared, order, blocked, served, out, owed, cpc, cmsg, spc, smsg>>
        /\ main' # "client" /\ main # "exited"
    BY <1>17, <1>b DEF MainStep, ClientDone, Drained, DrainTimeout, WaitTimeout, ProcessExited,
       ServerDone, ShadowWaited, Aborted, MainGoto, Interrupt
  <2>2. QED
    BY <1>a, <2>1, QuietStep
<1>18. ASSUME DrainTimeout PROVE FrameInv'
  BY <1>18, DrainFrames
<1>19. QED
  BY <1>1, <1>2, <1>3, <1>4, <1>5, <1>6, <1>7, <1>9, <1>10, <1>11, <1>12, <1>13, <1>14, <1>15,
     <1>16, <1>17, <1>18
  DEF Next, Environment, ClientStep, ServerStep, Respond

(* Before the first message.                                               *)
LEMMA FrameStart == Init => FrameInv
<1> SUFFICES ASSUME Init PROVE FrameInv
  OBVIOUS
<1>1. /\ \A i \in Ids : blocked[i] = Nil /\ served[i] = Nil
      /\ Len(req) = 0 /\ DOMAIN order = {} /\ DOMAIN out = {}
  BY DEF Init
<1>2. Numbered = {}
  BY <1>1 DEF Numbered
<1>3. Frames(order, blocked, served, out, ClientHas, owed, ReviewHas)
  BY <1>1, <1>2 DEF Frames, Sorted, Filed, Placed, Answered, InSequence
<1>4. TaskInv
  BY DEF Init, TaskInv, Reviewing
<1>5. QED
  BY <1>3, <1>4 DEF FrameInv

(* docs/tool-result-gate.md: responses retain request order and a request  *)
(* gets one response, whichever task writes it, as long as client and      *)
(* server use different ids.                                               *)
THEOREM RetainOrderCorrect == Disjoint => (Spec => []ResponsesRetainOrder)
<1> SUFFICES ASSUME Disjoint PROVE Spec => []ResponsesRetainOrder
  OBVIOUS
<1>1. IInv /\ FrameInv /\ [Next]_vars => FrameInv'
  BY FrameStep
<1>2. FrameInv => ResponsesRetainOrder
  BY DEF FrameInv, Frames, InSequence, ResponsesRetainOrder
<1>3. QED
  BY <1>1, <1>2, FrameStart, Invariance, PTL DEF Spec

(* Neither mode changes the order of the responses, and shadow mode never  *)
(* their text.                                                             *)
THEOREM WireCorrect == Disjoint => (Spec => []WireIsKept)
<1> SUFFICES ASSUME Disjoint PROVE Spec => []WireIsKept
  OBVIOUS
<1>1. Spec => []ResponsesRetainOrder
  BY RetainOrderCorrect
<1>2. ShadowLeavesTheWire /\ ResponsesRetainOrder => WireIsKept
  BY DEF WireIsKept
<1>3. QED
  BY <1>1, <1>2, ShadowCorrect, PTL

-----------------------------------------------------------------------------
(* ResultsAreGatedWhileServing.  A tool call is in GatewayRuntime.pending  *)
(* from the moment it is allowed until its result is inspected, because    *)
(* nobody else can use its id; so every result is judged, and what was     *)
(* judged is not judged again.                                             *)

Remembered ==
  ~cleared =>
    /\ \A n \in owed : IsTool(n) => pending[Id(n)] # 0
    /\ cpc = "forward" /\ IsTool(cmsg) /\ Id(cmsg) # NoId => pending[Id(cmsg)] # 0
    /\ spc = "inspect" /\ smsg.from # 0 /\ IsTool(smsg.from) => smsg.over \/ pending[smsg.id] # 0

\* What the server task found, and passes on.
Judged ==
  spc = "inspected" =>
    /\ act \in {"allow", "block", "require_approval", "limit"}
    /\ ~cleared /\ act = "allow" /\ smsg.from # 0 /\ IsTool(smsg.from) =>
         content[smsg.from] \in Harmless

\* The tables b and s and the wire w, when the results deserve g.
Passed(b, s, w, g) ==
  /\ \A i \in Ids : b[i].body # "raw"
  /\ ~cleared => \A i \in Ids : RawResult(s[i]) => g[s[i].from] \in Harmless
  /\ \A k \in DOMAIN w : RawResult(w[k]) /\ ~w[k].late => g[w[k].from] \in Harmless

GateInv == Mode = "enforce" => Remembered /\ Judged /\ Passed(blocked, served, out, content)

(* A tool call with an id is a numbered request, and so is what the server *)
(* owes.                                                                   *)
LEMMA CallNumbered ==
  ASSUME TypeOK, PositionInv, NEW n \in 1..Len(req), n \in owed \/ (IsTool(n) /\ Id(n) # NoId)
  PROVE  n \in Numbered /\ Id(n) \in Ids
<1>1. req[n] \in Messages /\ (n \in owed => Expected(n))
  BY DEF TypeOK, TablesOK, PositionInv
<1>2. Id(n) \in ClientIds
  BY <1>1 DEF Messages, Expected, IsTool, Id
<1>3. QED
  BY <1>2 DEF Numbered, Ids

(* Two answers on their way have different ids.                            *)
LEMMA OneHolder ==
  ASSUME FrameInv, ~cleared, order \in Seq(1..Len(req)), NEW m \in Numbered, NEW n \in Numbered,
         Id(m) = Id(n),
         Held(m, blocked, served, ClientHas, owed, ReviewHas),
         Held(n, blocked, served, ClientHas, owed, ReviewHas)
  PROVE  m = n
<1>1. In(m, order) /\ In(n, order) /\ Sorted(order)
  BY DEF FrameInv, Frames, Placed
<1>2. PICK j \in DOMAIN order : order[j] = m
  BY <1>1 DEF In
<1>3. PICK k \in DOMAIN order : order[k] = n
  BY <1>1 DEF In
<1>4. j = k \/ j < k \/ k < j
  OBVIOUS
<1>5. QED
  BY <1>1, <1>2, <1>3, <1>4 DEF Sorted

(* A step after which every call remembered still is.                      *)
LEMMA RememberedKept ==
  ASSUME IInv, Remembered, UNCHANGED <<req, cmsg>>, cleared => cleared',
         \A i \in Ids : pending[i] # 0 => pending'[i] # 0,
         owed' \subseteq owed,
         cpc' = "forward" => cpc = "forward",
         spc' = "inspect" => spc = "inspect" /\ smsg' = smsg
  PROVE  Remembered'
<1>1. SUFFICES ASSUME ~cleared' PROVE Remembered'
  BY DEF Remembered
<1>2. TypeOK /\ PositionInv /\ ~cleared
  BY <1>1 DEF IInv
<1>3. \A n \in owed : IsTool(n) => pending'[Id(n)] # 0
  <2>1. \A n \in owed : Id(n) \in Ids
    BY <1>2, OwedId
  <2>2. QED
    BY <1>2, <2>1 DEF Remembered
<1>4. cpc = "forward" /\ IsTool(cmsg) /\ Id(cmsg) # NoId => pending'[Id(cmsg)] # 0
  <2>1. SUFFICES ASSUME cpc = "forward", IsTool(cmsg), Id(cmsg) # NoId PROVE pending'[Id(cmsg)] # 0
    OBVIOUS
  <2>2. cmsg \in 1..Len(req)
    BY <1>2, <2>1 DEF PositionInv
  <2>3. Id(cmsg) \in Ids
    BY <1>2, <2>1, <2>2, CallNumbered
  <2>4. QED
    BY <1>2, <2>1, <2>3 DEF Remembered
<1>5. spc = "inspect" /\ smsg.from # 0 /\ IsTool(smsg.from) => smsg.over \/ pending'[smsg.id] # 0
  BY <1>2 DEF Remembered, PositionInv
<1>6. QED
  BY <1>3, <1>4, <1>5 DEF Remembered, IsTool, Id

(* The call the client task sends has been registered.                     *)
LEMMA RememberedSend ==
  ASSUME IInv, Remembered, UNCHANGED <<req, cmsg, cleared, spc, smsg>>,
         \A i \in Ids : pending[i] # 0 => pending'[i] # 0,
         cmsg \in 1..Len(req), IsTool(cmsg) /\ Id(cmsg) # NoId => pending'[Id(cmsg)] # 0,
         owed' = owed \/ Send(cmsg)
  PROVE  Remembered'
<1>1. SUFFICES ASSUME ~cleared' PROVE Remembered'
  BY DEF Remembered
<1>2. TypeOK /\ PositionInv /\ ~cleared
  BY <1>1 DEF IInv
<1>3. \A n \in owed' : IsTool(n) => pending'[Id(n)] # 0
  <2>1. \A n \in owed : Id(n) \in Ids
    BY <1>2, OwedId
  <2>2. \A n \in owed : IsTool(n) => pending'[Id(n)] # 0
    BY <1>2, <2>1 DEF Remembered
  <2>3. Expected(cmsg) => Id(cmsg) # NoId
    <3>1. req[cmsg] \in Messages
      BY <1>2 DEF TypeOK, TablesOK
    <3>2. QED
      BY <3>1, ProxyAssumption DEF Expected, Messages, Id
  <2>4. QED
    BY <2>2, <2>3 DEF Send
<1>4. spc = "inspect" /\ smsg.from # 0 /\ IsTool(smsg.from) => smsg.over \/ pending'[smsg.id] # 0
  BY <1>2 DEF Remembered, PositionInv
<1>5. QED
  BY <1>3, <1>4 DEF Remembered, IsTool, Id

(* A call popped from pending is nobody else's.                            *)
LEMMA RememberedPop ==
  ASSUME IInv, FrameInv, Remembered, NEW i \in Ids, Pop(i), UNCHANGED <<req, cmsg, cpc, cleared>>,
         owed' \subseteq owed, spc' # "inspect",
         \A n \in Numbered : ~cleared /\ n \in owed' \cup ClientHas => Id(n) # i
  PROVE  Remembered'
<1>1. SUFFICES ASSUME ~cleared' PROVE Remembered'
  BY DEF Remembered
<1>2. TypeOK /\ PositionInv /\ ~cleared
  BY <1>1 DEF IInv
<1>3. \A j \in Ids : j # i => pending'[j] = pending[j]
  BY <1>2 DEF Pop, TypeOK, TablesOK
<1>4. \A n \in owed' : IsTool(n) => pending'[Id(n)] # 0
  <2>1. \A n \in owed : n \in Numbered /\ Id(n) \in Ids
    BY <1>2, OwedId, CallNumbered
  <2>2. QED
    BY <1>2, <1>3, <2>1 DEF Remembered
<1>5. cpc = "forward" /\ IsTool(cmsg) /\ Id(cmsg) # NoId => pending'[Id(cmsg)] # 0
  <2>1. SUFFICES ASSUME cpc = "forward", IsTool(cmsg), Id(cmsg) # NoId PROVE pending'[Id(cmsg)] # 0
    OBVIOUS
  <2>2. cmsg \in 1..Len(req) /\ cmsg \in ClientHas
    BY <1>2, <2>1 DEF PositionInv, ClientHas, Working
  <2>3. cmsg \in Numbered /\ Id(cmsg) \in Ids
    BY <1>2, <2>1, <2>2, CallNumbered
  <2>4. QED
    BY <1>2, <1>3, <2>1, <2>2, <2>3 DEF Remembered
<1>6. QED
  BY <1>4, <1>5 DEF Remembered, IsTool, Id

(* Messages already read stay what they are.                               *)
LEMMA ReadKeeps ==
  ASSUME TypeOK, NEW m \in Messages, req' = Append(req, m)
  PROVE  \A n \in 1..Len(req) : req'[n] = req[n] /\ n # 0
BY DEF TypeOK, TablesOK

(* Every step keeps the calls in flight remembered.                        *)
LEMMA RememberedStep ==
  ASSUME Disjoint, IInv, FrameInv, Mode = "enforce", Remembered, [Next]_vars
  PROVE  Remembered'
<1>a. TypeOK /\ PositionInv /\ pending \in [Ids -> 0..Len(req)]
  BY DEF IInv, TypeOK, TablesOK
<1>b. ASSUME ~cleared, NEW n \in Numbered, n \in owed \cup ClientHas \cup ReviewHas
      PROVE  InOrder(Id(n))
  BY <1>b DEF FrameInv, Frames, Placed, Held, In, InOrder
<1> USE DEF tables, events, clientVars, serverVars, mainVars, envVars, ghosts
<1>1. ASSUME NEW m \in Messages, ClientRead(m) PROVE Remembered'
  <2>1. /\ UNCHANGED <<cleared, owed, pending, spc, smsg>> /\ cpc' # "forward"
        /\ req' = Append(req, m)
    BY <1>1 DEF ClientRead, Admit
  <2>2. /\ \A n \in 1..Len(req) : req'[n] = req[n] /\ n # 0
        /\ owed \subseteq 1..Len(req) /\ (smsg.from # 0 => smsg.from \in 1..Len(req))
    BY <1>a, <2>1, ReadKeeps DEF TypeOK, EnvironmentOK, ServerOK, TablesOK
  <2>3. QED
    BY <2>1, <2>2 DEF Remembered, IsTool, Id
<1>2. ASSUME UNCHANGED pending, UNCHANGED <<req, cmsg, owed>>, cleared => cleared',
             cpc' = "forward" => cpc = "forward",
             spc' = "inspect" => spc = "inspect" /\ smsg' = smsg
      PROVE  Remembered'
  BY <1>2, RememberedKept
<1>3. \A n : n \in 1..Len(req) /\ IsTool(n) /\ Register(n) =>
        /\ \A i \in Ids : pending[i] # 0 => pending'[i] # 0
        /\ Id(n) # NoId => pending'[Id(n)] # 0
  <2>1. ASSUME NEW n \in 1..Len(req), IsTool(n), Register(n)
        PROVE  /\ \A i \in Ids : pending[i] # 0 => pending'[i] # 0
               /\ Id(n) # NoId => pending'[Id(n)] # 0
    <3>1. n # 0 /\ (Id(n) # NoId => Id(n) \in Ids)
      BY <1>a, <2>1, CallNumbered DEF TypeOK, TablesOK
    <3>2. QED
      BY <1>a, <2>1, <3>1 DEF Register
  <2>2. QED
    BY <2>1
<1>4. ASSUME NEW v, ClientInspect(v) PROVE Remembered'
  <2>1. CASE v = "allow" /\ IsTool(cmsg) /\ Register(cmsg)
    <3>1. /\ cmsg \in 1..Len(req) /\ UNCHANGED <<req, cmsg, cleared, spc, smsg, owed>>
      BY <1>4, <1>a DEF ClientInspect, PositionInv
    <3>2. QED
      BY <1>3, <2>1, <3>1, RememberedSend
  <2>2. CASE UNCHANGED pending /\ (v = "allow" => ~IsTool(cmsg))
    <3>1. cmsg \in 1..Len(req) /\ UNCHANGED <<req, cmsg, cleared, spc, smsg, owed>>
      BY <1>4, <1>a DEF ClientInspect, PositionInv
    <3>2. CASE v = "allow"
      BY <2>2, <3>1, <3>2, RememberedSend
    <3>3. CASE v # "allow"
      BY <1>2, <1>4, <2>2, <3>1, <3>3 DEF ClientInspect
    <3>4. QED
      BY <3>2, <3>3
  <2>3. QED
    BY <1>4, <2>1, <2>2 DEF ClientInspect
<1>5. ASSUME NEW s \in {"approved", "denied", "expired"}, ClientRefuse \/ ClientApproval(s)
      PROVE Remembered'
  <2>1. CASE Register(cmsg) /\ Send(cmsg) /\ cpc = "approval"
    <3>1. cmsg \in 1..Len(req) /\ UNCHANGED <<req, cmsg, cleared, spc, smsg>> /\ IsTool(cmsg)
      BY <1>5, <1>a, <2>1 DEF ClientRefuse, ClientApproval, PositionInv, FrameInv, TaskInv
    <3>2. QED
      BY <1>3, <2>1, <3>1, RememberedSend
  <2>2. CASE UNCHANGED <<pending, owed>> /\ \E body \in RequestErrors : Refuse(cmsg, body)
    <3>1. /\ UNCHANGED <<req, cmsg, cleared, spc, smsg>> /\ cpc' # "forward"
      BY <1>5, <2>2 DEF ClientRefuse, ClientApproval, Refuse
    <3>2. QED
      BY <1>2, <2>2, <3>1
  <2>3. QED
    BY <1>5, <2>1, <2>2 DEF ClientRefuse, ClientApproval, RequestErrors
<1>6. ASSUME ClientForward PROVE Remembered'
  <2>1. /\ cmsg \in 1..Len(req) /\ UNCHANGED <<req, cmsg, cleared, spc, smsg, pending>>
        /\ Send(cmsg) /\ cpc = "forward" /\ cpc' # "forward"
    BY <1>6, <1>a DEF ClientForward, PositionInv
  <2>2. CASE cleared
    BY <2>1, <2>2 DEF Remembered
  <2>3. CASE ~cleared
    BY <2>1, <2>3, RememberedSend DEF Remembered
  <2>4. QED
    BY <2>2, <2>3
<1>7. ASSUME ClientFlush \/ ClientSlot \/ ClientEOF \/ ClientCrash PROVE Remembered'
  BY <1>2, <1>7 DEF ClientFlush, ClientSlot, ClientEOF, ClientCrash, Admit
<1>8. ASSUME NEW i \in Ids, NEW n, NEW z, Receive(i, n, z), spc = "read",
             UNCHANGED <<req, cleared, cpc, cmsg>>,
             \/ n = 0 /\ owed' = owed
             \/ n \in owed /\ i = Id(n) /\ owed' = owed \ {n}
      PROVE  Remembered'
  <2>1. CASE ~InOrder(i) /\ Pop(i) /\ spc' = spc
    <3>1. \A k \in Numbered : ~cleared /\ k \in owed' \cup ClientHas => Id(k) # i
      BY <1>8, <1>b, <2>1
    <3>2. owed' \subseteq owed
      BY <1>8
    <3>3. QED
      BY <1>8, <2>1, <3>1, <3>2, RememberedPop
  <2>2. CASE /\ smsg' = [id |-> i, from |-> n, size |-> z,
                         over |-> pending[i] # 0 /\ Mode # "off" /\ OverLimit(z),
                         gated |-> pending[i] # 0 /\ Mode # "off"]
             /\ spc' = "inspect" /\ UNCHANGED pending
    <3>1. ASSUME ~cleared', n # 0, IsTool(n) PROVE pending[i] # 0
      BY <1>8, <3>1 DEF Remembered
    <3>2. smsg'.from = n /\ smsg'.id = i /\ owed' \subseteq owed
      BY <1>8, <2>2
    <3>3. QED
      BY <1>8, <2>2, <3>1, <3>2 DEF Remembered, IsTool, Id
  <2>3. QED
    BY <1>8, <2>1, <2>2 DEF Receive
<1>9. ASSUME NEW n \in Tickets, NEW c \in Contents, NEW z \in Sizes, ServerRespond(n, c, z)
      PROVE Remembered'
  <2>1. Id(n) \in Ids /\ n \in owed
    BY <1>9, <1>a, OwedId DEF ServerRespond
  <2>2. QED
    BY <1>8, <1>9, <2>1 DEF ServerRespond
<1>10. ASSUME NEW i \in ServerIds, NEW z \in Sizes, ServerRequest(i, z) PROVE Remembered'
  <2>1. i \in Ids
    BY DEF Ids
  <2>2. QED
    BY <1>8, <1>10, <2>1 DEF ServerRequest
<1>11. ASSUME NEW c \in Contents, ServerInspect(c) PROVE Remembered'
  <2>1. /\ smsg.id \in Ids /\ Pop(smsg.id) /\ spc = "inspect" /\ spc' = "inspected"
        /\ UNCHANGED <<req, cmsg, cpc, cleared, owed>>
    BY <1>11, <1>a DEF ServerInspect, PositionInv
  <2>2. ASSUME ~cleared, NEW k \in Numbered, k \in owed \cup ClientHas, Id(k) = smsg.id PROVE FALSE
    <3>1. \/ smsg.from = 0 /\ smsg.id \in ServerIds
          \/ smsg.from \in Numbered /\ smsg.id = Id(smsg.from)
      BY <2>1 DEF FrameInv, TaskInv, Reviewing
    <3>2. smsg.from \in Numbered /\ smsg.id = Id(smsg.from)
      BY <2>2, <3>1 DEF Numbered, Disjoint
    <3>3. smsg.from \in ReviewHas
      <4>1. smsg.from # 0
        BY <1>a, <3>2 DEF Numbered, TypeOK, TablesOK
      <4>2. QED
        BY <2>1, <4>1 DEF ReviewHas, Reviewing
    <3>4. k = smsg.from
      BY <1>a, <2>2, <3>2, <3>3, OneHolder DEF Held, TypeOK, TablesOK
    <3>5. Once(k, blocked, served, ClientHas, owed, ReviewHas)
      BY <2>2 DEF FrameInv, Frames, Placed
    <3>6. QED
      BY <2>2, <3>3, <3>4, <3>5 DEF Once
  <2>3. \A k \in Numbered : ~cleared /\ k \in owed' \cup ClientHas => Id(k) # smsg.id
    BY <2>1, <2>2
  <2>4. QED
    BY <2>1, <2>3, RememberedPop
<1>12. ASSUME NEW s, ServerDecide \/ ServerApproval(s) \/ ServerFlush PROVE Remembered'
  <2>1. UNCHANGED <<req, cmsg, cpc, cleared, owed, pending>> /\ spc' # "inspect"
    BY <1>12 DEF ServerDecide, ServerApproval, ServerFlush, Deliver
  <2>2. QED
    BY <1>2, <2>1
<1>13. ASSUME NEW n, \/ ServerNotify \/ ServerEOF \/ ServerCrash \/ ServerExit \/ ShadowReviewed(n)
                     \/ UNCHANGED vars
       PROVE Remembered'
  BY <1>2, <1>13 DEF ServerNotify, ServerEOF, ServerCrash, ServerExit, ShadowReviewed, vars
<1>14. ASSUME MainStep \/ Interrupt PROVE Remembered'
  <2>1. UNCHANGED <<req, cmsg, cpc, owed, pending, spc, smsg>> /\ (cleared => cleared')
    BY <1>14 DEF MainStep, ClientDone, Drained, DrainTimeout, WaitTimeout, ProcessExited,
       ServerDone, ShadowWaited, Aborted, MainGoto, Interrupt
  <2>2. QED
    BY <1>2, <2>1
<1>15. QED
  BY <1>1, <1>4, <1>5, <1>6, <1>7, <1>9, <1>10, <1>11, <1>12, <1>13, <1>14
  DEF Next, Environment, ClientStep, ServerStep, Respond

(* A flush round writes what has passed.                                   *)
LEMMA PassedFlush ==
  ASSUME TypeOK, SlotInv, cleared => order = <<>>,
         NEW b \in [Ids -> Entries], NEW s \in [Ids -> Entries], Flush(order, b, s),
         NEW g, Passed(b, s, out, g)
  PROVE  Passed(blocked', served', out', g)
<1>1. CASE Waits(b, s)
  BY <1>1 DEF Waits
<1>2. ASSUME NEW e \in Entries, Answers(b, s, e) PROVE Passed(blocked', served', out', g)
  <2> DEFINE h == Head(order)
             i == Id(h)
             f == [slot |-> h, from |-> e.from, body |-> e.body, late |-> cleared]
  <2>1. /\ order # <<>> /\ i \in Ids /\ out' = Append(out, f) /\ ~cleared /\ out \in Seq(Writes)
        /\ Nil.body # "raw"
    BY <1>2 DEF Answers, TypeOK, GhostsOK, Nil
  <2>2. \/ e = b[i] /\ blocked' = [b EXCEPT ![i] = Nil] /\ served' = s
        \/ e = s[i] /\ blocked' = b /\ served' = [s EXCEPT ![i] = Nil]
    BY <1>2 DEF Answers
  <2>3. \A j \in Ids : blocked'[j] \in {b[j], Nil} /\ served'[j] \in {s[j], Nil}
    BY <2>2
  <2>4. RawResult(f) => g[f.from] \in Harmless
    BY <2>1, <2>2 DEF Passed, RawResult
  <2> HIDE DEF f
  <2>5. \A k \in DOMAIN out' : out'[k] = f \/ (k \in DOMAIN out /\ out'[k] = out[k])
    BY <2>1
  <2>6. QED
    BY <2>1, <2>3, <2>4, <2>5 DEF Passed, RawResult
<1>3. QED
  BY <1>1, <1>2, FlushRound

(* A frame that is no result, or too late.                                 *)
LEMMA PassedWrite ==
  ASSUME TypeOK, NEW b, NEW s, NEW g, Passed(b, s, out, g), NEW slot, NEW from, NEW body,
         Write(slot, from, body), from = 0 \/ cleared \/ body # "raw"
  PROVE  Passed(b, s, out', g)
<1> DEFINE f == [slot |-> slot, from |-> from, body |-> body, late |-> cleared]
<1>1. out' = Append(out, f) /\ out \in Seq(Writes) /\ ~(RawResult(f) /\ ~f.late)
  BY DEF Write, TypeOK, GhostsOK, RawResult
<1> HIDE DEF f
<1>2. \A k \in DOMAIN out' : out'[k] = f \/ (k \in DOMAIN out /\ out'[k] = out[k])
  BY <1>1
<1>3. QED
  BY <1>1, <1>2 DEF Passed

(* A step that reads no message and judges no result.                      *)
LEMMA PassedNext ==
  ASSUME UNCHANGED req, cleared => cleared',
         Passed(blocked', served', out', content')
  PROVE  Passed(blocked, served, out, content)'
BY DEF Passed, RawResult, IsTool

LEMMA JudgedKept ==
  ASSUME Judged, UNCHANGED req, cleared => cleared',
         spc' = "inspected" => spc = "inspected" /\ UNCHANGED <<smsg, act, content>>
  PROVE  Judged'
BY DEF Judged, IsTool

(* A result the server task has judged is stored.                          *)
LEMMA PassedDeliver ==
  ASSUME IInv, cleared => order = <<>>, NEW i \in Ids, NEW e \in Entries, Deliver(i, e),
         NEW g, Passed(blocked, served, out, g),
         ~cleared /\ RawResult(e) => g[e.from] \in Harmless
  PROVE  Passed(blocked', served', out', g)
<1> DEFINE s == [served EXCEPT ![i] = e]
<1>1. TypeOK /\ SlotInv /\ blocked \in [Ids -> Entries] /\ served \in [Ids -> Entries]
  BY DEF IInv, TypeOK, TablesOK
<1>2. /\ s \in [Ids -> Entries] /\ Flush(order, blocked, s)
      /\ \A j \in Ids : s[j] = IF j = i THEN e ELSE served[j]
  BY <1>1 DEF Deliver
<1> HIDE DEF s
<1>3. Passed(blocked, s, out, g)
  BY <1>2 DEF Passed
<1>4. QED
  BY <1>1, <1>2, <1>3, PassedFlush

(* A new answer is judged for the first time.                              *)
LEMMA PassedRespond ==
  ASSUME IInv, FrameInv, Passed(blocked, served, out, content), NEW n \in owed, NEW c,
         content' = [content EXCEPT ![n] = c]
  PROVE  Passed(blocked, served, out, content')
<1>1. /\ TypeOK /\ PositionInv /\ n \in Numbered /\ Id(n) # NoId /\ n # 0
      /\ content \in [Tickets -> Contents \cup {"none", "approved"}]
      /\ \A x \in Tickets : x # n => content'[x] = content[x]
  <2>1. TypeOK /\ PositionInv /\ content \in [Tickets -> Contents \cup {"none", "approved"}]
    BY DEF IInv, TypeOK, GhostsOK
  <2>2. n \in Numbered /\ Id(n) \in Ids /\ n # 0
    BY <2>1, OwedId, CallNumbered DEF TypeOK, TablesOK
  <2>3. \A x \in Tickets : x # n => content'[x] = content[x]
    BY <2>1
  <2>4. QED
    BY <2>1, <2>2, <2>3, ProxyAssumption DEF Ids
<1>2. ASSUME NEW i \in Ids, served[i].from = n PROVE FALSE
  <2>1. served[i] # Nil
    BY <1>1, <1>2 DEF Nil
  <2>2. Id(n) = i
    BY <1>1, <1>2, <2>1 DEF FrameInv, Frames, Filed
  <2>3. Once(n, blocked, served, ClientHas, owed, ReviewHas)
    BY <1>1 DEF FrameInv, Frames, Placed
  <2>4. QED
    BY <1>2, <2>2, <2>3 DEF Once, Stored
<1>3. ASSUME NEW k \in DOMAIN out, RawResult(out[k]), ~out[k].late, out[k].from = n PROVE FALSE
  <2>1. IsAnswer(out[k])
    BY <1>1, <1>3 DEF IsAnswer, RawResult
  <2>2. ~Held(n, blocked, served, ClientHas, owed, ReviewHas)
    BY <1>3, <2>1 DEF FrameInv, Frames, Answered
  <2>3. QED
    BY <2>2 DEF Held
<1>4. /\ \A i \in Ids : served[i].from # 0 => served[i].from \in Tickets
      /\ \A k \in DOMAIN out : out[k].from # 0 => out[k].from \in Tickets
  <2>1. /\ \A i \in Ids : served[i] \in Entries
        /\ \A k \in DOMAIN out : out[k] \in Writes
    BY <1>1 DEF TypeOK, TablesOK, GhostsOK
  <2>2. /\ \A e \in Entries : e.from \in 0..MaxMessages
        /\ \A e \in Writes : e.from \in 0..MaxMessages
    BY ProxyAssumption DEF Entries, Writes, Nil
  <2>3. QED
    BY <2>1, <2>2, ProxyAssumption DEF Tickets
<1>5. QED
  BY <1>1, <1>2, <1>3, <1>4 DEF Passed, RawResult

(* Every step passes on what was judged harmless.                          *)
LEMMA PassedStep ==
  ASSUME Disjoint, IInv, FrameInv, Mode = "enforce", Remembered, Judged,
         Passed(blocked, served, out, content), [Next]_vars
  PROVE  Judged' /\ Passed(blocked, served, out, content)'
<1>a. /\ TypeOK /\ PositionInv /\ SlotInv /\ (cleared => order = <<>>)
      /\ blocked \in [Ids -> Entries] /\ served \in [Ids -> Entries]
      /\ content \in [Tickets -> Contents \cup {"none", "approved"}]
  BY DEF IInv, FrameInv, TaskInv, TypeOK, TablesOK, GhostsOK
<1> USE DEF tables, events, clientVars, serverVars, mainVars, envVars, ghosts
<1>1. ASSUME UNCHANGED <<req, blocked, served, out, content>>, cleared => cleared',
             spc' = "inspected" => spc = "inspected" /\ UNCHANGED <<smsg, act>>
      PROVE  Judged' /\ Passed(blocked, served, out, content)'
  <2>1. Passed(blocked', served', out', content')
    BY <1>1
  <2>2. QED
    BY <1>1, <2>1, JudgedKept, PassedNext
<1>2. ASSUME NEW m \in Messages, ClientRead(m)
      PROVE  Judged' /\ Passed(blocked, served, out, content)'
  <2> DEFINE n == Len(req) + 1
  <2>1. /\ UNCHANGED <<cleared, blocked, served, content, spc, smsg, act>> /\ req' = Append(req, m)
        /\ out' = out \/ Write(0, n, "duplicate")
    BY <1>2 DEF ClientRead
  <2>2. Passed(blocked, served, out', content)
    BY <1>a, <2>1, PassedWrite
  <2>3. \A j \in 1..Len(req) : req'[j] = req[j]
    BY <1>a, <2>1, ReadKeeps
  <2>4. \A i \in Ids : served[i].from # 0 => served[i].from \in 1..Len(req)
    <3>1. \A i \in Ids : served[i] = Nil \/ served[i].from = 0 \/ served[i].from \in Numbered
      BY DEF FrameInv, Frames, Filed
    <3>2. QED
      BY <3>1 DEF Nil, Numbered
  <2>5. \A k \in DOMAIN out' : out'[k].from \in 1..Len(req) \/ out'[k].from = 0 \/ out'[k].body # "raw"
    <3>1. \A k \in DOMAIN out : out[k].from \in 1..Len(req) \/ out[k].from = 0
      <4>1. \A k \in DOMAIN out : out[k] \in Writes /\ out[k].from <= Len(req)
        BY <1>a DEF TypeOK, GhostsOK, FrameInv, Frames, Answered
      <4>2. QED
        BY <4>1, <1>a, ProxyAssumption DEF Writes, TypeOK, TablesOK
    <3>2. CASE out' = out
      BY <3>1, <3>2
    <3>3. CASE Write(0, n, "duplicate")
      <4> DEFINE f == [slot |-> 0, from |-> n, body |-> "duplicate", late |-> cleared]
      <4>1. out' = Append(out, f) /\ out \in Seq(Writes) /\ f.body # "raw"
        BY <1>a, <3>3 DEF Write, TypeOK, GhostsOK
      <4> HIDE DEF f
      <4>2. \A k \in DOMAIN out' : out'[k] = f \/ (k \in DOMAIN out /\ out'[k] = out[k])
        BY <4>1
      <4>3. QED
        BY <3>1, <4>1, <4>2
    <3>4. QED
      BY <2>1, <3>2, <3>3
  <2> HIDE DEF n
  <2>6. Passed(blocked, served, out, content)'
    BY <2>1, <2>2, <2>3, <2>4, <2>5 DEF Passed, RawResult, IsTool
  <2>7. smsg.from # 0 => smsg.from \in 1..Len(req)
    BY <1>a DEF TypeOK, ServerOK, TablesOK
  <2>8. Judged'
    BY <2>1, <2>3, <2>7 DEF Judged, IsTool
  <2>9. QED
    BY <2>6, <2>8
<1>3. ASSUME NEW v, ClientInspect(v) PROVE Judged' /\ Passed(blocked, served, out, content)'
  BY <1>1, <1>3 DEF ClientInspect
<1>4. ASSUME NEW s \in {"approved", "denied", "expired"}, ClientRefuse \/ ClientApproval(s)
      PROVE  Judged' /\ Passed(blocked, served, out, content)'
  <2>1. UNCHANGED <<req, cleared, spc, smsg, act, content>> /\ cmsg \in 1..Len(req)
    BY <1>4, <1>a DEF ClientRefuse, ClientApproval, PositionInv
  <2>2. CASE UNCHANGED <<blocked, served, out>>
    BY <1>1, <2>1, <2>2
  <2>3. ASSUME NEW body \in RequestErrors, Refuse(cmsg, body)
        PROVE  Passed(blocked', served', out', content)
    <3>1. body # "raw"
      BY DEF RequestErrors
    <3>2. CASE Id(cmsg) = NoId
      BY <1>a, <2>3, <3>1, <3>2, PassedWrite DEF Refuse
    <3>3. CASE Id(cmsg) # NoId
      <4> DEFINE x == [from |-> cmsg, body |-> body, size |-> ErrorSize, gated |-> FALSE]
                 b == [blocked EXCEPT ![Id(cmsg)] = x]
      <4>1. x \in Entries /\ x.body = body
        BY <1>a, <2>1, ProxyAssumption DEF TypeOK, TablesOK, Entries, Bodies
      <4>2. b \in [Ids -> Entries] /\ \A j \in Ids : b[j] = x \/ b[j] = blocked[j]
        BY <1>a, <4>1
      <4>3. Flush(order, b, served)
        BY <2>3, <3>3 DEF Refuse
      <4> HIDE DEF x, b
      <4>4. Passed(b, served, out, content)
        BY <3>1, <4>1, <4>2 DEF Passed
      <4>5. QED
        BY <1>a, <4>2, <4>3, <4>4, PassedFlush
    <3>4. QED
      BY <3>2, <3>3
  <2>4. CASE \E body \in RequestErrors : Refuse(cmsg, body)
    BY <2>1, <2>3, <2>4, JudgedKept, PassedNext
  <2>5. QED
    BY <1>4, <2>2, <2>4 DEF ClientRefuse, ClientApproval, RequestErrors
<1>5. ASSUME ClientFlush \/ ServerFlush PROVE Judged' /\ Passed(blocked, served, out, content)'
  <2>1. /\ Flush(order, blocked, served) /\ UNCHANGED <<req, cleared, content>>
        /\ spc' = "inspected" => UNCHANGED <<spc, smsg, act>>
    BY <1>5 DEF ClientFlush, ServerFlush
  <2>2. Passed(blocked', served', out', content')
    BY <1>a, <2>1, PassedFlush
  <2>3. QED
    BY <2>1, <2>2, JudgedKept, PassedNext
<1>6. ASSUME ClientForward \/ ClientSlot \/ ClientEOF \/ ClientCrash
      PROVE  Judged' /\ Passed(blocked, served, out, content)'
  BY <1>1, <1>6 DEF ClientForward, ClientSlot, ClientEOF, ClientCrash
<1>7. ASSUME NEW i, NEW n, NEW z, Receive(i, n, z), spc = "read", UNCHANGED <<req, cleared, setup>>,
             Passed(blocked, served, out, content'),
             ~InOrder(i) => n = 0 \/ cleared
      PROVE  Judged' /\ Passed(blocked, served, out, content)'
  <2>1. CASE ~InOrder(i) /\ Write(0, n, "raw") /\ UNCHANGED <<blocked, served, spc>>
    <3>1. Passed(blocked', served', out', content')
      BY <1>7, <1>a, <2>1, PassedWrite
    <3>2. QED
      BY <1>7, <2>1, <3>1, JudgedKept, PassedNext
  <2>2. CASE spc' = "inspect" /\ UNCHANGED <<blocked, served, out>>
    BY <1>7, <2>2, JudgedKept, PassedNext
  <2>3. QED
    BY <1>7, <2>1, <2>2 DEF Receive
<1>8. ASSUME NEW n \in Tickets, NEW c \in Contents, NEW z \in Sizes, ServerRespond(n, c, z)
      PROVE  Judged' /\ Passed(blocked, served, out, content)'
  <2>1. /\ n \in owed /\ content' = [content EXCEPT ![n] = c] /\ Receive(Id(n), n, z)
        /\ spc = "read" /\ UNCHANGED <<req, cleared, setup>>
    BY <1>8 DEF ServerRespond
  <2>2. Passed(blocked, served, out, content')
    BY <2>1, PassedRespond
  <2>3. ~cleared => InOrder(Id(n))
    <3>1. n \in Numbered
      BY <1>a, <2>1, OwedId, CallNumbered
    <3>2. QED
      BY <2>1, <3>1 DEF FrameInv, Frames, Placed, Held, In, InOrder
  <2>4. QED
    BY <1>7, <2>1, <2>2, <2>3
<1>9. ASSUME NEW i \in ServerIds, NEW z \in Sizes, ServerRequest(i, z)
      PROVE  Judged' /\ Passed(blocked, served, out, content)'
  BY <1>7, <1>9 DEF ServerRequest
<1>10. ASSUME ServerNotify PROVE Judged' /\ Passed(blocked, served, out, content)'
  <2>1. /\ Write(0, 0, "raw")
        /\ UNCHANGED <<req, cleared, blocked, served, content, spc, smsg, act>>
    BY <1>10 DEF ServerNotify
  <2>2. Passed(blocked', served', out', content')
    BY <1>a, <2>1, PassedWrite
  <2>3. QED
    BY <2>1, <2>2, JudgedKept, PassedNext
<1>11. ASSUME NEW c \in Contents, ServerInspect(c)
       PROVE  Judged' /\ Passed(blocked, served, out, content)'
  <2>1. /\ UNCHANGED <<req, cleared, blocked, served, out, content, smsg>> /\ spc = "inspect"
        /\ act' = IF smsg.over THEN LimitAction
                  ELSE IF pending[smsg.id] = 0 THEN "allow" ELSE GateAction(c)
        /\ smsg.from # 0 => c = content[smsg.from]
    BY <1>11 DEF ServerInspect
  <2>2. /\ LimitAction = "limit"
        /\ GateAction(c) \in {"allow", "block", "require_approval"}
        /\ GateAction(c) = "allow" => c \in Harmless
    BY DEF LimitAction, GateAction, Harmless, Contents
  <2>3. act' \in {"allow", "block", "require_approval", "limit"}
    BY <2>1, <2>2
  <2>4. ASSUME ~cleared, act' = "allow", smsg.from # 0, IsTool(smsg.from)
        PROVE  content[smsg.from] \in Harmless
    BY <2>1, <2>2, <2>4 DEF Remembered
  <2>5. Judged'
    BY <2>1, <2>3, <2>4 DEF Judged, IsTool
  <2>6. QED
    BY <2>1, <2>5, PassedNext
<1>12. ASSUME NEW body \in Bodies, Deliver(smsg.id, Reply(body)), spc \in {"inspected", "approval"},
              UNCHANGED <<req, cleared>>, Passed(blocked, served, out, content'),
              ~cleared /\ body = "raw" /\ smsg.from # 0 /\ IsTool(smsg.from) =>
                content'[smsg.from] \in Harmless
       PROVE  Judged' /\ Passed(blocked, served, out, content)'
  <2> DEFINE e == Reply(body)
  <2>1. smsg.id \in Ids /\ e \in Entries
    BY <1>12, <1>a, ReplyType DEF PositionInv
  <2>2. e.from = smsg.from /\ e.body = body
    BY DEF Reply
  <2>3. ~cleared /\ RawResult(e) => content'[e.from] \in Harmless
    BY <1>12, <2>2 DEF RawResult
  <2>4. spc' # "inspected"
    BY <1>12 DEF Deliver
  <2>5. Deliver(smsg.id, e)
    BY <1>12
  <2> HIDE DEF e
  <2>6. Passed(blocked', served', out', content')
    BY <1>12, <1>a, <2>1, <2>3, <2>5, PassedDeliver
  <2>7. QED
    BY <1>12, <2>4, <2>6, JudgedKept, PassedNext
<1>13. ASSUME ServerDecide PROVE Judged' /\ Passed(blocked, served, out, content)'
  <2>1. CASE act = "require_approval"
    BY <1>1, <1>13, <2>1 DEF ServerDecide
  <2>2. CASE act # "require_approval"
    <3>1. ResultBody(act) \in Bodies
      BY DEF ResultBody, Bodies, ResultErrors
    <3>2. /\ Deliver(smsg.id, Reply(ResultBody(act))) /\ spc = "inspected"
          /\ UNCHANGED <<req, cleared, content>>
      BY <1>13, <2>2 DEF ServerDecide
    <3>3. ResultBody(act) = "raw" => act = "allow"
      BY <2>2, <3>2 DEF ResultBody, Judged
    <3>4. ~cleared /\ ResultBody(act) = "raw" /\ smsg.from # 0 /\ IsTool(smsg.from) =>
            content'[smsg.from] \in Harmless
      BY <3>2, <3>3 DEF Judged
    <3>5. QED
      BY <1>12, <3>1, <3>2, <3>4
  <2>3. QED
    BY <2>1, <2>2
<1>14. ASSUME NEW s \in {"approved", "denied", "expired"}, ServerApproval(s)
       PROVE  Judged' /\ Passed(blocked, served, out, content)'
  <2> DEFINE body == IF Consent(s) THEN "raw" ELSE IF s = "expired" THEN "resExpired" ELSE "resDenied"
  <2>1. /\ body \in Bodies /\ Deliver(smsg.id, Reply(body)) /\ spc = "approval"
        /\ UNCHANGED <<req, cleared>>
        /\ content' = IF Consent(s) /\ smsg.from # 0
                      THEN [content EXCEPT ![smsg.from] = "approved"] ELSE content
    BY <1>14 DEF ServerApproval, Bodies, ResultErrors
  <2>2. smsg.from # 0 => smsg.from \in Tickets
    BY <1>a, ProxyAssumption DEF TypeOK, ServerOK, TablesOK, Tickets
  <2>3. \A x \in Tickets : content[x] \in Harmless => content'[x] \in Harmless
    BY <1>a, <2>1, <2>2 DEF Harmless
  <2>4. /\ \A i \in Ids : served[i].from # 0 => served[i].from \in Tickets
        /\ \A k \in DOMAIN out : out[k].from # 0 => out[k].from \in Tickets
    <3>1. /\ \A i \in Ids : served[i] \in Entries
          /\ \A k \in DOMAIN out : out[k] \in Writes
      BY <1>a DEF TypeOK, GhostsOK
    <3>2. /\ \A e \in Entries : e.from \in 0..MaxMessages
          /\ \A e \in Writes : e.from \in 0..MaxMessages
      BY ProxyAssumption DEF Entries, Writes, Nil
    <3>3. QED
      BY <3>1, <3>2, ProxyAssumption DEF Tickets
  <2>5. Passed(blocked, served, out, content')
    BY <2>3, <2>4 DEF Passed, RawResult
  <2>6. body = "raw" /\ smsg.from # 0 => content'[smsg.from] \in Harmless
    BY <1>a, <2>1, <2>2 DEF Harmless
  <2> HIDE DEF body
  <2>7. QED
    BY <1>12, <2>1, <2>5, <2>6
<1>15. ASSUME NEW n, ServerEOF \/ ServerCrash \/ ServerExit \/ ShadowReviewed(n) \/ UNCHANGED vars
       PROVE  Judged' /\ Passed(blocked, served, out, content)'
  BY <1>1, <1>15 DEF ServerEOF, ServerCrash, ServerExit, ShadowReviewed, vars
<1>16. ASSUME MainStep \/ Interrupt PROVE Judged' /\ Passed(blocked, served, out, content)'
  <2>1. UNCHANGED <<req, blocked, served, out, content, spc, smsg, act>> /\ (cleared => cleared')
    BY <1>16 DEF MainStep, ClientDone, Drained, DrainTimeout, WaitTimeout, ProcessExited,
       ServerDone, ShadowWaited, Aborted, MainGoto, Interrupt
  <2>2. QED
    BY <1>1, <2>1
<1>17. QED
  BY <1>2, <1>3, <1>4, <1>5, <1>6, <1>8, <1>9, <1>10, <1>11, <1>13, <1>14, <1>15, <1>16
  DEF Next, Environment, ClientStep, ServerStep, Respond

(* docs/tool-result-gate.md: until the drain times out no result that the  *)
(* gate blocks, or that nobody approved, reaches the agent, as long as     *)
(* client and server use different ids.                                    *)
THEOREM GateCorrect == Disjoint => (Spec => []ResultsAreGatedWhileServing)
<1> SUFFICES ASSUME Disjoint PROVE Spec => []ResultsAreGatedWhileServing
  OBVIOUS
<1>1. IInv /\ FrameInv /\ [Next]_vars => FrameInv'
  BY FrameStep
<1>2. Init => GateInv
  <2> SUFFICES ASSUME Init PROVE GateInv
    OBVIOUS
  <2>1. /\ \A i \in Ids : blocked[i] = Nil /\ served[i] = Nil
        /\ Nil.body # "raw" /\ DOMAIN out = {} /\ owed = {} /\ cpc = "read" /\ spc = "read"
    BY DEF Init, Nil
  <2>2. QED
    BY <2>1 DEF GateInv, Remembered, Judged, Passed, RawResult
<1>3. IInv /\ FrameInv /\ GateInv /\ [Next]_vars => GateInv'
  <2>1. [Next]_vars => Mode' = Mode
    BY SetupKept DEF Mode
  <2>2. QED
    BY <2>1, RememberedStep, PassedStep DEF GateInv
<1>4. GateInv => ResultsAreGatedWhileServing
  BY DEF GateInv, Passed, ResultsAreGatedWhileServing
<1>5. QED
  BY <1>1, <1>2, <1>3, <1>4, FrameStart, Invariance, PTL DEF Spec

=============================================================================
