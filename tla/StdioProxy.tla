----------------------------- MODULE StdioProxy -----------------------------
(***************************************************************************)
(* run_stdio_proxy: the MCP stdio gateway between an agent client and an   *)
(* MCP server.  Three asyncio tasks share response_order,                  *)
(* blocked_responses, server_responses and GatewayRuntime.pending:         *)
(*   - client_to_server reads the client's messages one at a time, reviews *)
(*     each and forwards or refuses it (cpc);                              *)
(*   - server_to_client reads the server's messages one at a time, holds   *)
(*     and reviews tool results, and releases them in order (spc);         *)
(*   - the main coroutine drains and shuts down (main).                    *)
(* An action is what one task does between two awaits, or what a worker    *)
(* thread does for it while the event loop runs the other tasks.           *)
(*                                                                         *)
(* A client message is known by its ticket, its position in the input.     *)
(* response_order holds ids in the code and tickets here: an id is in it   *)
(* at most once, so the ticket determines the id and the properties can    *)
(* tell an id's successive uses apart.  Every other table is keyed by id.  *)
(*                                                                         *)
(* What the policy, the detectors, the reviewers and the humans decide is  *)
(* a nondeterministic choice here.  Client and server are environment.     *)
(***************************************************************************)
EXTENDS Naturals, Sequences, FiniteSets

CONSTANTS
  ClientIds,    \* JSON-RPC ids the client gives its requests
  ServerIds,    \* JSON-RPC ids the server gives its own requests
  Kinds,        \* the kinds of messages clients send
  Setups,       \* the gates proxies start with, and the traffic they meet
  MaxPending,   \* tool_result_gate.max_pending_responses
  MaxBuffer,    \* tool_result_gate.max_buffer_bytes
  Sizes,        \* byte counts of server frames
  ErrorSize,    \* byte count of an error frame the proxy makes
  MaxMessages,  \* bound: messages the client sends
  MaxServer,    \* bound: requests and notifications a server sends
  MaxFaults,    \* bound: exceptions that end a task
  NoId          \* stands for a missing or null id

ASSUME ProxyAssumption ==
  /\ NoId \notin ClientIds \cup ServerIds
  /\ Kinds \subseteq {"tool", "other", "reply", "note", "anonymous"}
  /\ Setups \subseteq [mode : {"off", "shadow", "enforce"}, review : {"rules", "hybrid"},
                       kinds : SUBSET Kinds, asks : 0..MaxServer]
  /\ MaxPending \in Nat \ {0}
  /\ MaxBuffer \in Nat
  /\ Sizes \subseteq Nat
  /\ ErrorSize \in Nat
  /\ MaxMessages \in Nat
  /\ MaxServer \in Nat
  /\ MaxFaults \in Nat

VARIABLES
  setup,      \* the gate of the policy file, and what client and server send
  req,        \* req[n]: the client's n-th message
  order,      \* response_order, as tickets
  blocked,    \* blocked_responses
  served,     \* server_responses
  pending,    \* GatewayRuntime.pending: ticket per id, 0 for none
  drained,    \* responses_drained
  released,   \* response_slot_released
  cpc,        \* client_to_server: where it is
  cmsg,       \* ... and the ticket it is working on
  spc,        \* server_to_client: where it is
  smsg,       \* ... and the message it is working on
  act,        \* ... and what the inspection said
  main,       \* the main coroutine
  termed,     \* process.terminate() was called
  shadow,     \* tickets of running shadow reviews
  up,         \* the server process is running
  owed,       \* tickets the server has received and not answered
  asked,      \* ids of the server's requests, not yet answered by the client
  fromServer, \* requests and notifications the server has sent
  faults,     \* exceptions so far
  out,        \* everything written to the client, oldest first
  popped,     \* tickets taken off response_order by a flush, oldest first
  verdict,    \* verdict[n]: the decision on request n
  content,    \* content[n]: what the result of n deserves
  cleared     \* the drain timed out and response_order was cleared

tables == <<req, order, blocked, served, pending>>
events == <<drained, released>>
clientVars == <<cpc, cmsg>>
serverVars == <<spc, smsg, act>>
mainVars == <<main, termed, cleared>>
envVars == <<up, owed, asked, fromServer, faults>>
ghosts == <<out, popped, verdict, content>>
vars == <<setup, tables, events, clientVars, serverVars, shadow, mainVars, envVars, ghosts>>

Mode == setup.mode      \* tool_result_gate.mode, "off" when the policy has no gate
Review == setup.review  \* tool_result_gate.review

Ids == ClientIds \cup ServerIds
Tickets == 1..MaxMessages
Nil == [from |-> 0, body |-> "nil", size |-> 0, gated |-> FALSE]
NoMessage == [id |-> NoId, from |-> 0, size |-> 0, over |-> FALSE, gated |-> FALSE]

\* A tools/call, any other request, a reply to a request of the server, a
\* notification, a tools/call without a usable id.
Messages ==
  [id : ClientIds, kind : Kinds \cap {"tool", "other"}]
    \cup [id : ServerIds, kind : Kinds \cap {"reply"}]
    \cup [id : {NoId}, kind : Kinds \cap {"note", "anonymous"}]

Contents == {"clean", "bad", "unsure", "failed"}
RequestErrors == {"refused", "denied", "expired"}
ResultErrors == {"limit", "resBlocked", "resDenied", "resExpired"}
Bodies == {"raw", "duplicate"} \cup RequestErrors \cup ResultErrors

Id(n) == req[n].id
IsTool(n) == req[n].kind \in {"tool", "anonymous"}

Init ==
  /\ setup \in Setups
  /\ req = <<>>
  /\ order = <<>>
  /\ blocked = [i \in Ids |-> Nil]
  /\ served = [i \in Ids |-> Nil]
  /\ pending = [i \in Ids |-> 0]
  /\ drained = TRUE
  /\ released = FALSE
  /\ cpc = "read" /\ cmsg = 0
  /\ spc = "read" /\ smsg = NoMessage /\ act = "none"
  /\ main = "client" /\ termed = FALSE /\ shadow = {} /\ cleared = FALSE
  /\ up = TRUE /\ owed = {} /\ asked = {} /\ fromServer = 0 /\ faults = 0
  /\ out = <<>> /\ popped = <<>>
  /\ verdict = [n \in Tickets |-> "none"]
  /\ content = [n \in Tickets |-> "none"]

-----------------------------------------------------------------------------
(* flush_ordered_responses.                                                *)

\* request_id in response_order
InOrder(i) == \E k \in DOMAIN order : Id(order[k]) = i

Write(slot, from, body) ==
  out' = Append(out, [slot |-> slot, from |-> from, body |-> body, late |-> cleared])

\* The head of o has its response.
Ready(o, b, s) == o # <<>> /\ (b[Id(Head(o))] # Nil \/ s[Id(Head(o))] # Nil)

\* A release that forgets the waiting client task.
ReleaseUnnoticed(o) == drained' = (drained \/ o = <<>>) /\ UNCHANGED released

\* response_slot_released.set(), and responses_drained.set() with the last one.
Release(o) == drained' = (drained \/ o = <<>>) /\ released' = TRUE

\* One round of the loop on response_order = o, blocked_responses = b and
\* server_responses = s: write the head's response and release its slot, or
\* return.  No await separates the pop from the write, so a round is atomic;
\* the task yields (sleep(0)) between rounds.
Flush(o, b, s) ==
  \/ /\ Ready(o, b, s)
     /\ LET i == Id(Head(o))
            e == IF b[i] # Nil THEN b[i] ELSE s[i]
        IN  /\ Write(Head(o), e.from, e.body)
            /\ blocked' = IF b[i] # Nil THEN [b EXCEPT ![i] = Nil] ELSE b
            /\ served' = IF b[i] # Nil THEN s ELSE [s EXCEPT ![i] = Nil]
     /\ order' = Tail(o)
     /\ popped' = Append(popped, Head(o))
     /\ Release(Tail(o))
  \/ /\ ~Ready(o, b, s)
     /\ order' = o /\ blocked' = b /\ served' = s
     /\ UNCHANGED <<out, popped, released, drained>>

-----------------------------------------------------------------------------
(* client_to_server.                                                       *)

\* An off-by-one in the window.
WindowOverfull == Mode # "off" /\ Len(order) > MaxPending

\* gate is not None and len(response_order) >= gate.max_pending_responses
WindowFull == Mode # "off" /\ Len(order) >= MaxPending

\* A proxy that does not look for duplicates.
NeverDuplicate(i) == FALSE

\* request_id in response_order or request_id in runtime.pending
Duplicate(i) == i # NoId /\ (InOrder(i) \/ pending[i] # 0)

\* An appendleft in the place of append.
AdmitInFront(n, i) ==
  /\ cpc' = "inspect"
  /\ cmsg' = n
  /\ IF i = NoId THEN UNCHANGED <<order, drained>>
     ELSE order' = <<n>> \o order /\ drained' = FALSE

\* Queue the message for an ordered response, if it has an id, and hand it to
\* the inspection thread.
Admit(n, i) ==
  /\ cpc' = "inspect"
  /\ cmsg' = n
  /\ IF i = NoId THEN UNCHANGED <<order, drained>>
     ELSE order' = Append(order, n) /\ drained' = FALSE

ClientRead(m) ==
  LET n == Len(req) + 1
  IN
  /\ main # "exited" /\ cpc = "read" /\ n <= MaxMessages
  /\ m.kind \in setup.kinds /\ (m.kind = "reply" => m.id \in asked)
  /\ req' = Append(req, m)
  /\ asked' = IF m.kind = "reply" THEN asked \ {m.id} ELSE asked
  /\ \/ /\ Duplicate(m.id)
        /\ Write(0, n, "duplicate")
        /\ UNCHANGED <<cpc, cmsg, order, drained, released>>
     \/ /\ ~Duplicate(m.id)
        /\ m.id # NoId /\ WindowFull
        /\ cpc' = "slot" /\ cmsg' = n /\ released' = FALSE
        /\ UNCHANGED <<order, drained, out>>
     \/ /\ ~Duplicate(m.id)
        /\ m.id = NoId \/ ~WindowFull
        /\ Admit(n, m.id)
        /\ UNCHANGED <<released, out>>
  /\ UNCHANGED <<setup, blocked, served, pending, serverVars, shadow, mainVars, up, owed,
                 fromServer, faults, popped, verdict, content>>

\* response_slot_released.wait() returns; SlotWakeup says why the loop's
\* condition need not be tried again.
ClientSlot ==
  /\ main # "exited" /\ cpc = "slot" /\ released
  /\ Admit(cmsg, Id(cmsg))
  /\ UNCHANGED <<setup, req, blocked, served, pending, released, serverVars, shadow, mainVars,
                 envVars, ghosts>>

ClientEOF ==
  /\ main # "exited" /\ cpc = "read"
  /\ cpc' = "done"
  /\ UNCHANGED <<setup, tables, events, cmsg, serverVars, shadow, mainVars, envVars, ghosts>>

\* Allowing a call without remembering it.
DoNotRegister(n) == UNCHANGED pending

\* runtime.pending[id] = pending, in the inspection thread or after approval.
Register(n) ==
  pending' = IF Id(n) = NoId THEN pending ELSE [pending EXCEPT ![Id(n)] = n]

\* inspect_client_message, in a worker thread.
ClientInspect(v) ==
  /\ main # "exited" /\ cpc = "inspect"
  /\ ~IsTool(cmsg) => v = "allow"
  /\ verdict' = [verdict EXCEPT ![cmsg] = v]
  /\ \/ /\ v = "allow"
        /\ IF IsTool(cmsg) THEN Register(cmsg) ELSE UNCHANGED pending
        /\ cpc' = "forward"
     \/ v = "block" /\ cpc' = "refuse" /\ UNCHANGED pending
     \/ v = "require_approval" /\ cpc' = "approval" /\ UNCHANGED pending
  /\ UNCHANGED <<setup, req, order, blocked, served, events, cmsg, serverVars, shadow, mainVars,
                 envVars, out, popped, content>>

\* The client is told no: in its turn when it gave an id, at once otherwise.
Refuse(n, body) ==
  IF Id(n) = NoId
  THEN /\ Write(0, n, body)
       /\ cpc' = "read"
       /\ UNCHANGED <<order, blocked, served, events, popped>>
  ELSE LET b == [blocked EXCEPT ![Id(n)] =
                   [from |-> n, body |-> body, size |-> ErrorSize, gated |-> FALSE]]
       IN  /\ Flush(order, b, served)
           /\ cpc' = IF Ready(order, b, served) THEN "flush" ELSE "read"

ClientRefuse ==
  /\ main # "exited" /\ cpc = "refuse"
  /\ Refuse(cmsg, "refused")
  /\ UNCHANGED <<setup, req, pending, cmsg, serverVars, shadow, mainVars, envVars, verdict,
                 content>>

\* What the server will answer: requests, as far as it gets them.
Expected(n) == req[n].kind \in {"tool", "other"}

Send(n) == owed' = IF up /\ Expected(n) THEN owed \cup {n} ELSE owed

\* An expired approval that lets the call through.
LapsedIsConsent(s) == s # "denied"

\* effective_action_for_status(status) == "allow"
Consent(s) == s = "approved"

\* wait_for_approval_resolution returns to the client task, which forwards the call
\* as ClientForward does or refuses it.
ClientApproval(s) ==
  /\ main # "exited" /\ cpc = "approval"
  /\ \/ /\ Consent(s)
        /\ Register(cmsg)
        /\ Send(cmsg)
        /\ verdict' = [verdict EXCEPT ![cmsg] = s]
        /\ cpc' = "read" \/ (~up /\ cpc' = "failed")
        /\ UNCHANGED <<order, blocked, served, events, out, popped>>
     \/ /\ ~Consent(s)
        /\ Refuse(cmsg, IF s = "expired" THEN "expired" ELSE "denied")
        /\ UNCHANGED <<pending, owed, verdict>>
  /\ UNCHANGED <<setup, req, cmsg, serverVars, shadow, mainVars, up, asked, fromServer, faults,
                 content>>

\* proc_stdin.write and drain.  Once the server is gone the bytes are lost, or
\* drain raises.
ClientForward ==
  /\ main # "exited" /\ cpc = "forward"
  /\ Send(cmsg)
  /\ \/ cpc' = "read"
     \/ ~up /\ cpc' = "failed"
  /\ UNCHANGED <<setup, tables, events, cmsg, serverVars, shadow, mainVars, up, asked,
                 fromServer, faults, ghosts>>

ClientFlush ==
  /\ main # "exited" /\ cpc = "flush"
  /\ Flush(order, blocked, served)
  /\ cpc' = IF Ready(order, blocked, served) THEN "flush" ELSE "read"
  /\ UNCHANGED <<setup, req, pending, cmsg, serverVars, shadow, mainVars, envVars, verdict,
                 content>>

\* An exception the task does not catch (SQLite, trace file, reviewer).
ClientCrash ==
  /\ main # "exited" /\ cpc \in {"inspect", "approval"} /\ faults < MaxFaults
  /\ faults' = faults + 1
  /\ cpc' = "failed"
  /\ UNCHANGED <<setup, tables, events, cmsg, serverVars, shadow, mainVars, up, owed, asked,
                 fromServer, ghosts>>

-----------------------------------------------------------------------------
(* server_to_client.                                                       *)

\* The bytes of the responses that server_responses holds for the ids in S.
HeldBytes(S) == UNION {{i} \X (1..served[i].size) : i \in S}

\* sum(len(response) for response in server_responses.values())
Buffered == Cardinality(HeldBytes(Ids))

\* A buffer check that forgets what is already held.
OwnSizeOnly(z) == z > MaxBuffer

\* projected_buffer_bytes > gate.max_buffer_bytes
OverLimit(z) == z + Buffered > MaxBuffer

\* pending.pop(request_id, None)
Pop(i) == pending' = [pending EXCEPT ![i] = 0]

\* A flush that is one round and no loop.
DeliverOnce(i, e) == Flush(order, blocked, [served EXCEPT ![i] = e]) /\ spc' = "read"

\* Store the response for id i and start the flush.
Deliver(i, e) ==
  LET s == [served EXCEPT ![i] = e]
  IN  /\ Flush(order, blocked, s)
      /\ spc' = IF Ready(order, blocked, s) THEN "flush" ELSE "read"

\* A frame with id i from the server: the answer to ticket n, or the server's
\* own request (n = 0).  The four branches are: nobody waits for this id, so it
\* is inspected, the inspection ignored and the frame passed on; the result
\* would overfill the buffer; shadow review lets it pass and reviews it later;
\* anything else is inspected in a thread.
Receive(i, n, z) ==
  LET gated == pending[i] # 0 /\ Mode # "off"
  IN
  \/ /\ ~InOrder(i)
     /\ Pop(i)
     /\ Write(0, n, "raw")
     /\ UNCHANGED <<order, blocked, served, events, serverVars, shadow, popped>>
  \/ /\ InOrder(i)
     /\ gated => ~OverLimit(z)
     /\ gated /\ Mode = "shadow" /\ Review = "hybrid"
     /\ Pop(i)
     /\ smsg' = [id |-> i, from |-> n, size |-> z, over |-> FALSE, gated |-> TRUE]
     /\ LET e == [from |-> n, body |-> "raw", size |-> z, gated |-> TRUE]
            review == n # 0 /\ content'[n] # "failed"
            flushing == Ready(order, blocked, [served EXCEPT ![i] = e])
        IN  /\ Deliver(i, e)
            /\ act' = IF review /\ flushing THEN "review" ELSE "none"
            /\ shadow' = IF review /\ ~flushing THEN shadow \cup {n} ELSE shadow
  \/ /\ InOrder(i)
     /\ (gated /\ OverLimit(z)) \/ ~(gated /\ Mode = "shadow" /\ Review = "hybrid")
     /\ smsg' = [id |-> i, from |-> n, size |-> z, over |-> gated /\ OverLimit(z),
                 gated |-> gated]
     /\ spc' = "inspect"
     /\ UNCHANGED <<order, blocked, served, pending, events, act, shadow, out, popped>>

ServerRespond(n, c, z) ==
  /\ main # "exited" /\ spc = "read" /\ n \in owed
  /\ owed' = owed \ {n}
  /\ IsTool(n) \/ c = "clean"
  /\ content' = [content EXCEPT ![n] = c]
  /\ Receive(Id(n), n, z)
  /\ UNCHANGED <<setup, req, clientVars, mainVars, up, asked, fromServer, faults, verdict>>

ServerRequest(i, z) ==
  /\ main # "exited" /\ spc = "read" /\ up /\ fromServer < setup.asks
  /\ i \notin asked
  /\ fromServer' = fromServer + 1
  /\ asked' = asked \cup {i}
  /\ UNCHANGED content
  /\ Receive(i, 0, z)
  /\ UNCHANGED <<setup, req, clientVars, mainVars, up, owed, faults, verdict>>

\* A message without an id is passed on at once.
ServerNotify ==
  /\ main # "exited" /\ spc = "read" /\ up /\ fromServer < setup.asks
  /\ fromServer' = fromServer + 1
  /\ Write(0, 0, "raw")
  /\ UNCHANGED <<setup, tables, events, clientVars, serverVars, shadow, mainVars, up, owed, asked,
                 faults, popped, verdict, content>>

\* A gate that asks nobody.
TrustingGate(c) == IF Mode = "enforce" /\ c = "bad" THEN "block" ELSE "allow"

\* The effective action of the Tool Result Gate on a result that deserves c.
GateAction(c) ==
  IF Mode = "enforce" THEN (CASE c = "bad" -> "block"
                              [] c = "unsure" -> "require_approval"
                              [] OTHER -> "allow")
  ELSE "allow"

\* A limit that forgets the shadow mode.
LimitAlways == "limit"

\* The effective action on a frame over the buffer limit.
LimitAction == IF Mode = "enforce" THEN "limit" ELSE "allow"

\* inspect_server_message in a worker thread: without a pending call there is
\* nothing to review.  The server's own request taken for a result is whatever
\* the reviewer makes of it.
ServerInspect(c) ==
  /\ main # "exited" /\ spc = "inspect"
  /\ smsg.from # 0 => c = content[smsg.from]
  /\ Pop(smsg.id)
  /\ act' = IF smsg.over THEN LimitAction
            ELSE IF pending[smsg.id] = 0 THEN "allow" ELSE GateAction(c)
  /\ spc' = "inspected"
  /\ UNCHANGED <<setup, req, order, blocked, served, events, clientVars, smsg, shadow, mainVars,
                 envVars, ghosts>>

\* The frame the client will see.
ResultBody(a) ==
  CASE a = "limit" -> "limit" [] a = "block" -> "resBlocked" [] OTHER -> "raw"

Reply(body) ==
  [from |-> smsg.from, body |-> body,
   size |-> IF body = "raw" THEN smsg.size ELSE ErrorSize,
   gated |-> smsg.gated /\ body = "raw"]

ServerDecide ==
  /\ main # "exited" /\ spc = "inspected"
  /\ \/ /\ act = "require_approval"
        /\ spc' = "approval"
        /\ UNCHANGED <<order, blocked, served, events, out, popped, act>>
     \/ /\ act # "require_approval"
        /\ act' = "none"
        /\ Deliver(smsg.id, Reply(ResultBody(act)))
  /\ UNCHANGED <<setup, req, pending, clientVars, smsg, shadow, mainVars, envVars, verdict,
                 content>>

ServerApproval(s) ==
  /\ main # "exited" /\ spc = "approval"
  /\ act' = "none"
  /\ content' = IF Consent(s) /\ smsg.from # 0
                THEN [content EXCEPT ![smsg.from] = "approved"] ELSE content
  /\ Deliver(smsg.id, Reply(IF Consent(s) THEN "raw"
                            ELSE IF s = "expired" THEN "resExpired" ELSE "resDenied"))
  /\ UNCHANGED <<setup, req, pending, clientVars, smsg, shadow, mainVars, envVars, verdict>>

\* The flush of the server task; the shadow review starts when it is over.
ServerFlush ==
  /\ main # "exited" /\ spc = "flush"
  /\ Flush(order, blocked, served)
  /\ spc' = IF Ready(order, blocked, served) THEN "flush" ELSE "read"
  /\ shadow' = IF ~Ready(order, blocked, served) /\ act = "review"
               THEN shadow \cup {smsg.from} ELSE shadow
  /\ act' = IF Ready(order, blocked, served) THEN act ELSE "none"
  /\ UNCHANGED <<setup, req, pending, clientVars, smsg, mainVars, envVars, verdict, content>>

ShadowReviewed(n) ==
  /\ main # "exited" /\ n \in shadow
  /\ shadow' = shadow \ {n}
  /\ UNCHANGED <<setup, tables, events, clientVars, serverVars, mainVars, envVars, ghosts>>

ServerEOF ==
  /\ main # "exited" /\ spc = "read" /\ ~up
  /\ spc' = "done"
  /\ UNCHANGED <<setup, tables, events, clientVars, smsg, act, shadow, mainVars, envVars, ghosts>>

\* An exception the server task does not catch: in a worker thread, or in what it does
\* itself with a message it has read (inspect_server_message, prepare_shadow_tool_result).
ServerCrash ==
  /\ main # "exited" /\ faults < MaxFaults
  /\ spc = "read" => owed # {} \/ (up /\ fromServer < setup.asks)
  /\ spc \in {"read", "inspect", "approval"}
  /\ faults' = faults + 1
  /\ spc' = "failed"
  /\ UNCHANGED <<setup, tables, events, clientVars, smsg, act, shadow, mainVars, up, owed, asked,
                 fromServer, ghosts>>

\* The server process ends; what it had written can still be read.
ServerExit ==
  /\ up
  /\ up' = FALSE
  /\ UNCHANGED <<setup, tables, events, clientVars, serverVars, shadow, mainVars, owed, asked,
                 fromServer, faults, ghosts>>

-----------------------------------------------------------------------------
(* The main coroutine.                                                     *)

MainGoto(from, to) ==
  /\ main = from
  /\ main' = to
  /\ UNCHANGED <<setup, tables, events, clientVars, serverVars, shadow, envVars, ghosts>>

\* await client_task
ClientDone == cpc = "done" /\ MainGoto("client", "drain") /\ UNCHANGED <<termed, cleared>>

\* await responses_drained.wait()
Drained == drained /\ MainGoto("drain", "wait") /\ UNCHANGED <<termed, cleared>>

\* ... within ten seconds, or terminate the server and forget the rest.
DrainTimeout ==
  /\ main = "drain" /\ ~drained
  /\ main' = "wait" /\ termed' = TRUE /\ cleared' = TRUE
  /\ order' = <<>> /\ drained' = TRUE
  /\ UNCHANGED <<setup, req, blocked, served, pending, released, clientVars, serverVars, shadow,
                 envVars, ghosts>>

\* A wait without a timeout.
WaitForever == FALSE

\* await process.wait(), with a terminate after a second.
WaitTimeout == up /\ ~termed /\ MainGoto("wait", "wait") /\ termed' = TRUE /\ UNCHANGED cleared

ProcessExited == ~up /\ MainGoto("wait", "server") /\ UNCHANGED <<termed, cleared>>

\* await server_task, then up to ten seconds for the shadow reviews.
ServerDone == spc = "done" /\ MainGoto("server", "shadow") /\ UNCHANGED <<termed, cleared>>

ShadowWaited == MainGoto("shadow", "exited") /\ UNCHANGED <<termed, cleared>>

\* A task that failed, or an interrupt, goes to the finally clause at once:
\* the client task's failure is noticed while main awaits it, the server
\* task's only after the process has ended.
Aborted ==
  /\ \/ cpc = "failed" /\ MainGoto("client", "exited")
     \/ spc = "failed" /\ MainGoto("server", "exited")
  /\ UNCHANGED <<termed, cleared>>

Interrupt ==
  /\ faults < MaxFaults
  /\ faults' = faults + 1
  /\ main # "exited"
  /\ main' = "exited"
  /\ UNCHANGED <<setup, tables, events, clientVars, serverVars, shadow, termed, cleared, up,
                 owed, asked, fromServer, ghosts>>

-----------------------------------------------------------------------------
ClientStep ==
  \/ ClientSlot
  \/ \E v \in {"allow", "block", "require_approval"} : ClientInspect(v)
  \/ ClientRefuse
  \/ \E s \in {"approved", "denied", "expired"} : ClientApproval(s)
  \/ ClientForward
  \/ ClientFlush

ServerStep ==
  \/ \E c \in Contents : ServerInspect(c)
  \/ ServerDecide
  \/ \E s \in {"approved", "denied", "expired"} : ServerApproval(s)
  \/ ServerFlush
  \/ ServerEOF

MainStep ==
  \/ ClientDone \/ Drained \/ DrainTimeout \/ WaitTimeout \/ ProcessExited
  \/ ServerDone \/ ShadowWaited \/ Aborted

Respond(n) == \E c \in Contents, z \in Sizes : ServerRespond(n, c, z)

Environment ==
  \/ \E m \in Messages : ClientRead(m)
  \/ ClientEOF
  \/ \E n \in Tickets : Respond(n)
  \/ \E i \in ServerIds, z \in Sizes : ServerRequest(i, z)
  \/ ServerNotify
  \/ ServerExit

Next ==
  \/ Environment
  \/ ClientStep \/ ClientCrash
  \/ ServerStep \/ ServerCrash
  \/ \E n \in Tickets : ShadowReviewed(n)
  \/ MainStep \/ Interrupt

Spec == Init /\ [][Next]_vars

\* The proxy's own steps happen, and so do its timeouts; a server that is
\* told to terminate does.  Nobody makes the client send, the server answer
\* or anything crash.
Fairness ==
  /\ WF_vars(ClientStep)
  /\ WF_vars(ServerStep)
  /\ WF_vars(MainStep)
  /\ WF_vars(termed /\ ServerExit)

FairSpec == Spec /\ Fairness

\* A server that answers what it is asked.
ServerAnswers == \A n \in Tickets : WF_vars(Respond(n))

-----------------------------------------------------------------------------
(* Properties.                                                             *)

Entries == [from : 0..MaxMessages, body : Bodies, size : Nat, gated : BOOLEAN] \cup {Nil}
Writes == [slot : 0..MaxMessages, from : 0..MaxMessages, body : Bodies, late : BOOLEAN]

TablesOK ==
  /\ req \in Seq(Messages) /\ Len(req) <= MaxMessages
  /\ order \in Seq(1..Len(req))
  /\ blocked \in [Ids -> Entries]
  /\ served \in [Ids -> Entries]
  /\ pending \in [Ids -> 0..Len(req)]

ClientOK ==
  /\ cpc \in {"read", "slot", "inspect", "refuse", "approval", "forward", "flush", "done", "failed"}
  /\ cmsg \in 0..Len(req)

ServerOK ==
  /\ spc \in {"read", "inspect", "inspected", "approval", "flush", "done", "failed"}
  /\ smsg \in [id : Ids \cup {NoId}, from : 0..Len(req), size : Nat, over : BOOLEAN,
               gated : BOOLEAN]
  /\ act \in {"none", "review", "allow", "block", "require_approval", "limit"}
  /\ shadow \subseteq 1..Len(req)

MainOK ==
  /\ main \in {"client", "drain", "wait", "server", "shadow", "exited"}
  /\ termed \in BOOLEAN /\ cleared \in BOOLEAN
  /\ drained \in BOOLEAN /\ released \in BOOLEAN

EnvironmentOK ==
  /\ setup \in Setups
  /\ up \in BOOLEAN
  /\ owed \subseteq 1..Len(req)
  /\ asked \subseteq ServerIds
  /\ fromServer \in 0..MaxServer /\ faults \in 0..MaxFaults

GhostsOK ==
  /\ out \in Seq(Writes)
  /\ popped \in Seq(1..Len(req))
  /\ verdict \in [Tickets -> {"none", "allow", "block", "require_approval", "approved"}]
  /\ content \in [Tickets -> Contents \cup {"none", "approved"}]

TypeOK == TablesOK /\ ClientOK /\ ServerOK /\ MainOK /\ EnvironmentOK /\ GhostsOK

(* flush_ordered_responses answers the requests in the order they came and *)
(* none twice, whichever task flushes: the proxy implements                *)
(* OrderedResponses.                                                       *)
Ordered == 
  INSTANCE OrderedResponses WITH Requests <- Tickets, queue <- order, answered <- popped

ImplementsOrder == Ordered!Spec

(* An answer to a numbered request, written before the drain timed out.    *)
IsAnswer(e) ==
  e.from # 0 /\ e.body # "duplicate" /\ ~e.late /\ Id(e.from) # NoId

(* docs/tool-result-gate.md: responses retain request order, and a request *)
(* gets one response.  This is about the frames themselves, not about the  *)
(* slots they were written for.                                            *)
ResponsesRetainOrder ==
  \A j, k \in DOMAIN out :
    j < k /\ IsAnswer(out[j]) /\ IsAnswer(out[k]) => out[j].from < out[k].from

(* A tool result reached the agent as the server sent it.                  *)
RawResult(e) == e.body = "raw" /\ e.from # 0 /\ IsTool(e.from)

Harmless == {"clean", "failed", "approved"}

(* docs/tool-result-gate.md, wire behavior: with an enforcing gate a       *)
(* result that policy blocks, or that nobody approved, never reaches the   *)
(* agent.                                                                  *)
ResultsAreGated ==
  Mode = "enforce" =>
    \A k \in DOMAIN out : RawResult(out[k]) => content[out[k].from] \in Harmless

(* The same up to the moment the drain times out.                          *)
ResultsAreGatedWhileServing ==
  Mode = "enforce" =>
    \A k \in DOMAIN out :
      RawResult(out[k]) /\ ~out[k].late => content[out[k].from] \in Harmless

(* docs/tool-result-gate.md: shadow mode never changes the response on the *)
(* wire; neither does a policy without a gate.                             *)
ShadowLeavesTheWire ==
  Mode # "enforce" => \A k \in DOMAIN out : out[k].body \notin ResultErrors

(* docs/tool-result-gate.md: shadow mode never changes the response on the *)
(* wire, whatever the background reviews find and whenever they end, and   *)
(* in both modes the responses retain request order.                       *)
WireIsKept == ShadowLeavesTheWire /\ ResponsesRetainOrder

(* The server has only seen calls that were allowed or approved.           *)
OnlyPermittedForwarded ==
  \A n \in Tickets :
    n \in owed \/ content[n] # "none" => verdict[n] \in {"allow", "approved"}

(* max_buffer_bytes bounds the tool results an enforcing gate holds.       *)
HeldResultsBounded ==
  Mode = "enforce" =>
    Cardinality(HeldBytes({i \in Ids : served[i].gated})) <= MaxBuffer

(* max_pending_responses bounds the requests in flight.                    *)
WindowBounded == Mode # "off" => Len(order) <= MaxPending

(* No lost and no spurious wakeup: while the client task waits for a slot, *)
(* response_slot_released is set exactly when there is one.                *)
SlotWakeup == cpc = "slot" => (released <=> ~WindowFull)

(* responses_drained is set exactly when response_order is empty, so a     *)
(* shutdown neither waits for nothing nor leaves before the last answer.   *)
DrainedMeansEmpty == drained <=> order = <<>>

(* Once the client task is over, because the client has closed its end or  *)
(* because something it does not catch was raised, the proxy exits.        *)
ShutdownEnds == cpc \in {"done", "failed"} ~> main = "exited"

(* docs/tool-result-gate.md: allowed and approved results return the       *)
(* original frame.  With a server that answers, every request in           *)
(* response_order gets its answer, unless the server dies, the client      *)
(* leaves or something fails.                                              *)
EveryRequestAnswered ==
  ServerAnswers =>
    \A n \in Tickets :
      (\E k \in DOMAIN order : order[k] = n /\ Expected(n))
        ~> ((\E k \in DOMAIN popped : popped[k] = n)
              \/ ~up \/ main # "client" \/ cpc = "done" \/ faults > 0)

-----------------------------------------------------------------------------
(* The inductive invariant behind TypeOK, ImplementsOrder and the          *)
(* properties of the window.                                               *)

(* response_order holds requests that have an id.                          *)
SlotInv == \A k \in DOMAIN order : Id(order[k]) # NoId

(* A task works on a message it has read, the server owes answers to       *)
(* requests only, and the main coroutine waits for the client task first.  *)
PositionInv ==
  /\ cpc \notin {"read", "done", "failed"} => cmsg \in 1..Len(req)
  /\ cpc = "slot" => cmsg = Len(req) /\ Id(cmsg) # NoId
  /\ spc \in {"inspect", "inspected", "approval", "flush"} => smsg.id \in Ids
  /\ act = "review" => spc = "flush" /\ smsg.from # 0
  /\ \A n \in owed : Expected(n)
  /\ main \notin {"client", "exited"} => cpc = "done"

(* Every message that has had a slot is older than the one that waits for  *)
(* one, or than the next one to be read.                                   *)
OlderThan(sq, n) == \A k \in DOMAIN sq : sq[k] < n

OrderInv ==
  LET next == IF cpc = "slot" THEN cmsg ELSE Len(req) + 1
  IN  OlderThan(order, next) /\ OlderThan(popped, next)

IInv ==
  /\ TypeOK
  /\ PositionInv
  /\ SlotInv
  /\ OrderInv
  /\ WindowBounded
  /\ SlotWakeup
  /\ DrainedMeansEmpty
=============================================================================
