----------------------------- MODULE BccSession -----------------------------
(***************************************************************************)
(* The event source of the endpoint agent: BccCollectorSession.iter_records *)
(* of endpoint/collectors/linux_bcc.py under LinuxEbpfCollector.iter_records*)
(* of endpoint/collectors/linux.py.  It is a generator, so it has no thread *)
(* of its own: it runs inside the consumer's next(), from one yield to the  *)
(* next, and it stays suspended at a yield while the consumer works.        *)
(*                                                                          *)
(* The actions below change the variables of the session alone.  Where the  *)
(* code calls _notify_status the comment says "notifies"; the module that   *)
(* composes the session with its consumer says what a notification does.    *)
(***************************************************************************)
EXTENDS Integers, Sequences

CONSTANTS
    ProbeOrder,   \* the probes in the order attach() lists them
    MaxEvents     \* bound: events the kernel delivers to one probe

Probes == {ProbeOrder[i] : i \in DOMAIN ProbeOrder}

ASSUME EventsAssumption == MaxEvents \in Nat

\* No two entries of the probe list name the same probe.
ASSUME OrderAssumption ==
    /\ ProbeOrder \in Seq(Probes)
    /\ \A i, j \in DOMAIN ProbeOrder : ProbeOrder[i] = ProbeOrder[j] => i = j

VARIABLES
    gen,        \* where the generator stands
    attached,   \* the probes whose state.attached is set
    turn,       \* the place in ProbeOrder of "for probe in self._active_probes()"
    queue,      \* the deque of each probe, filled by the perf callback
    batch,      \* what is left of the list _drain_probe returned
    polled,     \* polled_any
    emitted,    \* the generator's count of yielded records
    stop,       \* _stop_event
    fired,      \* events the kernel has delivered to each probe
    dropped     \* the events _enqueue refused (the code keeps their number)

sessionVars == <<gen, attached, turn, queue, batch, polled, emitted, stop, fired, dropped>>

Event == Probes \X (Nat \ {0})

\* limit is None when it is negative.
Reached(limit, n) == limit >= 0 /\ n >= limit

\* The generator before the first next().
SessionInit ==
    /\ gen = "new" /\ attached = {} /\ turn = 1 /\ batch = <<>>
    /\ queue = [p \in Probes |-> <<>>]
    /\ polled = FALSE /\ emitted = 0 /\ stop = FALSE
    /\ fired = [p \in Probes |-> 0] /\ dropped = {}

\* A new collector of a new process; fired and dropped go on counting.
SessionReset ==
    /\ gen' = "new" /\ attached' = {} /\ turn' = 1 /\ batch' = <<>>
    /\ queue' = [p \in Probes |-> <<>>]
    /\ polled' = FALSE /\ emitted' = 0 /\ stop' = FALSE
    /\ UNCHANGED <<fired, dropped>>

-----------------------------------------------------------------------------
\* cleanup(): the probes go, with what their queues and the batch still hold;
\* notifies.  It ends the generator, whether it was reached by its own end, by
\* an exception inside it or by GeneratorExit at the yield it is suspended at.
Cleanup ==
    /\ gen' = "closed" /\ attached' = {} /\ turn' = 1 /\ batch' = <<>>
    /\ queue' = [p \in Probes |-> <<>>]
    /\ UNCHANGED <<polled, emitted, stop, fired, dropped>>

\* check_available fails when the generator starts: it ends without a record.
SourceGone ==
    /\ gen = "new" /\ gen' = "closed"
    /\ UNCHANGED <<attached, turn, queue, batch, polled, emitted, stop, fired, dropped>>

\* attach() with the probes of S attached; a probe that fails to attach is left
\* out.  Notifies.
Attach(S) ==
    /\ gen = "new" /\ S # {}
    /\ gen' = "round" /\ attached' = S
    /\ UNCHANGED <<turn, queue, batch, polled, emitted, stop, fired, dropped>>

\* No probe attached: cleanup(), then BccCollectorUnavailable to the consumer.
AttachFails == gen = "new" /\ Cleanup

\* attach() cannot notify: no handler has been entered yet, and the probes stay.
AttachUnseen(S) ==
    /\ gen = "new" /\ S # {}
    /\ gen' = "closed" /\ attached' = S
    /\ UNCHANGED <<turn, queue, batch, polled, emitted, stop, fired, dropped>>

\* The head of the while loop when it goes on.
BeginRound(limit) ==
    /\ gen = "round" /\ ~stop /\ ~Reached(limit, emitted)
    /\ gen' = "poll" /\ polled' = FALSE
    /\ turn' = 1
    /\ UNCHANGED <<attached, queue, batch, emitted, stop, fired, dropped>>

\* A deque(maxlen=max_queue), which forgets its oldest event without a count.
EnqueueEvicting(p, k, max) ==
    LET all == queue[p] \o [i \in 1..k |-> <<p, fired[p] + i>>]
        cut == IF Len(all) > max THEN Len(all) - max ELSE 0
    IN /\ fired[p] + k <= MaxEvents
       /\ fired' = [fired EXCEPT ![p] = @ + k]
       /\ queue' = [queue EXCEPT ![p] = SubSeq(all, cut + 1, Len(all))]
       /\ UNCHANGED dropped

\* _enqueue for the next k events of probe p, one perf callback each: those
\* that find the queue at max_queue are counted and refused.
Enqueue(p, k, max) ==
    LET room == IF max > Len(queue[p]) THEN max - Len(queue[p]) ELSE 0
        take == IF k < room THEN k ELSE room
    IN /\ fired[p] + k <= MaxEvents
       /\ fired' = [fired EXCEPT ![p] = @ + k]
       /\ queue' = [queue EXCEPT ![p] = @ \o [i \in 1..take |-> <<p, fired[p] + i>>]]
       /\ dropped' = dropped \cup {<<p, fired[p] + i>> : i \in take + 1 .. k}

\* _active_probes() leaves out a probe that is not attached.
SkipProbe ==
    /\ gen = "poll" /\ turn <= Len(ProbeOrder) /\ ProbeOrder[turn] \notin attached
    /\ turn' = turn + 1
    /\ UNCHANGED <<gen, attached, queue, batch, polled, emitted, stop, fired, dropped>>

\* perf_buffer_poll of the next probe delivers k events and returns, or raises
\* after them; an exception is swallowed.  Notifies for each refused event, and
\* once for an exception.
Poll(limit, max, k, ok) ==
    /\ gen = "poll" /\ turn <= Len(ProbeOrder) /\ ProbeOrder[turn] \in attached
    /\ ~stop /\ ~Reached(limit, emitted)
    /\ Enqueue(ProbeOrder[turn], k, max)
    /\ gen' = "drain" /\ polled' = (polled \/ ok)
    /\ UNCHANGED <<attached, turn, batch, emitted, stop>>

\* pop in the place of popleft.
DrainNewestFirst ==
    LET q == queue[ProbeOrder[turn]]
    IN /\ gen = "drain" /\ gen' = "batch"
       /\ batch' = [i \in 1..Len(q) |-> q[Len(q) + 1 - i]]
       /\ queue' = [queue EXCEPT ![ProbeOrder[turn]] = <<>>]
       /\ UNCHANGED <<attached, turn, polled, emitted, stop, fired, dropped>>

\* _drain_probe empties the queue into a list.  Notifies for each event.
Drain ==
    /\ gen = "drain"
    /\ gen' = "batch"
    /\ batch' = queue[ProbeOrder[turn]] /\ queue' = [queue EXCEPT ![ProbeOrder[turn]] = <<>>]
    /\ UNCHANGED <<attached, turn, polled, emitted, stop, fired, dropped>>

\* "yield record": the generator is suspended with the head of the batch given
\* to the consumer.  After a yield the limit is tested before the next one.
Yield(limit) ==
    /\ gen \in {"batch", "yielded"} /\ batch # <<>>
    /\ gen = "yielded" => ~Reached(limit, emitted)
    /\ gen' = "yielded" /\ batch' = Tail(batch) /\ emitted' = emitted + 1
    /\ UNCHANGED <<attached, turn, queue, polled, stop, fired, dropped>>

\* The loop over the batch ends; what the limit cut off is forgotten.
BatchDone(limit) ==
    /\ \/ gen \in {"batch", "yielded"} /\ batch = <<>>
       \/ gen = "yielded" /\ Reached(limit, emitted)
    /\ gen' = "poll" /\ turn' = turn + 1 /\ batch' = <<>>
    /\ UNCHANGED <<attached, queue, polled, emitted, stop, fired, dropped>>

\* The for loop has run out, or has been left because of stop or the limit.
RoundOver(limit) == gen = "poll" /\ (turn > Len(ProbeOrder) \/ stop \/ Reached(limit, emitted))

\* Nothing could be polled and nothing waits: with a limit the session gives up.
Starved(limit) == ~polled /\ (\A p \in attached : queue[p] = <<>>) /\ limit >= 0

EndRound(limit) ==
    /\ RoundOver(limit) /\ ~Starved(limit)
    /\ gen' = "round" /\ turn' = 1
    /\ UNCHANGED <<attached, queue, batch, polled, emitted, stop, fired, dropped>>

\* The while loop ends: cleanup() and StopIteration for the consumer.
Finish(limit) ==
    /\ \/ gen = "round" /\ (stop \/ Reached(limit, emitted))
       \/ RoundOver(limit) /\ Starved(limit)
    /\ Cleanup

\* stop(), called by the consumer's signal handler.
Stop ==
    /\ stop' = TRUE
    /\ UNCHANGED <<gen, attached, turn, queue, batch, polled, emitted, fired, dropped>>

-----------------------------------------------------------------------------
\* Every value a session variable can take.
SessionTypeOK ==
    /\ gen \in {"new", "round", "poll", "drain", "batch", "yielded", "closed"}
    /\ attached \subseteq Probes
    /\ turn \in 1 .. Len(ProbeOrder) + 1
    /\ queue \in [Probes -> Seq(Event)]
    /\ batch \in Seq(Event)
    /\ polled \in BOOLEAN /\ emitted \in Nat /\ stop \in BOOLEAN
    /\ fired \in [Probes -> Nat]
    /\ dropped \subseteq Event
=============================================================================
