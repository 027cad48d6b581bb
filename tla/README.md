# A TLA+ model of ZeroADR

ZeroADR sits between an agent and the tools it calls.  It reads MCP traffic,
hook events and endpoint telemetry, detects risky behaviour, and lets a policy,
language-model reviewers and humans decide what may pass.  This directory
models the parts of it that decide, that wait and that record: the MCP stdio
proxy, the decisions of the gateway's and the hooks' gates, the life of a human
approval, the LLM configuration and the calls that use it, the endpoint agent with
its BCC collector, and the endpoint tailer with what a replay of its trace finds.

Paths in this file are relative to the repository; `zeroadr/` is short for
`src/zeroadr/`.

## The system and its parts

| Part | State | Operations | Talks to |
| --- | --- | --- | --- |
| MCP stdio proxy (`zeroadr/gateway/stdio_proxy.py`) | `response_order`, `blocked_responses`, `server_responses`, `GatewayRuntime.pending`, two asyncio events, the set of shadow reviews | client task, server task, main coroutine (drain, terminate, exit), worker threads for inspections and waits | client and server over pipes; decision service; approvals |
| Decision service and gates (`zeroadr/runtime/service.py`, `security_coordinator.py`, `_inspect_tool_result`) | one `SessionSecurityState` per session, saved decisions, adjudications, gate records | `evaluate`, `review_tool_request`, `review_agent_input`, `observe_result`, `observe_findings`, Tool Result Gate | policy engine, detectors, reviewers, store |
| Approvals (`zeroadr/runtime/approvals.py`, `hook/approval_wait.py`, `api/approvals.py`, `storage/database.py`) | `approval_requests` rows, gate records, `approval.resolved` events | save, sweep stale ones, wait, resolve, expire, expire at shutdown | every process, through one SQLite file |
| Policy engine (`zeroadr/policy/engine.py`) | the policy file | first matching rule, gate configuration | decision service |
| Hook adapter (`zeroadr/hook/`) | none between invocations | `handle` for `agent_input`, `pre_tool_use`, `post_tool_use` | decision service, coordinator |
| LLM configuration, providers and reviewers (`zeroadr/llm/`) | `llm-config.json`, what each reviewer resolved when it was built, stored analyses, `llm_provider_health` | resolve, review with one correction retry, adjudicate, triage with retries, record the provider's health | HTTP providers, store |
| Detectors (`zeroadr/detection/`) | none | patterns over one event; two detectors over event sequences | - |
| Replay and reconstruction (`zeroadr/replay/`, `reconstruction/`) | none | pure functions over traces | store |
| Endpoint agent (`zeroadr/endpoint/agent.py`) | status file, health, rotated output | collect loop, heartbeat thread, rotation, retention, write retries | collectors |
| Endpoint tailer (`zeroadr/endpoint/tailer.py`) | checkpoint file, position in the tailed file | start from the checkpoint, follow a JSONL file, persist each record, write the checkpoint | trace, store |
| BCC collector (`zeroadr/endpoint/collectors/linux_bcc.py`) | queues, drop counters, attached probes | callbacks, drain, cleanup | kernel |
| API and console (`zeroadr/api/`) | none of its own | read-only views, approval resolution, saving and testing the LLM settings | store, `llm-config.json` |

What is hard here: three asyncio tasks and several worker threads share the
proxy's tables without locks that span an await; timeouts race late answers
(drain, approval deadline, stale sweep, process exit); approvals are decided by
whichever of several processes comes first; two decisions are made for one call;
the evidence that a session is compromised is written by one thread and read by
another; the endpoint agent can be struck by a signal, an I/O error or a kill
between any two file operations, with a heartbeat thread writing the same status
file; the tailer reads lines that are still being written and can die between the
trace, the store and the checkpoint; the LLM settings are read, merged and replaced while reviewers and triages read
them, one of them twice.  `PROJECT.json` lists these places as hazards, each at its line.

What makes each part correct: the proxy answers every request once and in order,
never passes what the gate withholds, bounds what it holds, never misses a wakeup
and always exits; an approval is decided once, everybody is told that decision,
and it is audited once and truthfully; a failed review never becomes consent, a
shadow gate changes nothing, and a compromised session is restricted from the
moment the agent can have seen the evidence; the endpoint agent loses no captured
event silently, keeps the latest lines in order and in bounded files, and its
status file never claims more than is on disk and says how the agent ended; the
tailer skips no record, repeats few, and repetitions mislead no replay; a
provider gets its own key, no more requests than its client's retries, and a health
that counts its failures.

## Modules

| Module | Models | Used by |
| --- | --- | --- |
| `ApprovalDecision` | abstract: requested once, decided once, everybody told the same | refined by `ApprovalLifecycle` |
| `ApprovalLifecycle` | rows, gate records, audit events, waiters, resolvers, shutdown, failures | `MCApproval`, `ApprovalLifecycle_proofs` |
| `OrderedResponses` | abstract: a first-in first-out queue of requests, dropped at shutdown | refined by `StdioProxy` |
| `StdioProxy` | `run_stdio_proxy` | `MCStdioProxy`, `StdioProxy_proofs`, `StdioProxyFrames_proofs` |
| `RuntimeGates` | `evaluate`, Agent Input Gate, Tool Request Gate, Session Guard, Tool Result Gate, for the gateway and for hooks | `MCRuntimeGates`, `RuntimeGates_proofs` |
| `BccSession` | `BccCollectorSession.iter_records`: attach, poll, drain, yield, cleanup | extended by `EndpointAgent` |
| `EndpointAgent` | `run_endpoint_agent`, `stream_endpoint_records`: loop, rotation, retention, retries, status file, heartbeat thread | `MCEndpointAgent`, `EndpointAgent_proofs` |
| `SessionReplay` | what `ExternalDataExfiltrationDetector` finds in a trace | extended by `EndpointTail` |
| `EndpointTail` | `tail_endpoint_jsonl`: growing file, checkpoint, trace, store, failures, kills and restarts | `MCEndpointTail`, `EndpointTail_proofs` |
| `LlmService` | the configuration file and its edits, triages, connection tests, reviewers, their requests and retries, the provider's health | `MCLlmService`, `LlmService_proofs` |

The proxy, the gates and the approvals meet in two places.  `StdioProxy` takes the verdict on a call
or a result as an input; `RuntimeGates` is where verdicts come from.  Both take
the answer of a human as an input; `ApprovalLifecycle` is where it comes from.
The interface is one value each time (an action, a resolved status), so the
modules are checked apart.  The endpoint agent runs in a process of its own and
shares with them only the store; `EndpointAgent` composes its two halves, the
collector's generator and the loop that pulls from it.  `EndpointTail` is composed
with `SessionReplay`: what its trace is for is the replay.  `LlmService` is what is behind
the reviewers of `RuntimeGates`, whose verdicts and failures are inputs there.

### ApprovalLifecycle

The processes share only SQLite, so one action is one transaction:
`_transition_approval_request` (the guarded `UPDATE`), the insert of the row, the
insert of the gate record, the save of the audit event, the listing of a sweep.
`pc` says where each waiter (`wait_for_approval_resolution`) and each resolver
(a console or CLI request) stands; `Gateway` is the waiter that is the proxy's
server task, which also writes the outcome into the gate record.  Time is
abstract: `stale` holds rows past the sweep's cutoff and `late` the waiters past
their deadline, and either may happen at any time, in any order.  `ExpireError` is
the exception the waiter's `except Exception` swallows, `Crash` any other error or
death of a process, `ShutError` one in the shutdown's loop; all count against
`MaxFaults`.

### StdioProxy

An action is what one task does between two awaits, or what a worker thread does
while the event loop runs other tasks; `cpc`, `spc` and `main` are the program
counters of the client task, the server task and the main coroutine.  A round of
`flush_ordered_responses` is one action: `asyncio.Lock` does not yield when free,
and no task holds it across an await, so nothing comes between the pop and the
write; the loop yields between rounds.  `response_order` holds tickets (positions
in the client's input) where the code holds ids.  An id is in it at most once, so
the ticket determines the id, and the properties can tell successive uses of an id
apart; all other tables are keyed by id as in the code.  Frames are reduced to who
sent them, their size and whether they are the original or which error replaced
it.  An exception strikes a task where it works on a message (`ClientCrash`,
`ServerCrash`, `MaxFaults` in all), and `drain` raises in the client task once the
server is gone.  The environment answers each forwarded request once; what the server
sends besides are requests and notifications of its own.  `setup` is chosen at the start and never changes: the gate the policy file
configures, and the kinds of messages this proxy's client and server send.  `out`,
`popped`, `verdict`, `content` and `cleared` are history variables.

### RuntimeGates

One session.  `entry` says where its events come in, the gateway or hooks.  A hook is
a process per event (`HookRuntime.handle`): its coordinator has never seen a result,
so nothing it does is in `compromised`; a tool call goes through `evaluate` alone,
the agent's input through the Agent Input Gate alone, and a result is recorded after
the agent has it (`PostToolUse`).  `GateMode` is the mode of the gate a request comes
to, `"off"` for a hook's tool calls.  In the gateway `cpc` is the thread that inspects calls, `spc` the
thread that inspects results, `shadow` the background reviews.  A call is reduced
to how grave its findings are, whether it is risky (a risky or unknown capability,
or a sensitive file) and what the policy file says; a verdict to positive, positive
at exactly `min_confidence`, negative, unsure (or below `min_confidence`) and
failed.  `GateBegin`, `GateReview` and `GateEnd` are the three stretches of
`_review` around the reviewer's call, during which the other thread may set
`compromised`.  `GoQuiet` is the hour after which `_expire` drops the session.
The configuration (five modes, three review kinds, three actions) is the variable
`gates`, chosen from the constant `Policies` when the gateway starts and never
changed; one action for positive findings serves all gates, where the policy file
could give each its own.  What the resource limit does with a result is in
`StdioProxy` alone.  `exposed`, `warned` and `reviewed` are history variables.

### BccSession and EndpointAgent

`BccSession` has an action for each stretch of the generator: `Attach`, `BeginRound`,
`Poll` (the perf callbacks that run inside `perf_buffer_poll` fill the bounded queue
or count a drop), `Drain`, `Yield`, `BatchDone`, `EndRound`, `Finish`, `Cleanup`.  It
runs only while the loop is inside `next()`; `LinuxNext` takes its steps when `pc` is
`"next"` and adds the status notification each of them makes.  `MockNext` is the mock
collector.  An event is a pair of its probe and its number there.

`EndpointAgent` gives the main thread one step per file operation: each rename and
unlink of the rotation, the write, the flush, each unlink of the retention, the
store, the status.  `disk` holds the files (0 is active, `i` is the one named `.i`),
`buffer` what the file object still holds: a flush that fails keeps the line there,
and the retry writes it again, so a retried line can be on disk more than once.  The
main thread writes the status file in one step, the heartbeat thread in two
(`HeartbeatSnapshot` under the state lock, `HeartbeatWrite`), both under
`status_write_lock`, which is held exactly while `hpc = "write"`.  `recent` is the
throttle of `"running"` writes.  `Signal` strikes the try block, `Interrupt` where
nothing catches it, and any exception before the try block ends the run the same way,
with no status written; `BodyFails` and `GeneratorFails` are the exceptions inside it,
and the last step of the rotation, the reopening of the output, may end in one, too.
`AttachUnseen` is the generator that ends without
its `finally`, because the notification at the end of `attach()` comes before it.
`DropGenerator` is the garbage collection of a generator suspended at a `yield`, whose
cleanup publishes once more.  `Exit` and `Kill` end the process, and `Restart` starts
it again on the files that are there.  `log` (every line that got to the disk),
`base` (what had been captured when the process started) and `outcome` (how the run
ended) are history variables.  The pid file, the rendering of a record and the exact
contents of `health` are left out; a line counts one unit of size.  `Persist` is one step
here, trace line and row, and two in `EndpointTail`.  `HeartbeatSnapshot` joins the end of
the heartbeat's `wait()` with the taking of the lock, since the main thread cannot get
past `join()` between the two.

### EndpointTail and SessionReplay

The tailer and its collector share a file.  A position in it is a number of whole lines
and of parts of the next: the first half of its text, the rest, the newline, so that
`readline` can return half a record, which `json.loads` refuses (`ReadFails`), or a
record without its newline, which then comes as a blank line of its own (`ReadBlank`).
`WriteTrace`, `SaveEvent`, `OpenCheckpoint` and `WriteCheckpoint` are the file and
database operations in the order of the code; `write_text` truncates and then writes,
and a kill in between leaves a checkpoint file (`torn`) with which no start succeeds.
`SaveEvent` is `insert or replace`: the row of the same `event_id` goes and the new one
is the last.  The line of the trace is appended in one step: a kill that leaves half of it
is not modelled.  A record without an `event_id` gets a new one at each reading.  `keeps`
says whether a checkpoint file was configured.  An event keeps the number of its line,
by which the properties tell where it comes from.

`SessionReplay` is the sequence detector that a replay of the trace runs: every
sensitive read with every external connection whose position is later, where an
`event_id` has the position of its last occurrence.  What the detectors of single
events conclude is the kind of the event.

### LlmService

`file` is the content of `llm-config.json`, reduced to what decides where a request
goes and with what: URL, key, model and gate model.  An editor is one
`PUT /api/v0/llm/config`: `EditLoad` reads the file, `EditSave` replaces it by `Merge`
of what it read and its body, in one step (the rename), and `EditFails` is every
refusal, that to load the file included.  A caller is a thread or process with one call at a time, a record of where it
is (`pc`), for what (`kind`), with which environment and command line (`args`; each call
has its own, as console, gateway and command line are processes of their own), and with
which configuration (`conf`).  `Resolve` and
`ResolveGate` are the two reads of the file; reviewers keep `conf` for all their calls,
triages and tests resolve it anew.  `ProviderPost`, `AdjudicatorPost`, `StagePost` and
`ResultPost` are one request and what each client makes of the answer: three attempts
for what is transient, none more for an inline adjudication, one correction of output
that can be corrected, which is not the same output for the two reviewers.
`SaveAnalysis`, `ReadFailures`, `WriteFailures` and `RecordSuccess` are the store's
transactions; the read of the failure count is not part of the one that writes it.
`Leave` ends a process anywhere.  `versions`, `noted`, `streak` and `raced` are history
variables.  The numbers among the settings, prompts, payloads and token counts are left
out, and so are the counters of the reviewers and `ToolResultReviewCache`, which nothing
in the repository reads.

## Runs

Bounds are named constants.  They are small, but each is large enough for the
case it is there for.

| Run | Instance | Shows |
| --- | --- | --- |
| `approval` | 1 approval of a tool result, 2 waiters (one the gateway's), 1 resolver, shutdown, 1 failure, fairness | `IInv`, `OutcomeIsTheRow`, `AuditIsTruthful`, `ImplementsDecision`, `WaitEnds`; until something fails `PausedUntilResolved`, `RecordAgrees`; until a shutdown, too, `ResolutionIsAudited` |
| `proxy_enforce` | 3 requests over 3 ids, window 2, buffer of 1 frame, enforcing gate | `IInv` with types, window and drain event, `ResponsesRetainOrder`, `ResultsAreGatedWhileServing`, `OnlyPermittedForwarded`, `HeldResultsBounded`, `SlotWakeup`, `ImplementsOrder` |
| `proxy_modes` | 2 client messages and 1 failure under three setups: an enforcing gate and tool calls; a shadow gate with hybrid review, tool calls, 1 server message and the client's reply; no gate, other requests, notifications and calls without an id; fairness | `WireIsKept`, `ShutdownEnds`, `RequestsAnswered` |
| `endpoint_agent` | 2 probes, 2 events each, 1 restart, five configurations (mock and Linux; with and without heartbeat, ingestion, limit; rotation keeping 0 to 2 files, retention, 1 retry, queues of 1 and 2), fairness | `IInv`, `RetainedIsTheTail`, `FilesBounded`, `EventsAccounted`, `CaptureOrder`, `StatusIsCovered`, `FinalReport`, `FailureIsSeen`, `AgentStops` |
| `gates` | 2 calls or inputs in the gateway or through hooks, under three policies: everything enforced, rules only with a blocking guard, everything watching | `IInv`, `GuardHolds`, `ReviewFailsSafe`, `ShadowIsInert` |
| `endpoint_tail` | 3 lines of any kind, each appended in one to three pieces, 2 kills, with and without a checkpoint file, fairness | `NothingSkipped`, `ReplayIsStable`, `StoreFollowsTrace`, `RepeatsBounded`, `RecordsArrive` |
| `llm_service` | 2 callers, both triaging, one also testing the settings, the other with the three reviewers; 2 edits (another provider; a tuning or the removal of the key), with and without a file at the start and a URL on the command line; 3 triages, 1 correction; no environment variables | `IInv`, `OneProvider`, `KeyStaysHome`, `HealthIsExact` |

Three requests over three ids with a window of two is the least that has a full
window, a client task waiting for a slot, a reused id and an answer that is ready
before its turn; a buffer of one frame overflows with the second.  The clients of
`proxy_modes` send two messages, so nobody waits for a slot there; that the waiting
client task is woken is the safety property `SlotWakeup`.  Two waiters and a resolver
are the least with two sweeps and a human racing for one row; rows do not interact
but through the list of a sweep, which holds at most this one, so a second approval
would repeat the first.  Two calls let the first result taint the session while the
second call is being reviewed or before it is made; the theorems about the gates
cover any number of calls and any set of policies.  Two probes with two events each
fill a queue of one, make a batch of two, rotate a file and move an older one; a
restart finds files an interrupted rotation or a kill has left.  The five
configurations of `MCEndpointAgent` are chosen so that each feature meets the ones it
shares state with; their product would add states and no new meeting.  Two triages at a
time are the least whose records race, three in all reach the threshold of
`unhealthy`, and two edits are the least of which one can undo the other.  Three lines
are the least with a sensitive read, a connection and a line between, before or after
them that is blank, malformed or another read; with two kills a line can be in the
trace three times.  Without a checkpoint file every start reads everything again, so
there `MaxTrace` bounds the starts; with one the trace is bounded by `RepeatsBounded`.

Deadlock is not checked but in `llm_service`: the client may stop sending, a call may
end for good, the proxy and the endpoint agent exit, and the tailer may find nothing
more to read.

Five runs expect a violation.  Each shows one place where the code does not do
what a document of the repository says; `findings` in `PROJECT.json` quotes the
lines.

| Run | What TLC finds |
| --- | --- |
| `proxy_drain_bypass` | after a drain timeout a result that the gate blocks is written to the client |
| `proxy_client_reply` | a client's reply to the server blocks the order for good |
| `gates_guard_background` | a shadow hybrid result gate lets the agent act before the evidence is recorded |
| `gates_guard_shadow` | a shadow guard cancels the approval after a failed review |
| `endpoint_end_overwritten` | after a signal or an error the cleanup of the suspended generator replaces the final status by one that says `running` |

The weaker properties that do hold are checked next to them:
`ResultsAreGatedWhileServing` (until the drain times out), `RequestsAnswered` (`EveryRequestAnswered`
where the client sends no replies), `GuardHolds` (`GuardRestricts` where
`GuardInForce`), `ReviewFailsSafe` (`DoubtIsApproved` where `ReviewInForce`),
`FinalReport` (all other ends) and `FailureIsSeen` (`last_error` survives in the
status that says `running`, so a failed agent still reads unhealthy).

Some limits of the code are in the conditions of the properties instead:

- `ResolutionIsAudited` ends with a shutdown, whose expiries go through
  `mark_approval_expired` and write no `approval.resolved` event.
- `PausedUntilResolved` ends with a failure: an error at the deadline makes
  `wait_for_approval_resolution` return a row that is still pending.
- `ResponsesRetainOrder`, `WireIsKept` and `ResultsAreGatedWhileServing` are checked,
  and proved, with disjoint ids of client and server; the proxy keeps one table for
  both, so a server request with an in-flight id of the client would be taken for its
  response.
- `GuardInForce` asks for an enforcing Tool Request Gate: without one the guard is never
  consulted. It also asks for the gateway: a hook gives a tool call to neither gate nor
  guard, and `GuardHolds` and `ReviewFailsSafe` leave these calls out, although
  `README.md:53` says that the coordinator "provides the same gate semantics to MCP and
  supported hook paths".
- `FilesBounded` allows `retry_count` lines more than `rotate_bytes`: a flush that
  fails leaves its copy of the line in the buffer.
- `EventsAccounted` ends with the loop: what is in a queue or a batch when the agent
  stops is dropped uncounted.
- `StatusIsCovered` is an inequality: a line is on disk before it is counted.
- `ReplayIsStable`, `RepeatsBounded` and the order of `StoreFollowsTrace` ask for a
  checkpoint file.  Without one a restart ingests everything again; an `event_id` then
  has its last position in the trace, so a replay can miss a read that came before a
  connection, or find the pair reversed.
- `RecordsArrive` excuses a checkpoint file that a kill left empty, with which nothing
  starts until somebody removes it, and a line before the record that is refused, at
  which every start fails.
- `line_number` counts records, not lines; it differs from the file's line number as
  soon as there is a blank line.  No property reads it.
- Nothing is locked between load and save of a settings request, so of two that overlap
  the later save undoes the other: a key that was replaced or cleared comes back.
  `KeyStaysHome` is what holds nevertheless: a request is lost as a whole, and no key
  gets beside the URL of another. It asks that every settings request that sends a key
  sends its URL, and the other way round (`Paired`); one that moves the URL alone keeps
  the saved key, as the code means it. It speaks of calls that take both from the file.
- `HealthIsExact` ends when two analyses are between store and record at once, or one
  never gets from one to the other: two failures may then count once, and a success may
  be undone.  It holds again from the next completed analysis that is stored alone, the
  failures that raced notwithstanding.  What holds throughout is in `IInv`: no failure is
  counted that was not recorded since the last success that met no other record
  (`FailuresEarned`), so three failures are behind every `unhealthy`.
- `ShutdownEnds` starts when the client task is over, by the client's EOF or by an
  exception, be it of a reviewer.  A client task that waits for a slot of a dead server
  never gets there.
- `OneProvider` says nothing of the model: that of a reviewer may be the gate model of
  a later content of the file than its URL and key.  It is about the file: a `--base-url`
  may still meet the key of the file.
- `ReviewFailsSafe` says that a human is asked, not that a policy block stays one:
  an approval demanded by the Tool Request Gate replaces any decision of `evaluate`.

### Fairness

- `ApprovalLifecycle!FairSpec`: a call that runs keeps running, and a running
  waiter's deadline comes.  Nobody is obliged to resolve anything.
- `StdioProxy!FairSpec`: each task takes the steps it can (the event loop is fair
  and worker threads return: reviewers and approval waits have timeouts, see
  `WaitEnds`), the timeouts of the main coroutine fire, and a server that was told
  to terminate does.  Client and server owe nothing.
- `EndpointAgent!Spec`: once the loop is over the main thread goes on with the
  `finally` block, and the heartbeat thread finishes a write it has begun and sees
  `heartbeat_stop`; both are running threads of one process, and `JoinHeartbeat` and
  `FinalStatus` are enabled only when the other thread lets them.  Nothing obliges
  the loop, the probes or the next heartbeat to do anything.
- `EndpointTail!Spec`: a tailer that runs and can go on does; `StopIdle`, kills and the
  collector are free.  `Restarted`, that somebody starts it again whenever it has
  ended, is a hypothesis of `RecordsArrive` alone; the command line does not do that.
- `ServerAnswers`, that the server answers what it was asked, is a hypothesis of
  `EveryRequestAnswered` and of nothing else.

## Proofs

All theorems hold for every value of the constants that satisfies the named
assumptions `ConstantsAssumption`, `FaultsAssumption`, `ShutdownsAssumption`
(`ApprovalLifecycle`), `ProxyAssumption` (`StdioProxy`), `GatesAssumption`
(`RuntimeGates`), `EventsAssumption`, `OrderAssumption` (`BccSession`),
`ConfigAssumption`, `RestartAssumption` (`EndpointAgent`), `TailAssumption`
(`EndpointTail`) and `ServiceAssumption` (`LlmService`).  These only give the
constants their types, keep waiters, resolvers and null values apart, and name each
probe once in the order of the probes.

- **`ApprovalLifecycle_proofs`.**  The invariant `IInv` adds to the properties who
  may be where (`CallInv`), that a row exists once it has been saved (`RowInv`),
  that whoever won a transition and has not audited it yet won it for the status
  the row has now (`WinnerInv`), and that there is one such winner and nothing is
  audited before (`AuditInv`).  `AuditIsTruthful` is not inductive without the
  last two: the audit is a later transaction than the transition.  From `IInv`
  follow `TypeCorrect`, `OutcomeCorrect`, `AuditCorrect`, the action property
  `ResolutionIsFinal`, and `LifecycleImplementsDecision`, the refinement of
  `ApprovalDecision` under the mapping at the end of `ApprovalLifecycle`.
  `PausedUntilResolved` and `RecordAgrees` need one more fact, `Calm`: until
  something fails a waiter reads its row again only when somebody else has resolved
  it, so that it never hands on `pending`, and the shutdown finalizes what it has
  expired itself.  `PauseCorrect`, `RecordCorrect` and `ResolutionAuditCorrect`
  conclude; `FaultStep` and `FinalStep` carry them through every other step.
- **`StdioProxy_proofs`.**  `IInv` is `TypeOK`, where each task may be and with
  which message (`PositionInv`), that slots belong to requests with an id
  (`SlotInv`), that everything that ever had a slot is older than the message that
  will get the next one (`OrderInv`), and the window, wakeup and drain properties,
  which need each other: the client task does not check the window again when it
  is woken, so `WindowBounded` rests on `SlotWakeup`.  `ProxyImplementsOrder` is
  the refinement of `OrderedResponses`; `OrderedResponses_proofs` proves what that
  abstract queue promises.  `PermitCorrect` has an invariant of its own beside
  `IInv`: `PermitInv` says that the server neither has nor has answered the message
  the client task is still deciding about, so that a verdict is never given late.
- **`StdioProxyFrames_proofs`.**  What is written to the client.  Two invariants hold for
  all ids: `BufferInv`, that the bytes held of tool results are within the limit, and still
  are with the frame the server task is about to store (`Fits`), from which
  `BufferCorrect` concludes `HeldResultsBounded`; and `ShadowInv`, that without an
  enforcing gate no table and no written frame has an error in the place of a result
  (`ShadowCorrect`).  Three theorems have the hypothesis `Disjoint`, that client and
  server use different ids, as the runs do: `server_responses` has one entry for an id
  whoever asked with it, so a collision can replace an answer.  `FrameInv` is behind the
  order: what the tasks rely on for the message they hold (`TaskInv`), and (`Frames`)
  that `response_order` is sorted by age and free of duplicates, the tables file each
  answer under the id of its request, an answer is in one place at a time (client task,
  server, server task, either table) and its ticket is queued while it is, and what is
  written is in sequence, older than what is queued and held nowhere any more.
  `RetainOrderCorrect` concludes `ResponsesRetainOrder`, and with `ShadowCorrect`
  `WireCorrect` concludes `WireIsKept`.  `GateInv` follows a result through an enforcing
  gate: its call stays in `pending` from the forwarding to the inspection
  (`Remembered`), an inspection that allows it found it harmless or approved (`Judged`),
  and so it is for every original text in the tables and, before the drain timed out,
  on the wire (`Passed`); `GateCorrect` concludes `ResultsAreGatedWhileServing`.
- **`RuntimeGates_proofs`.**  `IInv` is inductive for every set of policies.
  `GuardInv` follows the evidence: it is in the session before the result is
  delivered (`spc = "deliver"`), stays there as long as the session does, is seen
  by the next call when its review begins, and fixes the decision when it ends.
  `ReviewInv` follows a doubtful review from the reviewer's answer to the decision,
  `ShadowInv` says that the decision is still the policy's, and that an input, which
  `evaluate` never sees, counts as allowed by it.  Which gate is in force depends on
  the request, so a new request must establish `ReviewInv` and `ShadowInv` whatever
  held before; every other step keeps the request (`SameGate`).  `GuardCorrect`,
  `ReviewCorrect` and `ShadowCorrect` conclude `GuardHolds`, `ReviewFailsSafe` and
  `ShadowIsInert`.
- **`EndpointAgent_proofs`.**  `IInv` says, besides the types, what is under way when
  (`IdleInv`), how the generator's limit keeps pace with the loop's, so that a normal
  end leaves no suspended generator (`SourceInv`), that the heartbeat thread is gone
  before the final status (`BeatInv`), that the status file holds that final status
  (`ReportInv`), and how much the file object can still add to the active file
  (`BufferInv`).  `FilesBounded` is not inductive without the last: after a failed
  flush the lines in the buffer get to the disk at the next flush, at the close or
  at the exit.  `FinalReport` rests on `SourceInv` and `BeatInv`: the two that could
  overwrite the status are the heartbeat thread and the generator.  There is one
  lemma per action; `FilesCorrect`, `FailureCorrect` and `FinalCorrect` conclude.
  The other four safety properties have an invariant each, inductive beside `IInv`.
  `TailInv` is `RetainedIsTheTail` line by line and `RotInv`: inside the rotation the
  file that the next rename would overwrite is gone.  An empty piece can be cut off at
  the old end and an empty file filled from its newer neighbour; no other file operation
  occurs (`TailCut`, `TailMoved`), and a flush lengthens the newest piece and the log
  alike (`TailSpilled`).  `FlowInv` is behind `CaptureOrder`: queue, batch, hand, store
  and log of a probe follow each other in the order of capture, strictly but for the
  copies that a retry makes of the record in hand, and nothing is in them that was not
  captured.  All steps but those that hand an event on (`FlowPolled`, `FlowDrained`,
  `FlowYielded`, `FlowMocked`) are instances of `FlowKept`.  `CoverInv` says of the
  counters and of the snapshot in the hands of the heartbeat thread what
  `StatusIsCovered` says of the file, and that where a counter is about to go up its
  cover is there (`Ahead`); that the store grows with every record it is given follows
  from `FlowInv`.  `AccountInv` is behind `EventsAccounted`: the hand is empty while the
  generator runs and holds a logged record once flushed (`HandInv`), the batch is empty
  before it is filled and the loop is not ahead of the generator (`PaceInv`), what was
  counted as dropped is nowhere (`DropInv`), and everything captured is somewhere
  (`SeenInv`).  `TailCorrect`, `CaptureCorrect`, `CoverCorrect` and `AccountCorrect`
  conclude, for any number of kept files, any sizes of queue and poll, any limit, and
  any number of restarts.
- **`EndpointTail_proofs`.**  `IInv` says where positions can be (`InFile`: never in
  the middle of a record), that events are of their lines, that the line in hand is
  the last one behind the reader (`InHand`), that all others are persisted
  (`Persisted`), that with a checkpoint file the reader is ahead of the checkpoint by
  the line in hand at most, and the trace by one record at most (`Abreast`), that the
  trace follows the lines (`Ordered`), and that a line in the trace ahead of the
  checkpoint is one kill's worth of repetition to come (`Counted`).  `RepeatsBounded`
  is not inductive without `Abreast`: only because the repeated line is the next
  record can a restart repeat no more than that one.  `ReplayIsStable` follows from
  `Ordered`: the repetitions of a line are next to each other, so that the last
  position of an `event_id` is before that of another exactly when the lines are.
- **`LlmService_proofs`.**  `IInv` is the types, what a caller may be where it stands
  (`Standing`) and how often it has asked (`Requests`), `OneProvider`, `FailuresEarned`
  and `HealthInv`.  `OneProvider` is inductive because contents are only added to
  `versions` and the second read of a gate touches the model alone.  `HealthIsExact`
  is not: `HealthInv` adds that, until a race, at most one triage is between store and
  record, that the count lags behind by that one, and that what it has read is still
  the count; it is established again when a completed analysis is stored alone.  A step of a caller replaces one record, so that `StepKeeps` reduces all
  steps before the store to that record being `Proper`.  `KeyStaysHome` rests on
  `HomeInv`: the contents of the file pair a key with its URL, and so does what each
  editor has loaded; what a caller has resolved follows by `OneProvider`.
  `ProviderIsOne`, `HealthExact` and `KeyHome` conclude.

Only model-checked: the liveness properties `WaitEnds`, `ShutdownEnds`,
`RequestsAnswered`, `AgentStops` and `RecordsArrive`, since fairness and `ENABLED` are
out of the prover's reach.  Every safety property of a passing run is also a theorem.

## Not modelled

- The framing of JSON-RPC messages, the text of errors, redaction, the payload
  formats of the hooks' clients: input and output without decisions.
- The detectors of single events, the capability mapper, the matching of policy rules
  and the prompts: lists of patterns whose conclusions are inputs.
- Reconstruction, correlation, the process tree and the Agent-BOM: single passes over
  what is stored, without state; a model of them would be the same code once more.
- Rotation and truncation of the tailed file: `tail_endpoint_jsonl` does not notice
  them, and no document says that it should.
- The saved policy decisions and runtime gate records: nothing that decides reads them.
- The durations of timeouts: every order of events that some durations allow is
  explored, so a claim that compares durations cannot be stated.
- Calibration, dogfooding, the read-only API views, the console and the command
  line.

## Plan

Done: the proxy, the approvals, the decisions of the gates for gateway and hooks, the
endpoint agent with its collector, the tailer with the replay of its trace, the LLM
configuration with the calls that use it, and their proofs.  Next, in this order:

1. Proofs: the safety half of the liveness arguments, that the main coroutine of the
   proxy and the ending of the endpoint agent are never stuck (the measure that falls
   with each of their steps).
2. A composition of `RuntimeGates` and `StdioProxy` over the interface named above.
3. The injection-chain detector in `SessionReplay`, next to the exfiltration detector,
   and traces that several sessions write to.
