-------------------------- MODULE ApprovalLifecycle -------------------------
(***************************************************************************)
(* The life of an approval request: the gateway saves it (and, for a tool  *)
(* result, its gate record), waiters poll it, the console and the command  *)
(* line resolve it, every poll and every console request first expires     *)
(* stale requests, and a gateway that shuts down expires what it leaves    *)
(* pending.  All of these are different threads or processes that meet     *)
(* only in one SQLite file, so one action is one SQLite transaction.       *)
(*                                                                         *)
(* Time is abstract: stale holds the requests older than the cutoff of     *)
(* expire_stale_pending_approvals, late the waiters past their deadline.   *)
(***************************************************************************)
EXTENDS Naturals

CONSTANTS Approvals,        \* approval ids (ULIDs, never reused)
          ResultApprovals,  \* those with stage = "tool_result"
          Waiters,          \* callers of wait_for_approval_resolution
          Gateway,          \* the waiter that is the proxy's server task
          Resolvers,        \* console and CLI requests, one per element
          Shutdowns,        \* TRUE iff the gateway may shut down
          MaxFaults,        \* bound on failed SQLite calls and crashes
          Nobody            \* stands for None where an approval is expected

ASSUME ConstantsAssumption ==
  /\ ResultApprovals \subseteq Approvals
  /\ Gateway \in Waiters
  /\ Waiters \cap Resolvers = {}
  /\ Nobody \notin Approvals

ASSUME FaultsAssumption == MaxFaults \in Nat

ASSUME ShutdownsAssumption == Shutdowns \in BOOLEAN

VARIABLES
  status,    \* approval_requests.status of the row, "absent" before it exists
  made,      \* how far the thread that creates the approval has come
  record,    \* approval_status of its ToolResultGateRecord
  audits,    \* audits[a]: approval.resolved events <<who, status>> of a
  stale,     \* pending rows older than max_age_seconds
  late,      \* waiters whose deadline has passed
  pc,        \* where each waiter and resolver is
  target,    \* the approval it was called for
  want,      \* what a resolver asks for
  sweeps,    \* calls of expire_stale_pending_approvals it has yet to make
  todo,      \* stale rows of the list its sweep is walking through
  cur,       \* the row it has just expired and not yet audited
  outcome,   \* status it returned to its caller
  shut,      \* where the gateway's shutdown is
  shutRecs,  \* approvals with a gate record when the shutdown listed them
  shutTodo,  \* pending tool-result approvals it has still to expire
  shutCur,   \* the one whose record it is about to finalize
  faults     \* failures so far

rowVars == <<status, made, record, audits>>
timeVars == <<stale, late>>
callVars == <<pc, target, want, sweeps, todo, cur, outcome>>
shutVars == <<shut, shutRecs, shutTodo, shutCur>>
vars == <<rowVars, timeVars, callVars, shutVars, faults>>

Procs == Waiters \cup Resolvers
Resolved == {"approved", "denied", "expired"}
NoOutcome == "unanswered"

Idle == {"idle"}
Ended == {"done", "failed"}
Running == {"list", "sweep", "sweepAudit", "get", "expire", "expireAudit",
            "reread", "finalize", "resolve", "resolveAudit"}

Init ==
  /\ status = [a \in Approvals |-> "absent"]
  /\ made = [a \in Approvals |-> "no"]
  /\ record = [a \in Approvals |-> "none"]
  /\ audits = [a \in Approvals |-> {}]
  /\ stale = {}
  /\ late = {}
  /\ pc = [p \in Procs |-> "idle"]
  /\ target = [p \in Procs |-> Nobody]
  /\ want = [p \in Procs |-> "none"]
  /\ sweeps = [p \in Procs |-> 0]
  /\ todo = [p \in Procs |-> {}]
  /\ cur = [p \in Procs |-> Nobody]
  /\ outcome = [p \in Procs |-> NoOutcome]
  /\ shut = "idle"
  /\ shutRecs = {}
  /\ shutTodo = {}
  /\ shutCur = Nobody
  /\ faults = 0

-----------------------------------------------------------------------------
(* The store.                                                              *)

\* A broken transition that forgets the status = 'pending' condition.
UnguardedUpdate(a) == status[a] # "absent"

\* The condition of the UPDATE in _transition_approval_request: rowcount is 1
\* exactly when it holds, and no other transaction comes in between.
StillPending(a) == status[a] = "pending"

\* The rows expire_stale_pending_approvals decides to expire, as it lists them.
StalePending == {a \in stale : status[a] = "pending"}

\* save_approval_request: the row is written in a transaction of its own; a
\* tool result's gate record follows in another.
SaveApproval(a) ==
  /\ made[a] = "no"
  /\ status' = [status EXCEPT ![a] = "pending"]
  /\ made' = [made EXCEPT ![a] = IF a \in ResultApprovals THEN "saved" ELSE "ready"]
  /\ UNCHANGED <<record, audits, timeVars, callVars, shutVars, faults>>

SaveRecord(a) ==
  /\ made[a] = "saved"
  /\ record' = [record EXCEPT ![a] = "pending"]
  /\ made' = [made EXCEPT ![a] = "ready"]
  /\ UNCHANGED <<status, audits, timeVars, callVars, shutVars, faults>>

\* An audit trail of human resolutions only.
AuditHumansOnly(p, a, s) ==
  audits' = IF p \in Resolvers THEN [audits EXCEPT ![a] = @ \cup {<<p, s>>}] ELSE audits

\* record_approval_resolution on behalf of p.
Audit(p, a, s) == audits' = [audits EXCEPT ![a] = @ \cup {<<p, s>>}]

Goto(p, label) == pc' = [pc EXCEPT ![p] = label]

-----------------------------------------------------------------------------
(* expire_stale_pending_approvals, called by waiters and by resolvers.     *)

SweepList(p) ==
  /\ pc[p] = "list"
  /\ todo' = [todo EXCEPT ![p] = StalePending]
  /\ Goto(p, "sweep")
  /\ UNCHANGED <<rowVars, timeVars, target, want, sweeps, cur, outcome, shutVars, faults>>

\* mark_approval_expired on the next listed row; a row resolved since the list
\* was read raises ApprovalAlreadyResolvedError, which the loop swallows.
SweepExpire(p, a) ==
  /\ pc[p] = "sweep"
  /\ a \in todo[p]
  /\ todo' = [todo EXCEPT ![p] = @ \ {a}]
  /\ \/ /\ StillPending(a)
        /\ status' = [status EXCEPT ![a] = "expired"]
        /\ cur' = [cur EXCEPT ![p] = a]
        /\ Goto(p, "sweepAudit")
     \/ /\ ~StillPending(a)
        /\ UNCHANGED <<status, cur, pc>>
  /\ UNCHANGED <<made, record, audits, timeVars, target, want, sweeps, outcome,
                 shutVars, faults>>

SweepAudit(p) ==
  /\ pc[p] = "sweepAudit"
  /\ Audit(p, cur[p], "expired")
  /\ cur' = [cur EXCEPT ![p] = Nobody]
  /\ Goto(p, "sweep")
  /\ UNCHANGED <<status, made, record, timeVars, target, want, sweeps, todo, outcome,
                 shutVars, faults>>

\* The sweep is over: a waiter reads its row; a resolver sweeps again with the
\* default cutoff, resolves, or (a listing) has nothing more to change.
SweepDone(p) ==
  /\ pc[p] = "sweep"
  /\ todo[p] = {}
  /\ \/ /\ p \in Waiters
        /\ Goto(p, "get")
        /\ UNCHANGED sweeps
     \/ /\ p \in Resolvers
        /\ sweeps[p] > 1
        /\ sweeps' = [sweeps EXCEPT ![p] = @ - 1]
        /\ Goto(p, "list")
     \/ /\ p \in Resolvers
        /\ sweeps[p] = 1
        /\ sweeps' = [sweeps EXCEPT ![p] = 0]
        /\ Goto(p, IF want[p] = "listing" THEN "done" ELSE "resolve")
  /\ UNCHANGED <<rowVars, timeVars, target, want, todo, cur, outcome, shutVars, faults>>

-----------------------------------------------------------------------------
(* wait_for_approval_resolution.                                           *)

\* The proxy's server task waits on the tool-result approval it has just made;
\* its client task and the hook commands on any approval id.
StartWait(w, a) ==
  /\ pc[w] = "idle"
  /\ w = Gateway => a \in ResultApprovals /\ made[a] = "ready" /\ shut = "idle"
  /\ target' = [target EXCEPT ![w] = a]
  /\ Goto(w, "list")
  /\ UNCHANGED <<rowVars, timeVars, want, sweeps, todo, cur, outcome, shutVars, faults>>

\* Hand the outcome to the caller; the server task still has to write it into
\* the gate record.
Return(w, s) ==
  /\ outcome' = [outcome EXCEPT ![w] = s]
  /\ Goto(w, IF w = Gateway THEN "finalize" ELSE "done")

\* A loop that never looks at the clock.
NeverLate(w) == FALSE

\* time.monotonic() >= deadline
PastDeadline(w) == w \in late

\* get_approval_request: KeyError for an unknown id, return when resolved,
\* expire when the deadline has passed, sleep and poll again otherwise.
Poll(w) ==
  /\ pc[w] = "get"
  /\ \/ /\ status[target[w]] = "absent"
        /\ Goto(w, "failed")
        /\ UNCHANGED outcome
     \/ /\ status[target[w]] # "absent"
        /\ ~StillPending(target[w])
        /\ Return(w, status[target[w]])
     \/ /\ StillPending(target[w])
        /\ PastDeadline(w)
        /\ Goto(w, "expire")
        /\ UNCHANGED outcome
     \/ /\ StillPending(target[w])
        /\ ~PastDeadline(w)
        /\ Goto(w, "list")
        /\ UNCHANGED outcome
  /\ UNCHANGED <<rowVars, timeVars, target, want, sweeps, todo, cur, shutVars, faults>>

\* A deadline that leaves the expiry to somebody's sweep.
LeaveToSweep(w) ==
  /\ pc[w] = "expire"
  /\ Goto(w, "reread")
  /\ UNCHANGED <<rowVars, timeVars, target, want, sweeps, todo, cur, outcome, shutVars,
                 faults>>

\* mark_approval_expired_with_audit, first transaction; when the row has been
\* resolved since it was read the except clause reads it again.
WaiterExpire(w) ==
  /\ pc[w] = "expire"
  /\ \/ /\ StillPending(target[w])
        /\ status' = [status EXCEPT ![target[w]] = "expired"]
        /\ Goto(w, "expireAudit")
     \/ /\ ~StillPending(target[w])
        /\ UNCHANGED status
        /\ Goto(w, "reread")
  /\ UNCHANGED <<made, record, audits, timeVars, target, want, sweeps, todo, cur, outcome,
                 shutVars, faults>>

WaiterAudit(w) ==
  /\ pc[w] = "expireAudit"
  /\ Audit(w, target[w], "expired")
  /\ Return(w, "expired")
  /\ UNCHANGED <<status, made, record, timeVars, target, want, sweeps, todo, cur, shutVars,
                 faults>>

\* An except clause that reports an expiry without looking.
AssumeExpired(w) == "expired"

\* The status the except clause reports: the row as it is now.
RereadStatus(w) == status[target[w]]

Reread(w) ==
  /\ pc[w] = "reread"
  /\ Return(w, RereadStatus(w))
  /\ UNCHANGED <<rowVars, timeVars, target, want, sweeps, todo, cur, shutVars, faults>>

\* finalize_tool_result_approval: any status but the three final ones counts
\* as denied.  The task is cancelled once the gateway has shut down.
Finalize(w) ==
  /\ pc[w] = "finalize"
  /\ shut = "idle"
  /\ record' = [record EXCEPT ![target[w]] =
                  IF outcome[w] \in Resolved THEN outcome[w] ELSE "denied"]
  /\ Goto(w, "done")
  /\ UNCHANGED <<status, made, audits, timeVars, target, want, sweeps, todo, cur, outcome,
                 shutVars, faults>>

-----------------------------------------------------------------------------
(* Console and command line.                                               *)

\* A listing or detail request with a configured max age sweeps once; a
\* resolution sweeps with that max age, if there is one, and then with the
\* default.
StartRequest(r) ==
  /\ pc[r] = "idle"
  /\ \E a \in Approvals, s \in {"approved", "denied", "listing"} :
       /\ target' = [target EXCEPT ![r] = a]
       /\ want' = [want EXCEPT ![r] = s]
       /\ \E n \in (IF s = "listing" THEN {1} ELSE {1, 2}) :
            sweeps' = [sweeps EXCEPT ![r] = n]
  /\ Goto(r, "list")
  /\ UNCHANGED <<rowVars, timeVars, todo, cur, outcome, shutVars, faults>>

\* resolve_approval_request: 404 for an unknown id, 409 when already resolved.
Resolve(r) ==
  /\ pc[r] = "resolve"
  /\ \/ /\ StillPending(target[r])
        /\ status' = [status EXCEPT ![target[r]] = want[r]]
        /\ Goto(r, "resolveAudit")
     \/ /\ ~StillPending(target[r])
        /\ UNCHANGED status
        /\ Goto(r, "done")
  /\ UNCHANGED <<made, record, audits, timeVars, target, want, sweeps, todo, cur, outcome,
                 shutVars, faults>>

ResolveAudit(r) ==
  /\ pc[r] = "resolveAudit"
  /\ Audit(r, target[r], want[r])
  /\ outcome' = [outcome EXCEPT ![r] = want[r]]
  /\ Goto(r, "done")
  /\ UNCHANGED <<status, made, record, timeVars, target, want, sweeps, todo, cur, shutVars,
                 faults>>

-----------------------------------------------------------------------------
(* expire_pending_tool_result_approvals, in the finally clause of the      *)
(* proxy.  It expires without an audit event.                              *)

ShutRecords ==
  /\ Shutdowns
  /\ shut = "idle"
  /\ shut' = "list"
  /\ shutRecs' = {a \in Approvals : record[a] # "none"}
  /\ UNCHANGED <<rowVars, timeVars, callVars, shutTodo, shutCur, faults>>

ShutList ==
  /\ shut = "list"
  /\ shut' = "loop"
  /\ shutTodo' = {a \in ResultApprovals : status[a] = "pending"}
  /\ UNCHANGED <<rowVars, timeVars, callVars, shutRecs, shutCur, faults>>

ShutExpire(a) ==
  /\ shut = "loop"
  /\ a \in shutTodo
  /\ shutTodo' = shutTodo \ {a}
  /\ \/ /\ StillPending(a)
        /\ status' = [status EXCEPT ![a] = "expired"]
        /\ \/ a \in shutRecs /\ shut' = "finalize" /\ shutCur' = a
           \/ a \notin shutRecs /\ UNCHANGED <<shut, shutCur>>
     \/ ~StillPending(a) /\ UNCHANGED <<status, shut, shutCur>>
  /\ UNCHANGED <<made, record, audits, timeVars, callVars, shutRecs, faults>>

ShutFinalize ==
  /\ shut = "finalize"
  /\ record' = [record EXCEPT ![shutCur] = "expired"]
  /\ shut' = "loop"
  /\ shutCur' = Nobody
  /\ UNCHANGED <<status, made, audits, timeVars, callVars, shutRecs, shutTodo, faults>>

ShutDone ==
  /\ shut = "loop"
  /\ shutTodo = {}
  /\ shut' = "done"
  /\ UNCHANGED <<rowVars, timeVars, callVars, shutRecs, shutTodo, shutCur, faults>>

-----------------------------------------------------------------------------
(* Time and failures.                                                      *)

Age(a) ==
  /\ status[a] = "pending"
  /\ a \notin stale
  /\ stale' = stale \cup {a}
  /\ UNCHANGED <<rowVars, late, callVars, shutVars, faults>>

Late(w) ==
  /\ pc[w] \in Running
  /\ w \notin late
  /\ late' = late \cup {w}
  /\ UNCHANGED <<rowVars, stale, callVars, shutVars, faults>>

\* A SQLite or trace-file error while a waiter expires or audits its own
\* request: except Exception, then read the row again.
ExpireError(w) ==
  /\ pc[w] \in {"expire", "expireAudit"}
  /\ faults < MaxFaults
  /\ faults' = faults + 1
  /\ Goto(w, "reread")
  /\ UNCHANGED <<rowVars, timeVars, target, want, sweeps, todo, cur, outcome, shutVars>>

\* Any other error, or the death of the process, ends the call where it is.
Crash(p) ==
  /\ pc[p] \in Running
  /\ faults < MaxFaults
  /\ faults' = faults + 1
  /\ Goto(p, "failed")
  /\ UNCHANGED <<rowVars, timeVars, target, want, sweeps, todo, cur, outcome, shutVars>>

\* The shutdown skips an approval it fails on; a failed listing, or the death
\* of the process, ends it where it is.
ShutError ==
  /\ faults < MaxFaults
  /\ faults' = faults + 1
  /\ \/ /\ shut = "loop"
        /\ \E a \in shutTodo : shutTodo' = shutTodo \ {a}
        /\ UNCHANGED <<shut, shutCur>>
     \/ /\ shut = "finalize"
        /\ shut' = "loop" /\ shutCur' = Nobody
        /\ UNCHANGED shutTodo
     \/ /\ shut \in {"list", "loop", "finalize"}
        /\ shut' = "done"
        /\ UNCHANGED <<shutTodo, shutCur>>
  /\ UNCHANGED <<rowVars, timeVars, callVars, shutRecs>>

-----------------------------------------------------------------------------
SweepStep(p) ==
  \/ SweepList(p)
  \/ \E a \in Approvals : SweepExpire(p, a)
  \/ SweepAudit(p)
  \/ SweepDone(p)

WaiterStep(w) ==
  \/ SweepStep(w)
  \/ Poll(w)
  \/ WaiterExpire(w)
  \/ WaiterAudit(w)
  \/ Reread(w)
  \/ Finalize(w)

ResolverStep(r) ==
  \/ SweepStep(r)
  \/ Resolve(r)
  \/ ResolveAudit(r)

ShutdownStep ==
  \/ ShutRecords
  \/ ShutList
  \/ \E a \in Approvals : ShutExpire(a)
  \/ ShutFinalize
  \/ ShutDone

Next ==
  \/ \E a \in Approvals : SaveApproval(a) \/ SaveRecord(a) \/ Age(a)
  \/ \E w \in Waiters : WaiterStep(w) \/ Late(w) \/ ExpireError(w)
  \/ \E w \in Waiters, a \in Approvals : StartWait(w, a)
  \/ \E r \in Resolvers : StartRequest(r) \/ ResolverStep(r)
  \/ \E p \in Procs : Crash(p)
  \/ ShutdownStep \/ ShutError

Spec == Init /\ [][Next]_vars

\* A started call keeps running until it returns, and time passes: neither
\* requests, nor resolutions, nor shutdowns are owed to anyone.
FairSpec ==
  /\ Spec
  /\ \A w \in Waiters : WF_vars(WaiterStep(w)) /\ WF_vars(Late(w))
  /\ \A r \in Resolvers : WF_vars(ResolverStep(r))

-----------------------------------------------------------------------------
(* Properties.                                                             *)

TypeOK ==
  /\ status \in [Approvals -> Resolved \cup {"absent", "pending"}]
  /\ made \in [Approvals -> {"no", "saved", "ready"}]
  /\ record \in [Approvals -> Resolved \cup {"none", "pending"}]
  /\ audits \in [Approvals -> SUBSET (Procs \X Resolved)]
  /\ stale \subseteq Approvals
  /\ late \subseteq Waiters
  /\ pc \in [Procs -> Idle \cup Running \cup Ended]
  /\ target \in [Procs -> Approvals \cup {Nobody}]
  /\ want \in [Procs -> {"none", "approved", "denied", "listing"}]
  /\ sweeps \in [Procs -> 0..2]
  /\ todo \in [Procs -> SUBSET Approvals]
  /\ cur \in [Procs -> Approvals \cup {Nobody}]
  /\ outcome \in [Procs -> Resolved \cup {"pending", NoOutcome}]
  /\ shut \in {"idle", "list", "loop", "finalize", "done"}
  /\ shutRecs \subseteq Approvals
  /\ shutTodo \subseteq Approvals
  /\ shutCur \in Approvals \cup {Nobody}
  /\ faults \in 0..MaxFaults

(* _transition_approval_request resolves a row once: whatever sweeps,      *)
(* deadlines, resolvers and shutdowns race, a resolved status is final.    *)
ResolvedOnce ==
  [][\A a \in Approvals : status[a] \in Resolved => status'[a] = status[a]]_vars

(* A waiter that was told approved, denied or expired was told what the    *)
(* row says, then and ever after; and nobody is told absent.  In           *)
(* particular only an approved request resumes (effective_action allow).   *)
OutcomeIsTheRow ==
  \A w \in Waiters : outcome[w] \in Resolved => status[target[w]] = outcome[w]

(* At most one approval.resolved event per approval, by the one process    *)
(* that won the transition, and it states the status of the row.           *)
AuditIsTruthful ==
  \A a \in Approvals : \A e, f \in audits[a] : e = f /\ e[2] = status[a]

(* The process that must still write the audit event of a.                 *)
OwesAudit(p, a) ==
  \/ pc[p] = "sweepAudit" /\ cur[p] = a
  \/ pc[p] \in {"expireAudit", "resolveAudit"} /\ target[p] = a

(* README.md, audited resume behaviour: until something fails or the       *)
(* gateway shuts down (its expiries are not audited), every resolution is  *)
(* audited by the process that made it, or that process is about to.       *)
ResolutionIsAudited ==
  faults = 0 /\ shut = "idle" =>
    \A a \in Approvals :
      status[a] \in Resolved =>
        audits[a] # {} \/ \E p \in Procs : OwesAudit(p, a)

(* Until something fails, a finalized gate record agrees with its          *)
(* approval, although the server task and the shutdown may both finalize   *)
(* it and neither reads the row again.                                     *)
RecordAgrees ==
  faults = 0 =>
    \A a \in Approvals : record[a] \in Resolved => status[a] = record[a]

(* docs/policy.md: a request is paused until approved, denied or expired.  *)
(* Until something fails, no waiter returns before that; after an error at *)
(* its deadline it may (ExpireError).                                      *)
PausedUntilResolved ==
  faults = 0 =>
    \A w \in Waiters : pc[w] \in {"finalize", "done"} => status[target[w]] \in Resolved

(* A wait ends: the deadline bounds it whoever else resolves, sweeps or    *)
(* shuts down.                                                             *)
WaitEnds ==
  \A w \in Waiters :
    pc[w] = "list" ~> pc[w] \in {"finalize", "done", "failed"}

-----------------------------------------------------------------------------
(* The inductive invariant behind the safety properties.                   *)

(* Who may be where, and for whom.                                         *)
CallInv ==
  /\ \A w \in Waiters : pc[w] \notin {"resolve", "resolveAudit"}
  /\ \A r \in Resolvers :
       pc[r] \notin {"get", "expire", "expireAudit", "reread", "finalize"}
  /\ \A p \in Procs : pc[p] = "idle" <=> target[p] = Nobody
  /\ \A p \in Procs : pc[p] = "sweepAudit" => cur[p] \in Approvals
  /\ \A r \in Resolvers : pc[r] # "idle" => want[r] # "none"
  /\ \A r \in Resolvers :
       pc[r] \in {"resolve", "resolveAudit"} => want[r] \in {"approved", "denied"}
  /\ \A w \in Waiters :
       outcome[w] # NoOutcome => pc[w] \in {"finalize", "done", "failed"}

(* A row exists once its creator has saved it, and a waiter that has seen  *)
(* it pending knows that it exists.                                        *)
RowInv ==
  /\ \A a \in Approvals : status[a] = "absent" <=> made[a] = "no"
  /\ \A w \in Waiters :
       pc[w] \in {"expire", "expireAudit", "reread"} => status[target[w]] # "absent"

(* Whoever won a transition and has not audited it yet won it for the      *)
(* status the row has now.                                                 *)
WinnerInv ==
  \A p \in Procs :
    /\ pc[p] = "sweepAudit" => status[cur[p]] = "expired"
    /\ pc[p] = "expireAudit" => status[target[p]] = "expired"
    /\ pc[p] = "resolveAudit" => status[target[p]] = want[p]

(* One winner per approval, and nothing is audited before it has won.      *)
AuditInv ==
  \A a \in Approvals :
    /\ status[a] \notin Resolved => audits[a] = {}
    /\ \A p \in Procs : OwesAudit(p, a) => audits[a] = {}
    /\ \A p, q \in Procs : OwesAudit(p, a) /\ OwesAudit(q, a) => p = q

IInv ==
  /\ TypeOK
  /\ CallInv
  /\ RowInv
  /\ WinnerInv
  /\ AuditInv
  /\ AuditIsTruthful
  /\ OutcomeIsTheRow

(* The lifecycle implements the abstract decision; a waiter that gave up   *)
(* on an unreadable row (outcome pending) has not been answered.           *)
Decision ==
  INSTANCE ApprovalDecision WITH
    NoApproval <- Nobody,
    decision <- status,
    ask <- [w \in Waiters |-> target[w]],
    answer <- [w \in Waiters |->
                 IF outcome[w] = "pending" THEN NoOutcome ELSE outcome[w]]

ImplementsDecision == Decision!Spec
=============================================================================
