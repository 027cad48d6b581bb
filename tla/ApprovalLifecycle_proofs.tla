----------------------- MODULE ApprovalLifecycle_proofs ----------------------
(***************************************************************************)
(* Proofs about ApprovalLifecycle, for any sets of approvals, waiters and  *)
(* resolvers, with or without shutdowns and failures.                      *)
(***************************************************************************)
EXTENDS ApprovalLifecycle, TLAPS

USE ConstantsAssumption, FaultsAssumption

(* The initial state is well typed.                                       *)
LEMMA TypeInit == Init => TypeOK
BY DEF Init, TypeOK, Procs, Resolved, NoOutcome, Idle, Running, Ended

(* Every action keeps the state well typed.  The reread of a waiter needs  *)
(* to know that the row exists, a resolver that it asks for a resolution.  *)
LEMMA TypeStep == TypeOK /\ CallInv /\ RowInv /\ [Next]_vars => TypeOK'
<1> SUFFICES ASSUME TypeOK, CallInv, RowInv, [Next]_vars PROVE TypeOK'
  OBVIOUS
<1> USE DEF TypeOK, Procs, Resolved, NoOutcome, Idle, Running, Ended,
            rowVars, timeVars, callVars, shutVars, Goto, Audit, Return
<1>1. ASSUME NEW a \in Approvals, SaveApproval(a) \/ SaveRecord(a) \/ Age(a) PROVE TypeOK'
  BY <1>1 DEF SaveApproval, SaveRecord, Age
<1>2. ASSUME NEW p \in Procs, SweepList(p) PROVE TypeOK'
  BY <1>2 DEF SweepList, StalePending
<1>3. ASSUME NEW p \in Procs, NEW a \in Approvals, SweepExpire(p, a) PROVE TypeOK'
  BY <1>3 DEF SweepExpire, StillPending
<1>4. ASSUME NEW p \in Procs, SweepAudit(p) PROVE TypeOK'
  BY <1>4 DEF SweepAudit, CallInv
<1>5. ASSUME NEW p \in Procs, SweepDone(p) PROVE TypeOK'
  BY <1>5 DEF SweepDone
<1>6. ASSUME NEW w \in Waiters, Poll(w) PROVE TypeOK'
  BY <1>6 DEF Poll, StillPending, CallInv
<1>7. ASSUME NEW w \in Waiters, WaiterExpire(w) PROVE TypeOK'
  BY <1>7 DEF WaiterExpire, StillPending, CallInv
<1>8. ASSUME NEW w \in Waiters, WaiterAudit(w) PROVE TypeOK'
  BY <1>8 DEF WaiterAudit, CallInv
<1>9. ASSUME NEW w \in Waiters, Reread(w) PROVE TypeOK'
  BY <1>9 DEF Reread, RereadStatus, CallInv, RowInv
<1>10. ASSUME NEW w \in Waiters, Finalize(w) PROVE TypeOK'
  BY <1>10 DEF Finalize
<1>11. ASSUME NEW w \in Waiters, Late(w) \/ ExpireError(w) PROVE TypeOK'
  BY <1>11 DEF Late, ExpireError
<1>12. ASSUME NEW w \in Waiters, NEW a \in Approvals, StartWait(w, a) PROVE TypeOK'
  BY <1>12 DEF StartWait
<1>13. ASSUME NEW r \in Resolvers, StartRequest(r) PROVE TypeOK'
  BY <1>13 DEF StartRequest
<1>14. ASSUME NEW r \in Resolvers, Resolve(r) PROVE TypeOK'
  BY <1>14 DEF Resolve, StillPending, CallInv
<1>15. ASSUME NEW r \in Resolvers, ResolveAudit(r) PROVE TypeOK'
  BY <1>15 DEF ResolveAudit, CallInv
<1>16. ASSUME NEW p \in Procs, Crash(p) PROVE TypeOK'
  BY <1>16 DEF Crash
<1>17. CASE ShutRecords \/ ShutList \/ ShutDone \/ ShutError
  BY <1>17 DEF ShutRecords, ShutList, ShutDone, ShutError
<1>18. ASSUME NEW a \in Approvals, ShutExpire(a) PROVE TypeOK'
  BY <1>18 DEF ShutExpire, StillPending
<1>19. CASE ShutFinalize
  BY <1>19 DEF ShutFinalize
<1>20. CASE UNCHANGED vars
  BY <1>20 DEF vars
<1>21. QED
  BY <1>1, <1>2, <1>3, <1>4, <1>5, <1>6, <1>7, <1>8, <1>9, <1>10, <1>11, <1>12, <1>13,
     <1>14, <1>15, <1>16, <1>17, <1>18, <1>19, <1>20
  DEF Next, WaiterStep, ResolverStep, SweepStep, ShutdownStep

(* The rest of the inductive invariant.  A step that neither wins nor      *)
(* audits a transition and answers nobody follows from the definitions;    *)
(* the others have one step for each part they touch.                      *)
LEMMA InvStep ==
  IInv /\ [Next]_vars =>
    (CallInv /\ RowInv /\ WinnerInv /\ AuditInv /\ AuditIsTruthful /\ OutcomeIsTheRow)'
<1> DEFINE Inv == /\ CallInv /\ RowInv /\ WinnerInv
                  /\ AuditInv /\ AuditIsTruthful /\ OutcomeIsTheRow
<1> SUFFICES ASSUME IInv, [Next]_vars PROVE Inv'
  OBVIOUS
<1> USE DEF IInv, TypeOK, Procs, Resolved, NoOutcome, Idle, Running, Ended,
            rowVars, timeVars, callVars, shutVars, Goto, Audit, Return
<1> DEFINE Position == CallInv /\ RowInv /\ WinnerInv
<1>1. ASSUME NEW a \in Approvals, SaveApproval(a) PROVE Inv'
  BY <1>1 DEF SaveApproval, CallInv, RowInv, WinnerInv, AuditInv, OwesAudit,
     AuditIsTruthful, OutcomeIsTheRow
<1>2. ASSUME NEW a \in Approvals, SaveRecord(a) \/ Age(a) PROVE Inv'
  BY <1>2 DEF SaveRecord, Age, CallInv, RowInv, WinnerInv, AuditInv, OwesAudit,
     AuditIsTruthful, OutcomeIsTheRow
<1>3. ASSUME NEW p \in Procs, SweepList(p) PROVE Inv'
  BY <1>3 DEF SweepList, StalePending, CallInv, RowInv, WinnerInv, AuditInv, OwesAudit,
     AuditIsTruthful, OutcomeIsTheRow
<1>4. ASSUME NEW p \in Procs, NEW a \in Approvals, SweepExpire(p, a) PROVE Inv'
  <2>1. Position'
    BY <1>4 DEF SweepExpire, StillPending, CallInv, RowInv, WinnerInv
  <2>2. AuditInv'
    <3>1. CASE ~StillPending(a)
      BY <1>4, <3>1 DEF SweepExpire, AuditInv, OwesAudit
    <3>2. CASE StillPending(a)
      <4>1. \A q \in Procs : ~OwesAudit(q, a)
        BY <3>2 DEF StillPending, OwesAudit, WinnerInv, CallInv
      <4>2. \A q \in Procs, b \in Approvals : OwesAudit(q, b)' =>
              OwesAudit(q, b) \/ (q = p /\ b = a)
        BY <1>4, <3>2 DEF SweepExpire, OwesAudit
      <4>3. audits' = audits /\ audits[a] = {}
        BY <1>4, <3>2 DEF SweepExpire, StillPending, AuditInv
      <4>4. \A b \in Approvals : b # a => status'[b] = status[b]
        BY <1>4, <3>2 DEF SweepExpire
      <4>5. QED
        BY <4>1, <4>2, <4>3, <4>4, <1>4, <3>2 DEF AuditInv, SweepExpire
    <3>3. QED
      BY <3>1, <3>2
  <2>3. AuditIsTruthful'
    BY <1>4 DEF SweepExpire, StillPending, AuditIsTruthful, AuditInv, OwesAudit, WinnerInv, CallInv
  <2>4. OutcomeIsTheRow'
    BY <1>4 DEF SweepExpire, StillPending, OutcomeIsTheRow, WinnerInv, CallInv, RowInv
  <2>5. QED
    BY <2>1, <2>2, <2>3, <2>4
<1>5. ASSUME NEW p \in Procs, SweepAudit(p) PROVE Inv'
  <2>1. Position'
    BY <1>5 DEF SweepAudit, CallInv, RowInv, WinnerInv
  <2>2. AuditInv'
    BY <1>5 DEF SweepAudit, AuditInv, OwesAudit, WinnerInv, CallInv
  <2>3. AuditIsTruthful'
    BY <1>5 DEF SweepAudit, AuditIsTruthful, AuditInv, OwesAudit, WinnerInv, CallInv
  <2>4. OutcomeIsTheRow'
    BY <1>5 DEF SweepAudit, OutcomeIsTheRow, WinnerInv, CallInv, RowInv
  <2>5. QED
    BY <2>1, <2>2, <2>3, <2>4
<1>6. ASSUME NEW p \in Procs, SweepDone(p) PROVE Inv'
  BY <1>6 DEF SweepDone, CallInv, RowInv, WinnerInv, AuditInv, OwesAudit,
     AuditIsTruthful, OutcomeIsTheRow
<1>7. ASSUME NEW w \in Waiters, Poll(w) PROVE Inv'
  <2>1. Position'
    BY <1>7 DEF Poll, StillPending, CallInv, RowInv, WinnerInv
  <2>2. AuditInv'
    BY <1>7 DEF Poll, StillPending, AuditInv, OwesAudit, WinnerInv, CallInv
  <2>3. AuditIsTruthful'
    BY <1>7 DEF Poll, StillPending, AuditIsTruthful, AuditInv, OwesAudit, WinnerInv, CallInv
  <2>4. OutcomeIsTheRow'
    BY <1>7 DEF Poll, StillPending, OutcomeIsTheRow, WinnerInv, CallInv, RowInv
  <2>5. QED
    BY <2>1, <2>2, <2>3, <2>4
<1>8. ASSUME NEW w \in Waiters, WaiterExpire(w) PROVE Inv'
  <2>1. Position'
    BY <1>8 DEF WaiterExpire, StillPending, CallInv, RowInv, WinnerInv
  <2>2. AuditInv'
    BY <1>8 DEF WaiterExpire, StillPending, AuditInv, OwesAudit, WinnerInv, CallInv
  <2>3. AuditIsTruthful'
    BY <1>8 DEF WaiterExpire, StillPending, AuditIsTruthful, AuditInv, OwesAudit, WinnerInv, CallInv
  <2>4. OutcomeIsTheRow'
    BY <1>8 DEF WaiterExpire, StillPending, OutcomeIsTheRow, WinnerInv, CallInv, RowInv
  <2>5. QED
    BY <2>1, <2>2, <2>3, <2>4
<1>9. ASSUME NEW w \in Waiters, WaiterAudit(w) PROVE Inv'
  <2>1. Position'
    BY <1>9 DEF WaiterAudit, CallInv, RowInv, WinnerInv
  <2>2. AuditInv'
    BY <1>9 DEF WaiterAudit, AuditInv, OwesAudit, WinnerInv, CallInv
  <2>3. AuditIsTruthful'
    BY <1>9 DEF WaiterAudit, AuditIsTruthful, AuditInv, OwesAudit, WinnerInv, CallInv
  <2>4. OutcomeIsTheRow'
    BY <1>9 DEF WaiterAudit, OutcomeIsTheRow, WinnerInv, CallInv, RowInv
  <2>5. QED
    BY <2>1, <2>2, <2>3, <2>4
<1>10. ASSUME NEW w \in Waiters, Reread(w) PROVE Inv'
  BY <1>10 DEF Reread, RereadStatus, CallInv, RowInv, WinnerInv, AuditInv, OwesAudit,
     AuditIsTruthful, OutcomeIsTheRow
<1>11. ASSUME NEW w \in Waiters, Finalize(w) PROVE Inv'
  BY <1>11 DEF Finalize, CallInv, RowInv, WinnerInv, AuditInv, OwesAudit,
     AuditIsTruthful, OutcomeIsTheRow
<1>12. ASSUME NEW w \in Waiters, Late(w) \/ ExpireError(w) PROVE Inv'
  BY <1>12 DEF Late, ExpireError, CallInv, RowInv, WinnerInv, AuditInv, OwesAudit,
     AuditIsTruthful, OutcomeIsTheRow
<1>13. ASSUME NEW w \in Waiters, NEW a \in Approvals, StartWait(w, a) PROVE Inv'
  BY <1>13 DEF StartWait, CallInv, RowInv, WinnerInv, AuditInv, OwesAudit,
     AuditIsTruthful, OutcomeIsTheRow
<1>14. ASSUME NEW r \in Resolvers, StartRequest(r) PROVE Inv'
  BY <1>14 DEF StartRequest, CallInv, RowInv, WinnerInv, AuditInv, OwesAudit,
     AuditIsTruthful, OutcomeIsTheRow
<1>15. ASSUME NEW r \in Resolvers, Resolve(r) PROVE Inv'
  <2>1. Position'
    BY <1>15 DEF Resolve, StillPending, CallInv, RowInv, WinnerInv
  <2>2. AuditInv'
    BY <1>15 DEF Resolve, StillPending, AuditInv, OwesAudit, WinnerInv, CallInv
  <2>3. AuditIsTruthful'
    BY <1>15 DEF Resolve, StillPending, AuditIsTruthful, AuditInv, OwesAudit, WinnerInv, CallInv
  <2>4. OutcomeIsTheRow'
    BY <1>15 DEF Resolve, StillPending, OutcomeIsTheRow, WinnerInv, CallInv, RowInv
  <2>5. QED
    BY <2>1, <2>2, <2>3, <2>4
<1>16. ASSUME NEW r \in Resolvers, ResolveAudit(r) PROVE Inv'
  <2>1. Position'
    BY <1>16 DEF ResolveAudit, CallInv, RowInv, WinnerInv
  <2>2. AuditInv'
    BY <1>16 DEF ResolveAudit, AuditInv, OwesAudit, WinnerInv, CallInv
  <2>3. AuditIsTruthful'
    BY <1>16 DEF ResolveAudit, AuditIsTruthful, AuditInv, OwesAudit, WinnerInv, CallInv
  <2>4. OutcomeIsTheRow'
    BY <1>16 DEF ResolveAudit, OutcomeIsTheRow, WinnerInv, CallInv, RowInv
  <2>5. QED
    BY <2>1, <2>2, <2>3, <2>4
<1>17. ASSUME NEW p \in Procs, Crash(p) PROVE Inv'
  BY <1>17 DEF Crash, CallInv, RowInv, WinnerInv, AuditInv, OwesAudit,
     AuditIsTruthful, OutcomeIsTheRow
<1>18. ASSUME ShutRecords \/ ShutList \/ ShutDone \/ ShutError PROVE Inv'
  BY <1>18 DEF ShutRecords, ShutList, ShutDone, ShutError, CallInv, RowInv, WinnerInv, AuditInv, OwesAudit,
     AuditIsTruthful, OutcomeIsTheRow
<1>19. ASSUME NEW a \in Approvals, ShutExpire(a) PROVE Inv'
  <2>1. Position'
    BY <1>19 DEF ShutExpire, StillPending, CallInv, RowInv, WinnerInv
  <2>2. AuditInv'
    BY <1>19 DEF ShutExpire, StillPending, AuditInv, OwesAudit, WinnerInv, CallInv
  <2>3. AuditIsTruthful'
    BY <1>19 DEF ShutExpire, StillPending, AuditIsTruthful, AuditInv, OwesAudit, WinnerInv, CallInv
  <2>4. OutcomeIsTheRow'
    BY <1>19 DEF ShutExpire, StillPending, OutcomeIsTheRow, WinnerInv, CallInv, RowInv
  <2>5. QED
    BY <2>1, <2>2, <2>3, <2>4
<1>20. ASSUME ShutFinalize PROVE Inv'
  BY <1>20 DEF ShutFinalize, CallInv, RowInv, WinnerInv, AuditInv, OwesAudit,
     AuditIsTruthful, OutcomeIsTheRow
<1>21. ASSUME UNCHANGED vars PROVE Inv'
  BY <1>21 DEF vars, CallInv, RowInv, WinnerInv, AuditInv, OwesAudit,
     AuditIsTruthful, OutcomeIsTheRow
<1>22. QED
  BY <1>1, <1>2, <1>3, <1>4, <1>5, <1>6, <1>7, <1>8, <1>9, <1>10, <1>11, <1>12, <1>13,
     <1>14, <1>15, <1>16, <1>17, <1>18, <1>19, <1>20, <1>21
  DEF Next, WaiterStep, ResolverStep, SweepStep, ShutdownStep

(* The inductive invariant holds in every reachable state.                 *)
THEOREM Invariance == Spec => []IInv
<1>1. Init => IInv
  BY TypeInit DEF Init, IInv, CallInv, RowInv, WinnerInv, AuditInv, OwesAudit,
     AuditIsTruthful, OutcomeIsTheRow, Procs, Resolved, NoOutcome
<1>2. IInv /\ [Next]_vars => IInv'
  BY TypeStep, InvStep DEF IInv
<1>3. QED
  BY <1>1, <1>2, PTL DEF Spec

(* Every variable of the lifecycle keeps its type.                         *)
THEOREM TypeCorrect == Spec => []TypeOK
<1>1. IInv => TypeOK
  BY DEF IInv
<1>2. QED
  BY <1>1, Invariance, PTL

(* wait_for_approval_resolution never reports a resolution that is not     *)
(* the row's, whatever else runs, fails or shuts down.                     *)
THEOREM OutcomeCorrect == Spec => []OutcomeIsTheRow
<1>1. IInv => OutcomeIsTheRow
  BY DEF IInv
<1>2. QED
  BY <1>1, Invariance, PTL

(* The audit trail never holds two approval.resolved events of one         *)
(* approval, and never one that the row contradicts.                       *)
THEOREM AuditCorrect == Spec => []AuditIsTruthful
<1>1. IInv => AuditIsTruthful
  BY DEF IInv
<1>2. QED
  BY <1>1, Invariance, PTL

(* A step of the lifecycle resolves only rows that are pending.            *)
LEMMA FinalStep ==
  IInv /\ [Next]_vars =>
    \A a \in Approvals : status[a] \in Resolved => status'[a] = status[a]
<1> SUFFICES ASSUME IInv, [Next]_vars, NEW b \in Approvals, status[b] \in Resolved
             PROVE status'[b] = status[b]
  OBVIOUS
<1> USE DEF IInv, TypeOK, RowInv, Resolved, StillPending, rowVars
<1>1. ASSUME NEW a \in Approvals, SaveApproval(a) PROVE status'[b] = status[b]
  BY <1>1 DEF SaveApproval
<1>2. ASSUME NEW p \in Procs, NEW a \in Approvals, SweepExpire(p, a)
      PROVE status'[b] = status[b]
  BY <1>2 DEF SweepExpire
<1>3. ASSUME NEW w \in Waiters, WaiterExpire(w) PROVE status'[b] = status[b]
  BY <1>3 DEF WaiterExpire
<1>4. ASSUME NEW r \in Resolvers, Resolve(r) PROVE status'[b] = status[b]
  BY <1>4 DEF Resolve
<1>5. ASSUME NEW a \in Approvals, ShutExpire(a) PROVE status'[b] = status[b]
  BY <1>5 DEF ShutExpire
<1>6. QED
  BY <1>1, <1>2, <1>3, <1>4, <1>5
  DEF Next, WaiterStep, ResolverStep, SweepStep, ShutdownStep, Procs, SaveRecord, Age,
      SweepList, SweepAudit, SweepDone, StartWait, Poll, WaiterAudit, Reread, Finalize,
      StartRequest, ResolveAudit, ShutRecords, ShutList, ShutFinalize, ShutDone, ShutError, Late,
      ExpireError, Crash, vars

(* A resolved status is final: of any number of racing sweeps, deadlines,  *)
(* resolvers and shutdowns, one transition wins.                           *)
THEOREM ResolutionIsFinal == Spec => ResolvedOnce
<1>1. IInv /\ [Next]_vars =>
        [\A a \in Approvals : status[a] \in Resolved => status'[a] = status[a]]_vars
  BY FinalStep
<1>2. QED
  BY <1>1, Invariance, PTL DEF Spec, ResolvedOnce

(* Handing a resolution to the caller of wait_for_approval_resolution      *)
(* answers it; handing it pending does not.                                *)
LEMMA ReturnAnswers ==
  ASSUME TypeOK, NEW w \in Waiters, NEW s \in Resolved \cup {"pending"},
         target[w] \in Approvals, outcome[w] = NoOutcome,
         s \in Resolved => status[target[w]] = s,
         Return(w, s), UNCHANGED <<status, target>>
  PROVE  Decision!Answer(w) \/ UNCHANGED Decision!vars
<1> DEFINE ans == [v \in Waiters |-> IF outcome[v] = "pending" THEN NoOutcome ELSE outcome[v]]
<1> USE DEF TypeOK, Procs, Return, Resolved, NoOutcome
<1>1. CASE s = "pending"
  <2>1. ans' = ans
    BY <1>1
  <2>2. QED
    BY <2>1 DEF Decision!vars
<1>2. CASE s \in Resolved
  <2>1. ans' = [ans EXCEPT ![w] = s]
    BY <1>2
  <2>2. QED
    BY <1>2, <2>1 DEF Decision!Answer, Decision!Decided, Decision!NoAnswer
<1>3. QED
  BY <1>1, <1>2

(* A step of the lifecycle is a step of ApprovalDecision or leaves its     *)
(* state alone: saving a row requests, winning a transition decides,       *)
(* starting to wait asks and returning a resolution answers.               *)
LEMMA DecisionStep == IInv /\ [Next]_vars => [Decision!Next]_(Decision!vars)
<1> SUFFICES ASSUME IInv, [Next]_vars PROVE [Decision!Next]_(Decision!vars)
  OBVIOUS
<1> USE DEF IInv, TypeOK, Procs, rowVars, timeVars, callVars, shutVars, Goto, Audit,
            Decision!vars, Decision!Next
<1> DEFINE Same == UNCHANGED Decision!vars
<1>1. ASSUME NEW a \in Approvals, SaveApproval(a) PROVE Decision!Request(a)
  BY <1>1 DEF SaveApproval, Decision!Request, RowInv
<1>2. ASSUME NEW p \in Procs, NEW a \in Approvals, SweepExpire(p, a)
      PROVE Decision!Decide(a) \/ Same
  BY <1>2 DEF SweepExpire, StillPending, Decision!Decide, Decision!Decided
<1>3. ASSUME NEW w \in Waiters, WaiterExpire(w) PROVE Decision!Decide(target[w]) \/ Same
  BY <1>3 DEF WaiterExpire, StillPending, Decision!Decide, Decision!Decided
<1>4. ASSUME NEW r \in Resolvers, Resolve(r) PROVE Decision!Decide(target[r]) \/ Same
  BY <1>4 DEF Resolve, StillPending, Decision!Decide, Decision!Decided, CallInv
<1>5. ASSUME NEW a \in Approvals, ShutExpire(a) PROVE Decision!Decide(a) \/ Same
  BY <1>5 DEF ShutExpire, StillPending, Decision!Decide, Decision!Decided
<1>6. ASSUME NEW w \in Waiters, NEW a \in Approvals, StartWait(w, a) PROVE Decision!Ask(w, a)
  BY <1>6 DEF StartWait, Decision!Ask, CallInv
<1>7. ASSUME NEW w \in Waiters, Poll(w) \/ WaiterAudit(w) \/ Reread(w)
      PROVE Decision!Answer(w) \/ Same
  <2>1. target[w] \in Approvals /\ outcome[w] = NoOutcome
    BY <1>7 DEF Poll, WaiterAudit, Reread, CallInv, Idle, Running, Ended
  <2>2. CASE WaiterAudit(w)
    BY <2>1, <2>2, ReturnAnswers DEF WaiterAudit, WinnerInv, Resolved
  <2>3. CASE Reread(w)
    <3>1. status[target[w]] \in Resolved \cup {"pending"}
      BY <2>1, <2>3 DEF Reread, RowInv
    <3>2. QED
      BY <2>1, <2>3, <3>1, ReturnAnswers DEF Reread, RereadStatus
  <2>4. CASE Poll(w)
    <3>1. CASE UNCHANGED outcome
      BY <2>4, <3>1 DEF Poll
    <3>2. CASE ~UNCHANGED outcome
      <4>1. status[target[w]] \in Resolved
        BY <2>1, <2>4, <3>2 DEF Poll, StillPending
      <4>2. Return(w, status[target[w]])
        BY <2>4, <3>2 DEF Poll
      <4>3. QED
        BY <2>1, <2>4, <4>1, <4>2, ReturnAnswers DEF Poll
    <3>3. QED
      BY <3>1, <3>2
  <2>5. QED
    BY <1>7, <2>2, <2>3, <2>4
<1>8. ASSUME NEW r \in Resolvers, StartRequest(r) \/ ResolveAudit(r) PROVE Same
  BY <1>8 DEF StartRequest, ResolveAudit
<1>9. ASSUME NEW p \in Procs, SweepList(p) \/ SweepAudit(p) \/ SweepDone(p) \/ Crash(p)
      PROVE Same
  BY <1>9 DEF SweepList, SweepAudit, SweepDone, Crash
<1>10. ASSUME NEW w \in Waiters, Finalize(w) \/ Late(w) \/ ExpireError(w) PROVE Same
  BY <1>10 DEF Finalize, Late, ExpireError
<1>11. ASSUME NEW a \in Approvals, SaveRecord(a) \/ Age(a) PROVE Same
  BY <1>11 DEF SaveRecord, Age
<1>12. ASSUME ShutRecords \/ ShutList \/ ShutFinalize \/ ShutDone \/ ShutError \/ UNCHANGED vars
       PROVE Same
  BY <1>12 DEF ShutRecords, ShutList, ShutFinalize, ShutDone, ShutError, vars
<1>13. ASSUME NEW p \in Procs, WaiterExpire(p) \/ Resolve(p), target[p] = Nobody PROVE FALSE
  BY <1>13 DEF CallInv, WaiterExpire, Resolve
<1>14. QED
  BY <1>1, <1>2, <1>3, <1>4, <1>5, <1>6, <1>7, <1>8, <1>9, <1>10, <1>11, <1>12, <1>13
  DEF Next, WaiterStep, ResolverStep, SweepStep, ShutdownStep

(* The lifecycle implements ApprovalDecision: the database, the polling,   *)
(* the sweeps, failures and shutdowns never show as anything but one       *)
(* request, one decision and truthful answers.                             *)
THEOREM LifecycleImplementsDecision == Spec => ImplementsDecision
<1>1. Init => Decision!Init
  BY DEF Init, Decision!Init, Decision!NoAnswer, NoOutcome, Procs
<1>2. QED
  BY <1>1, DecisionStep, Invariance, PTL DEF Spec, ImplementsDecision, Decision!Spec
-----------------------------------------------------------------------------
(* What holds until something fails.                                       *)

\* A waiter only reads its row again when somebody else has resolved it, so
\* what it hands to finalize_tool_result_approval is a resolution; and the
\* shutdown only finalizes what it has expired.
Calm ==
  faults = 0 =>
    /\ \A w \in Waiters : pc[w] = "reread" => status[target[w]] \in Resolved
    /\ \A w \in Waiters : pc[w] = "finalize" => outcome[w] \in Resolved
    /\ shut = "finalize" => shutCur \in Approvals /\ status[shutCur] = "expired"

CalmInv == Calm /\ PausedUntilResolved /\ RecordAgrees

(* A step that fails leaves nothing to show; the others keep faults.       *)
LEMMA FaultStep ==
  ASSUME TypeOK, [Next]_vars, faults' = 0
  PROVE  /\ faults = 0 /\ ~ShutError
         /\ \A w \in Waiters : ~ExpireError(w)
         /\ \A p \in Procs : ~Crash(p)
<1> USE DEF TypeOK
<1>1. ~ShutError /\ (\A w \in Waiters : ~ExpireError(w)) /\ (\A p \in Procs : ~Crash(p))
  BY DEF ShutError, ExpireError, Crash
<1>2. faults' = faults
  BY <1>1 DEF Next, WaiterStep, ResolverStep, SweepStep, ShutdownStep, SaveApproval,
     SaveRecord, Age, SweepList, SweepExpire, SweepAudit, SweepDone, StartWait, Poll,
     WaiterExpire, WaiterAudit, Reread, Finalize, StartRequest, Resolve, ResolveAudit,
     ShutRecords, ShutList, ShutExpire, ShutFinalize, ShutDone, Late, vars
<1>3. QED
  BY <1>1, <1>2

(* Until something fails, waiters and shutdown deal in resolutions only.   *)
LEMMA CalmStep == IInv /\ CalmInv /\ [Next]_vars => CalmInv'
<1> SUFFICES ASSUME IInv, CalmInv, [Next]_vars, faults' = 0 PROVE CalmInv'
  BY DEF CalmInv, Calm, PausedUntilResolved, RecordAgrees
<1> USE DEF IInv, TypeOK, Procs, Resolved, Idle, Running, Ended,
            rowVars, timeVars, callVars, shutVars, Goto, Return, StillPending
<1>0. /\ faults = 0 /\ ~ShutError
      /\ \A w \in Waiters : ~ExpireError(w)
      /\ \A p \in Procs : ~Crash(p)
  BY FaultStep
<1>1. \A a \in Approvals : status[a] \in Resolved => status'[a] = status[a]
  BY FinalStep
<1> DEFINE Inv == CalmInv
<1> USE DEF CalmInv, Calm, PausedUntilResolved, RecordAgrees
<1>2. ASSUME NEW a \in Approvals, SaveApproval(a) \/ SaveRecord(a) \/ Age(a) PROVE Inv'
  BY <1>0, <1>1, <1>2 DEF SaveApproval, SaveRecord, Age, CallInv, RowInv
<1>3. ASSUME NEW p \in Procs, SweepList(p) \/ SweepAudit(p) \/ SweepDone(p) PROVE Inv'
  BY <1>0, <1>3 DEF SweepList, SweepAudit, SweepDone, Audit, CallInv
<1>4. ASSUME NEW p \in Procs, NEW a \in Approvals, SweepExpire(p, a) PROVE Inv'
  BY <1>0, <1>1, <1>4 DEF SweepExpire, CallInv
<1>5. ASSUME NEW w \in Waiters, Poll(w) PROVE Inv'
  BY <1>0, <1>5 DEF Poll, CallInv
<1>6. ASSUME NEW w \in Waiters, WaiterExpire(w) PROVE Inv'
  BY <1>0, <1>1, <1>6 DEF WaiterExpire, CallInv, RowInv
<1>7. ASSUME NEW w \in Waiters, WaiterAudit(w) PROVE Inv'
  BY <1>0, <1>7 DEF WaiterAudit, CallInv, WinnerInv
<1>8. ASSUME NEW w \in Waiters, Reread(w) PROVE Inv'
  BY <1>0, <1>8 DEF Reread, RereadStatus, CallInv
<1>9. ASSUME NEW w \in Waiters, Finalize(w) PROVE Inv'
  BY <1>0, <1>9 DEF Finalize, CallInv, OutcomeIsTheRow
<1>10. /\ \A w \in Waiters : Late(w) => Inv'
       /\ \A w \in Waiters, a \in Approvals : StartWait(w, a) => Inv'
  BY <1>0 DEF Late, StartWait, CallInv
<1>11. ASSUME NEW r \in Resolvers, StartRequest(r) \/ ResolveAudit(r) PROVE Inv'
  BY <1>0, <1>11 DEF StartRequest, ResolveAudit, Audit, CallInv
<1>12. ASSUME NEW r \in Resolvers, Resolve(r) PROVE Inv'
  BY <1>0, <1>1, <1>12 DEF Resolve, CallInv
<1>13. ASSUME ShutRecords \/ ShutList \/ ShutDone PROVE Inv'
  BY <1>0, <1>13 DEF ShutRecords, ShutList, ShutDone
<1>14. ASSUME NEW a \in Approvals, ShutExpire(a) PROVE Inv'
  BY <1>0, <1>1, <1>14 DEF ShutExpire, CallInv
<1>15. ASSUME ShutFinalize PROVE Inv'
  BY <1>0, <1>15 DEF ShutFinalize
<1>16. ASSUME UNCHANGED vars PROVE Inv'
  BY <1>0, <1>16 DEF vars
<1>17. QED
  BY <1>0, <1>2, <1>3, <1>4, <1>5, <1>6, <1>7, <1>8, <1>9, <1>10, <1>11, <1>12, <1>13,
     <1>14, <1>15, <1>16
  DEF Next, WaiterStep, ResolverStep, SweepStep, ShutdownStep

(* Until something fails, no waiter returns before the approval is         *)
(* resolved and no gate record contradicts it.                             *)
THEOREM CalmInvariance == Spec => []CalmInv
<1>1. Init => CalmInv
  BY DEF Init, CalmInv, Calm, PausedUntilResolved, RecordAgrees, Procs, Resolved
<1>2. QED
  BY <1>1, CalmStep, Invariance, PTL DEF Spec

(* docs/policy.md: a request is paused until it is approved, denied or     *)
(* expired, unless an error strikes at the waiter's deadline.              *)
THEOREM PauseCorrect == Spec => []PausedUntilResolved
<1>1. CalmInv => PausedUntilResolved
  BY DEF CalmInv
<1>2. QED
  BY <1>1, CalmInvariance, PTL

(* finalize_tool_result_approval, by the server task or the shutdown,      *)
(* writes what the approval says.                                          *)
THEOREM RecordCorrect == Spec => []RecordAgrees
<1>1. CalmInv => RecordAgrees
  BY DEF CalmInv
<1>2. QED
  BY <1>1, CalmInvariance, PTL

(* A process that owes an audit event still owes it after a step, or has   *)
(* written it; no step takes audit events away.                            *)
LEMMA AuditedStep == IInv /\ ResolutionIsAudited /\ [Next]_vars => ResolutionIsAudited'
<1> SUFFICES ASSUME IInv, ResolutionIsAudited, [Next]_vars,
                    faults' = 0, shut' = "idle", NEW b \in Approvals, status'[b] \in Resolved
             PROVE  audits'[b] # {} \/ \E p \in Procs : OwesAudit(p, b)'
  BY DEF ResolutionIsAudited
<1> USE DEF IInv, TypeOK, Resolved, rowVars, timeVars, callVars, shutVars, Goto, Return,
            StillPending
<1> DEFINE Goal == audits'[b] # {} \/ \E p \in Procs : OwesAudit(p, b)'
<1>0. /\ faults = 0 /\ ~ShutError
      /\ \A w \in Waiters : ~ExpireError(w)
      /\ \A p \in Procs : ~Crash(p)
  BY FaultStep
<1>1. shut = "idle" /\ ~ShutdownStep
  BY <1>0 DEF Next, WaiterStep, ResolverStep, SweepStep, ShutdownStep, SaveApproval,
     SaveRecord, Age, SweepList, SweepExpire, SweepAudit, SweepDone, StartWait, Poll,
     WaiterExpire, WaiterAudit, Reread, Finalize, StartRequest, Resolve, ResolveAudit,
     ShutRecords, ShutList, ShutExpire, ShutFinalize, ShutDone, Late, vars
<1>2. status[b] \in Resolved => audits[b] # {} \/ \E p \in Procs : OwesAudit(p, b)
  BY <1>0, <1>1 DEF ResolutionIsAudited
<1>3. Waiters \subseteq Procs /\ Resolvers \subseteq Procs
  BY DEF Procs
<1>4. ASSUME NEW a \in Approvals, SaveApproval(a) \/ SaveRecord(a) \/ Age(a) PROVE Goal
  BY <1>2, <1>4 DEF SaveApproval, SaveRecord, Age, OwesAudit
<1>5. ASSUME NEW p \in Procs, SweepList(p) \/ SweepDone(p) PROVE Goal
  BY <1>2, <1>3, <1>5 DEF SweepList, SweepDone, OwesAudit
<1>6. ASSUME NEW p \in Procs, NEW a \in Approvals, SweepExpire(p, a) PROVE Goal
  BY <1>2, <1>6 DEF SweepExpire, OwesAudit
<1>7. ASSUME NEW p \in Procs, SweepAudit(p) PROVE Goal
  BY <1>2, <1>7 DEF SweepAudit, Audit, OwesAudit
<1>8. ASSUME NEW w \in Waiters, Poll(w) \/ Reread(w) \/ Finalize(w) \/ Late(w) PROVE Goal
  BY <1>2, <1>3, <1>8 DEF Poll, Reread, Finalize, Late, OwesAudit
<1>9. ASSUME NEW w \in Waiters, WaiterExpire(w) PROVE Goal
  BY <1>2, <1>3, <1>9 DEF WaiterExpire, OwesAudit
<1>10. ASSUME NEW w \in Waiters, WaiterAudit(w) PROVE Goal
  BY <1>2, <1>3, <1>10 DEF WaiterAudit, Audit, OwesAudit
<1>11. ASSUME NEW w \in Waiters, NEW a \in Approvals, StartWait(w, a) PROVE Goal
  BY <1>2, <1>3, <1>11 DEF StartWait, OwesAudit
<1>12. ASSUME NEW r \in Resolvers, StartRequest(r) PROVE Goal
  BY <1>2, <1>3, <1>12 DEF StartRequest, OwesAudit
<1>13. ASSUME NEW r \in Resolvers, Resolve(r) PROVE Goal
  BY <1>2, <1>3, <1>13 DEF Resolve, OwesAudit
<1>14. ASSUME NEW r \in Resolvers, ResolveAudit(r) PROVE Goal
  BY <1>2, <1>3, <1>14 DEF ResolveAudit, Audit, OwesAudit
<1>15. CASE UNCHANGED vars
  BY <1>2, <1>15 DEF vars, OwesAudit
<1>16. QED
  BY <1>0, <1>1, <1>3, <1>4, <1>5, <1>6, <1>7, <1>8, <1>9, <1>10, <1>11, <1>12, <1>13,
     <1>14, <1>15
  DEF Next, WaiterStep, ResolverStep, SweepStep

(* Until something fails or the gateway shuts down, every resolution is    *)
(* audited, or about to be by the process that made it.                    *)
THEOREM ResolutionAuditCorrect == Spec => []ResolutionIsAudited
<1>1. Init => ResolutionIsAudited
  BY DEF Init, ResolutionIsAudited, Resolved
<1>2. QED
  BY <1>1, AuditedStep, Invariance, PTL DEF Spec
=============================================================================
