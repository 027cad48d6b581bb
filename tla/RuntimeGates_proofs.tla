------------------------ MODULE RuntimeGates_proofs -------------------------
(***************************************************************************)
(* Proofs about RuntimeGates, for every set of configurations.  IInv is    *)
(* inductive, and GuardHolds, ReviewFailsSafe and ShadowIsInert follow.    *)
(***************************************************************************)
EXTENDS RuntimeGates, TLAPS

LEMMA NormalizeType == \A a \in Actions : Normalize(a) \in Actions
  BY DEF Normalize, Actions

(* What a loaded policy configures.                                        *)
LEMMA PolicyTypes ==
  ASSUME gates \in Policies
  PROVE  /\ {AdjudicationMode, InputMode, RequestMode, ResultMode, GuardMode} \subseteq Modes
         /\ {InputReview, RequestReview, ResultReview} \subseteq Reviews
         /\ {CompromisedAction, TruePositive, FalsePositive} \subseteq Actions
  BY GatesAssumption
  DEF Configurations, AdjudicationMode, InputMode, RequestMode, ResultMode, GuardMode,
      InputReview, RequestReview, ResultReview, CompromisedAction, TruePositive, FalsePositive

LEMMA GateModeType == gates \in Policies => \A r : GateMode(r) \in Modes
  BY PolicyTypes DEF GateMode, Modes

LEMMA ActionTypes ==
  ASSUME gates \in Policies
  PROVE
  /\ \A v \in Verdicts, a \in Actions : Adjudicate(a, v) \in Actions
  /\ \A v \in Verdicts : ReviewAction(v) \in Actions
  /\ \A v \in Verdicts, r \in Results : ResultAction(r, v) \in Actions
  <1> USE PolicyTypes, NormalizeType
  <1>1. \A v \in Verdicts, a \in Actions : Adjudicate(a, v) \in Actions
    BY DEF Adjudicate, Verdicts, Actions
  <1>2. \A v \in Verdicts : ReviewAction(v) \in Actions
    BY DEF ReviewAction, Verdicts, Actions
  <1>3. \A v \in Verdicts, r \in Results : ResultAction(r, v) \in Actions
    BY DEF ResultAction, Results, Verdicts, Actions
  <1> QED BY <1>1, <1>2, <1>3

LEMMA InitInv == Init => IInv
<1> SUFFICES ASSUME Init PROVE IInv
  OBVIOUS
<1>1. NoRequest \in Requests /\ NoResult \in Results
  BY DEF NoRequest, NoResult, Requests, Results, Levels, Actions
<1>2. TypeOK
  <2>1. calls \in 0..MaxCalls /\ open \in Nat
    BY GatesAssumption DEF Init
  <2>2. "allow" \in Actions
    BY DEF Actions
  <2> QED BY <1>1, <2>1, <2>2, Zenon DEF Init, TypeOK
<1>3. DecisionInv /\ ReviewInv /\ GuardInv /\ ShadowInv
  BY DEF Init, NoRequest, DecisionInv, ReviewInv, GuardInv, ShadowInv
<1> QED BY <1>2, <1>3 DEF IInv

(* Every step keeps the types.                                             *)
LEMMA TypeStep == TypeOK /\ [Next]_vars => TypeOK'
<1> SUFFICES ASSUME TypeOK, [Next]_vars PROVE TypeOK'
  OBVIOUS
<1> USE GatesAssumption, PolicyTypes DEF TypeOK
<1>1. ASSUME NEW r \in Requests, Read(r) PROVE TypeOK'
  <2>1. calls' \in 0..MaxCalls
    BY <1>1 DEF Read
  <2>2. policy' \in Actions /\ decision' \in Actions
    BY <1>1 DEF Read, Actions
  <2> QED BY <1>1, <2>1, <2>2 DEF Read, sessionVars, resultVars
<1>2. ASSUME NEW v \in Verdicts, Evaluate(v) PROVE TypeOK'
  <2>1. request.base \in Actions
    BY DEF Requests
  <2>2. policy' \in Actions
    BY <1>2, <2>1, ActionTypes DEF Evaluate
  <2> QED BY <1>2, <2>2 DEF Evaluate, sessionVars, resultVars, history
<1>3. ASSUME NEW v \in Verdicts, GateReview(v) PROVE TypeOK'
  BY <1>3, ActionTypes DEF GateReview, sessionVars, resultVars
<1>4. ASSUME GateBegin PROVE TypeOK'
  <2>1. request.base \in Actions /\ request.risky \in BOOLEAN /\ request.input \in BOOLEAN
    BY DEF Requests
  <2>2. proposed' \in Actions
    BY <1>4, <2>1, NormalizeType DEF GateBegin
  <2>3. Remembered \in BOOLEAN /\ Suspect(Remembered) \in BOOLEAN
    BY <2>1 DEF Remembered, Suspect
  <2> QED BY <1>4, <2>2, <2>3 DEF GateBegin, Touch, resultVars, history
<1>5. ASSUME GateEnd PROVE TypeOK'
  <2>1. proposed' \in Actions
    BY <1>5, NormalizeType DEF GateEnd, GuardAction
  <2>2. decision' \in Actions
    BY <1>5, <2>1 DEF GateEnd, Effective, Actions
  <2> QED BY <1>5, <2>1, <2>2 DEF GateEnd, Touch, Remembered, resultVars, history
<1>6. ASSUME Decide PROVE TypeOK'
  BY <1>6 DEF Decide, Forward, sessionVars, resultVars, history
<1>7. ASSUME NEW s \in {"approved", "denied", "expired"}, Resolved(s) PROVE TypeOK'
  BY <1>7 DEF Resolved, Forward, sessionVars, resultVars, history
<1>8. ASSUME NEW r \in Results, Receive(r) PROVE TypeOK'
  BY <1>8 DEF Receive, sessionVars, requestVars, history, Actions
<1>9. ASSUME ReceiveError PROVE TypeOK'
  BY <1>9 DEF ReceiveError, sessionVars, requestVars, resultVars, history
<1>10. ASSUME NEW v \in Verdicts, Observe(v) PROVE TypeOK'
  <2>1. action' \in Actions
    BY <1>10, ActionTypes DEF Observe
  <2>2. compromised' \in BOOLEAN
    BY <1>10 DEF Observe, Touch, Remembered, Observed, Results
  <2> QED BY <1>10, <2>1, <2>2 DEF Observe, Touch, requestVars, history
<1>11. ASSUME Deliver PROVE TypeOK'
  BY <1>11 DEF Deliver, sessionVars, requestVars, Results
<1>12. ASSUME NEW r \in Results, ShadowObserve(r) PROVE TypeOK'
  <2>1. compromised' \in BOOLEAN
    BY <1>12 DEF ShadowObserve, Touch, Remembered, Observed, Results
  <2>2. shadow' \subseteq Results
    BY <1>12 DEF ShadowObserve
  <2> QED BY <1>12, <2>1, <2>2 DEF ShadowObserve, Touch, requestVars, history
<1>13. ASSUME GoQuiet PROVE TypeOK'
  BY <1>13 DEF GoQuiet, requestVars, resultVars
<1>14. ASSUME NEW r \in Results, PostToolUse(r) PROVE TypeOK'
  BY <1>14 DEF PostToolUse, sessionVars, requestVars, resultVars, Results
<1>15. CASE UNCHANGED vars
  BY <1>15 DEF vars, sessionVars, requestVars, resultVars, history
<1> QED
  BY <1>1, <1>2, <1>3, <1>4, <1>5, <1>6, <1>7, <1>8, <1>9, <1>10, <1>11, <1>12, <1>13, <1>14, <1>15
  DEF Next, RequestStep, ResultStep

(* The gateway never reloads its policy, and stays a gateway; a hook reads *)
(* the same one each time.                                                 *)
LEMMA PolicyIsFixed == [Next]_vars => gates' = gates /\ entry' = entry
  BY DEF Next, RequestStep, ResultStep, Read, Evaluate, GateReview, GateBegin, GateEnd, Decide,
         Resolved, Receive, ReceiveError, PostToolUse, Observe, Deliver, ShadowObserve, GoQuiet,
         vars

(* Only a new request comes before another gate.                           *)
LEMMA SameGate ==
  ASSUME [Next]_vars, request' = request
  PROVE  /\ GateMode(request)' = GateMode(request)
         /\ ReviewInForce' <=> ReviewInForce
  BY PolicyIsFixed DEF GateMode, ReviewInForce, InputMode, RequestMode, GuardMode

(* A call is forwarded on a decision or a human's word.                    *)
LEMMA DecisionStep ==
  ASSUME TypeOK, DecisionInv, [Next]_vars
  PROVE  DecisionInv'
<1> USE GatesAssumption DEF DecisionInv
<1>1. ASSUME NEW r \in Requests, Read(r) PROVE DecisionInv'
  BY <1>1 DEF Read
<1>2. ASSUME NEW v \in Verdicts, Evaluate(v) PROVE DecisionInv'
  BY <1>2 DEF Evaluate
<1>3. ASSUME NEW v \in Verdicts, GateReview(v) PROVE DecisionInv'
  BY <1>3 DEF GateReview, ReviewAction
<1>4. ASSUME GateBegin PROVE DecisionInv'
  BY <1>4 DEF GateBegin
<1>5. ASSUME GateEnd PROVE DecisionInv'
  BY <1>5 DEF GateEnd, GuardAction, Effective
<1>6. ASSUME Decide PROVE DecisionInv'
  BY <1>6 DEF Decide, Forward
<1>7. ASSUME NEW s \in {"approved", "denied", "expired"}, Resolved(s) PROVE DecisionInv'
  BY <1>7 DEF Resolved, Forward
<1>8. ASSUME NEW r \in Results, Receive(r) PROVE DecisionInv'
  BY <1>8 DEF Receive, requestVars
<1>9. ASSUME ReceiveError PROVE DecisionInv'
  BY <1>9 DEF ReceiveError, requestVars
<1>10. ASSUME NEW v \in Verdicts, Observe(v) PROVE DecisionInv'
  BY <1>10 DEF Observe, requestVars
<1>11. ASSUME Deliver PROVE DecisionInv'
  BY <1>11 DEF Deliver, requestVars
<1>12. ASSUME NEW r \in Results, ShadowObserve(r) PROVE DecisionInv'
  BY <1>12 DEF ShadowObserve, requestVars
<1>13. ASSUME GoQuiet PROVE DecisionInv'
  BY <1>13 DEF GoQuiet, requestVars
<1>14. ASSUME NEW r \in Results, PostToolUse(r) PROVE DecisionInv'
  BY <1>14 DEF PostToolUse, sessionVars, requestVars, resultVars
<1>15. CASE UNCHANGED vars
  BY <1>15 DEF vars, sessionVars, requestVars, resultVars, history
<1> QED
  BY <1>1, <1>2, <1>3, <1>4, <1>5, <1>6, <1>7, <1>8, <1>9, <1>10, <1>11, <1>12, <1>13, <1>14, <1>15
  DEF Next, RequestStep, ResultStep

(* A failed or doubtful review keeps its place.                            *)
LEMMA ReviewStep ==
  ASSUME TypeOK, ReviewInForce => ReviewInv, ReviewInForce', [Next]_vars
  PROVE  ReviewInv'
<1>0. request' = request => ReviewInForce /\ ReviewInv
  BY SameGate
<1> USE DEF ReviewInv, ReviewInForce
<1>1. ASSUME NEW r \in Requests, Read(r) PROVE ReviewInv'
  BY <1>1 DEF Read
<1>2. ASSUME NEW v \in Verdicts, Evaluate(v) PROVE ReviewInv'
  BY <1>0, <1>2 DEF Evaluate, history
<1>3. ASSUME NEW v \in Verdicts, GateReview(v) PROVE ReviewInv'
  BY <1>0, <1>3 DEF GateReview, ReviewAction
<1>4. ASSUME GateBegin PROVE ReviewInv'
  BY <1>0, <1>4 DEF GateBegin, history
<1>5. ASSUME GateEnd PROVE ReviewInv'
  BY <1>0, <1>5 DEF GateEnd, GuardAction, Effective, history
<1>6. ASSUME Decide PROVE ReviewInv'
  BY <1>0, <1>6 DEF Decide, Forward, history
<1>7. ASSUME NEW s \in {"approved", "denied", "expired"}, Resolved(s) PROVE ReviewInv'
  BY <1>0, <1>7 DEF Resolved, Forward, history
<1>8. ASSUME NEW r \in Results, Receive(r) PROVE ReviewInv'
  BY <1>0, <1>8 DEF Receive, requestVars, history
<1>9. ASSUME ReceiveError PROVE ReviewInv'
  BY <1>0, <1>9 DEF ReceiveError, requestVars, history
<1>10. ASSUME NEW v \in Verdicts, Observe(v) PROVE ReviewInv'
  BY <1>0, <1>10 DEF Observe, requestVars, history
<1>11. ASSUME Deliver PROVE ReviewInv'
  BY <1>0, <1>11 DEF Deliver, requestVars
<1>12. ASSUME NEW r \in Results, ShadowObserve(r) PROVE ReviewInv'
  BY <1>0, <1>12 DEF ShadowObserve, requestVars, history
<1>13. ASSUME GoQuiet PROVE ReviewInv'
  BY <1>0, <1>13 DEF GoQuiet, requestVars
<1>14. ASSUME NEW r \in Results, PostToolUse(r) PROVE ReviewInv'
  BY <1>0, <1>14 DEF PostToolUse, sessionVars, requestVars, resultVars
<1>15. CASE UNCHANGED vars
  BY <1>0, <1>15 DEF vars, sessionVars, requestVars, resultVars, history
<1> QED
  BY <1>1, <1>2, <1>3, <1>4, <1>5, <1>6, <1>7, <1>8, <1>9, <1>10, <1>11, <1>12, <1>13, <1>14, <1>15
  DEF Next, RequestStep, ResultStep

(* Without an enforcing gate the decision is the policy's.                 *)
LEMMA ShadowStep ==
  ASSUME TypeOK, DecisionInv, GateMode(request) # "enforce" => ShadowInv,
         GateMode(request)' # "enforce", [Next]_vars
  PROVE  ShadowInv'
<1>0. request' = request =>
        GateMode(request)' = GateMode(request) /\ GateMode(request) # "enforce" /\ ShadowInv
  BY SameGate
<1> USE GateModeType DEF TypeOK, Modes, ShadowInv
<1>1. ASSUME NEW r \in Requests, Read(r) PROVE ShadowInv'
  <2>1. GateMode(request)' = GateMode(r)
    BY <1>1 DEF Read, GateMode, InputMode, RequestMode
  <2> QED BY <1>1, <2>1 DEF Read
<1>2. ASSUME NEW v \in Verdicts, Evaluate(v) PROVE ShadowInv'
  BY <1>0, <1>2 DEF Evaluate, history
<1>3. ASSUME NEW v \in Verdicts, GateReview(v) PROVE ShadowInv'
  BY <1>0, <1>3 DEF GateReview, ReviewAction
<1>4. ASSUME GateBegin PROVE ShadowInv'
  BY <1>0, <1>4 DEF GateBegin, history
<1>5. ASSUME GateEnd PROVE ShadowInv'
  BY <1>0, <1>5 DEF GateEnd, GuardAction, Effective, history
<1>6. ASSUME Decide PROVE ShadowInv'
  BY <1>0, <1>6 DEF Decide, Forward, history
<1>7. ASSUME NEW s \in {"approved", "denied", "expired"}, Resolved(s) PROVE ShadowInv'
  BY <1>0, <1>7 DEF DecisionInv, Resolved, Forward, history
<1>8. ASSUME NEW r \in Results, Receive(r) PROVE ShadowInv'
  BY <1>0, <1>8 DEF Receive, requestVars, history
<1>9. ASSUME ReceiveError PROVE ShadowInv'
  BY <1>0, <1>9 DEF ReceiveError, requestVars, history
<1>10. ASSUME NEW v \in Verdicts, Observe(v) PROVE ShadowInv'
  BY <1>0, <1>10 DEF Observe, requestVars, history
<1>11. ASSUME Deliver PROVE ShadowInv'
  BY <1>0, <1>11 DEF Deliver, requestVars
<1>12. ASSUME NEW r \in Results, ShadowObserve(r) PROVE ShadowInv'
  BY <1>0, <1>12 DEF ShadowObserve, requestVars, history
<1>13. ASSUME GoQuiet PROVE ShadowInv'
  BY <1>0, <1>13 DEF GoQuiet, requestVars
<1>14. ASSUME NEW r \in Results, PostToolUse(r) PROVE ShadowInv'
  BY <1>0, <1>14 DEF PostToolUse, sessionVars, requestVars, resultVars
<1>15. CASE UNCHANGED vars
  BY <1>0, <1>15 DEF vars, sessionVars, requestVars, resultVars, history
<1> QED
  BY <1>1, <1>2, <1>3, <1>4, <1>5, <1>6, <1>7, <1>8, <1>9, <1>10, <1>11, <1>12, <1>13, <1>14, <1>15
  DEF Next, RequestStep, ResultStep

(* The evidence gets to the session before the result gets to the agent,   *)
(* and from the session to the next request.                               *)
LEMMA GuardStep ==
  ASSUME TypeOK, GuardInForce, GuardInv, [Next]_vars
  PROVE  GuardInv'
<1>0. GateMode(request) = "enforce"
  BY DEF GuardInv, GuardInForce, GateMode
<1> USE PolicyTypes DEF TypeOK, GuardInv, GuardInForce, Remembered, CompromisedAction
<1>1. ASSUME NEW r \in Requests, Read(r) PROVE GuardInv'
  <2>1. ~r.input
    BY <1>1 DEF Read, Requests
  <2> QED BY <1>1, <2>1 DEF Read, sessionVars, resultVars
<1>2. ASSUME NEW v \in Verdicts, Evaluate(v) PROVE GuardInv'
  BY <1>0, <1>2 DEF Evaluate, sessionVars, resultVars, history
<1>3. ASSUME NEW v \in Verdicts, GateReview(v) PROVE GuardInv'
  BY <1>3 DEF GateReview, ReviewAction, sessionVars, resultVars
<1>4. ASSUME GateBegin PROVE GuardInv'
  BY <1>4 DEF GateBegin, Touch, Suspect, resultVars, history
<1>5. ASSUME GateEnd PROVE GuardInv'
  BY <1>0, <1>5 DEF GateEnd, GuardAction, Effective, Touch, Normalize, resultVars, history
<1>6. ASSUME Decide PROVE GuardInv'
  BY <1>6 DEF Decide, Forward, sessionVars, resultVars, history
<1>7. ASSUME NEW s \in {"approved", "denied", "expired"}, Resolved(s) PROVE GuardInv'
  BY <1>7 DEF Resolved, Forward, sessionVars, resultVars, history
<1>8. ASSUME NEW r \in Results, Receive(r) PROVE GuardInv'
  BY <1>8 DEF Receive, sessionVars, requestVars, history
<1>9. ASSUME ReceiveError PROVE GuardInv'
  BY <1>9 DEF ReceiveError, sessionVars, requestVars, resultVars, history
<1>10. ASSUME NEW v \in Verdicts, Observe(v) PROVE GuardInv'
  BY <1>10 DEF Observe, Touch, Observed, requestVars, history
<1>11. ASSUME Deliver PROVE GuardInv'
  <2>1. exposed' => Remembered
    BY <1>11 DEF Deliver, TypeOK, Results
  <2> QED BY <1>11, <2>1 DEF Deliver, sessionVars, requestVars
<1>12. ASSUME NEW r \in Results, ShadowObserve(r) PROVE GuardInv'
  BY <1>12 DEF ShadowObserve, Touch, Observed, requestVars, history
<1>13. ASSUME GoQuiet PROVE GuardInv'
  BY <1>13 DEF GoQuiet, requestVars, resultVars
<1>14. ASSUME NEW r \in Results, PostToolUse(r) PROVE GuardInv'
  BY <1>14 DEF PostToolUse, sessionVars, requestVars, resultVars
<1>15. CASE UNCHANGED vars
  BY <1>15 DEF vars, sessionVars, requestVars, resultVars, history
<1> QED
  BY <1>1, <1>2, <1>3, <1>4, <1>5, <1>6, <1>7, <1>8, <1>9, <1>10, <1>11, <1>12, <1>13, <1>14, <1>15
  DEF Next, RequestStep, ResultStep

(* IInv is inductive, whatever the policy configures.                      *)
THEOREM Invariance == Spec => []IInv
<1>1. IInv /\ [Next]_vars => IInv'
  <2> SUFFICES ASSUME IInv, [Next]_vars PROVE IInv'
    OBVIOUS
  <2>1. TypeOK'
    BY TypeStep DEF IInv
  <2>2. DecisionInv'
    BY DecisionStep DEF IInv
  <2>3. ReviewInForce' => ReviewInv'
    BY ReviewStep DEF IInv
  <2>4. GuardInForce => GuardInv'
    BY GuardStep DEF IInv
  <2>5. GateMode(request)' # "enforce" => ShadowInv'
    BY ShadowStep DEF IInv
  <2>6. GuardInForce' <=> GuardInForce
    BY PolicyIsFixed
    DEF GuardInForce, InBackground, RequestMode, GuardMode, ResultMode, ResultReview
  <2> QED BY <2>1, <2>2, <2>3, <2>4, <2>5, <2>6 DEF IInv
<1> QED BY InitInv, <1>1, PTL DEF Spec

(* The variables of the decisions have their types.                        *)
THEOREM TypeCorrect == Spec => []TypeOK
<1>1. IInv => TypeOK
  BY DEF IInv
<1> QED BY Invariance, <1>1, PTL

(* In a gateway with an enforcing Tool Request Gate and an enforcing       *)
(* Session Guard, and results reviewed before they are delivered, no risky *)
(* call that follows an injected result escapes compromised_action.        *)
THEOREM GuardCorrect == Spec => []GuardHolds
<1>1. IInv => GuardHolds
  BY DEF IInv, GuardHolds, GuardRestricts, DecisionInv, GuardInv, Unasked
<1> QED BY Invariance, <1>1, PTL

(* With an enforcing gate and a Session Guard that is not in shadow mode,  *)
(* no call and no agent input passes on a review that failed or was not    *)
(* sure.                                                                   *)
THEOREM ReviewCorrect == Spec => []ReviewFailsSafe
<1>1. IInv => ReviewFailsSafe
  BY DEF IInv, ReviewFailsSafe, DoubtIsApproved, DecisionInv, ReviewInv, Unasked
<1> QED BY Invariance, <1>1, PTL

(* Without an enforcing gate of its own, a call meets what evaluate        *)
(* decided and an input passes.                                            *)
THEOREM ShadowCorrect == Spec => []ShadowIsInert
<1>1. IInv => ShadowIsInert
  BY DEF IInv, ShadowIsInert, ShadowInv, DecisionInv, Unasked
<1> QED BY Invariance, <1>1, PTL
=============================================================================
