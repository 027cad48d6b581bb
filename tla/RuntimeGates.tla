---------------------------- MODULE RuntimeGates ----------------------------
(***************************************************************************)
(* What the gateway decides about tool calls and tool results, what a hook *)
(* decides about tool calls and agent input, and the session state the     *)
(* decisions share: RuntimeDecisionService.evaluate with its LLM           *)
(* adjudication, the Agent Input Gate, the Tool Request Gate and the       *)
(* Session Guard of RuntimeSecurityCoordinator, and the Tool Result Gate.  *)
(*                                                                         *)
(* Requests are inspected in one worker thread and results in another,     *)
(* with further threads for shadow reviews; all of them read and write     *)
(* the one SessionSecurityState of the gateway's session without a lock.   *)
(* An action is a stretch of one thread between two points where the       *)
(* others matter: a read of the state, the reviewer's answer, a write.     *)
(* A hook is a process per event; the state it makes goes with it.         *)
(*                                                                         *)
(* The detectors, the policy file's rules and the models are reduced to    *)
(* what they conclude.  The true and false positive actions are the same   *)
(* for all gates, as in the policies the repository ships.                 *)
(***************************************************************************)
EXTENDS Naturals

CONSTANTS
  Entries,   \* where the agent's events come in: "gateway", "hook"
  Policies,  \* the gate configurations a policy file may have
  MaxCalls   \* bound: tool calls the agent makes

Modes == {"off", "shadow", "enforce"}   \* "off": no such mapping in the policy
Reviews == {"rules", "hybrid"}
Actions == {"allow", "alert", "block", "require_approval"}

\* What from_dict leaves of the gate mappings: the mode of the matching
\* policy's llm_adjudication, mode and review of agent_input_gate, of
\* tool_request_gate and of tool_result_gate, mode and compromised_action of
\* session_guard, and the actions for true and for false positives.
Configurations ==
  [adjudication : Modes, inputMode : Modes, inputReview : Reviews,
   requestMode : Modes, requestReview : Reviews,
   resultMode : Modes, resultReview : Reviews, guardMode : Modes,
   compromised : Actions, truePositive : Actions, falsePositive : Actions]

ASSUME GatesAssumption ==
  /\ Entries \subseteq {"gateway", "hook"}
  /\ Policies \subseteq Configurations
  /\ MaxCalls \in Nat

\* How grave the findings of the detectors are, and what a model concludes:
\* unsure is an uncertain verdict or one below min_confidence, edge a true
\* positive at exactly min_confidence.
Levels == {"none", "some", "critical"}
Verdicts == {"positive", "edge", "negative", "unsure", "failed"}

\* A tool call or an agent's input: its findings; whether its capability is
\* risky or unknown, or its file sensitive; what the policy file's first
\* matching rule says.
Requests == [input : BOOLEAN, level : Levels, risky : BOOLEAN, base : Actions]
NoRequest == [input |-> FALSE, level |-> "none", risky |-> FALSE, base |-> "allow"]

\* A result: its findings, whether they include injection evidence
\* (_COMPROMISE_RULES), and what the policy file says of it.
Results == {r \in [level : Levels, injected : BOOLEAN, base : Actions] :
              r.injected => r.level # "none"}
NoResult == [level |-> "none", injected |-> FALSE, base |-> "allow"]

VARIABLES
  entry,        \* where the events come in
  gates,        \* the configuration of the policy file the gateway has loaded
  compromised,  \* state.compromised of the session
  quiet,        \* more than 3600 s have passed since state.last_seen
  calls,        \* calls made so far
  cpc,          \* the thread that inspects requests: where it is
  request,      \* ... the request
  policy,       \* ... the decision of RuntimeDecisionService.evaluate
  online,       \* ... the request has the compromised-session finding
  proposed,     \* ... proposed_action of the Tool Request Gate
  decision,     \* ... the action the gateway takes
  consent,      \* ... what a human said to it
  open,         \* calls forwarded and not answered
  spc,          \* the thread that inspects results: where it is
  result,       \* ... the result
  action,       \* ... the effective action on it
  shadow,       \* results delivered before their shadow review looks at them
  exposed,      \* the agent has seen an injected result in this session
  warned,       \* ... before it made the current request
  reviewed      \* what the stage reviewer said of the current request

sessionVars == <<compromised, quiet>>
requestVars == <<cpc, request, policy, online, proposed, decision, consent>>
resultVars == <<spc, result, action, shadow>>
history == <<exposed, warned, reviewed>>
vars == <<entry, gates, sessionVars, calls, requestVars, open, resultVars, history>>

AdjudicationMode == gates.adjudication
InputMode == gates.inputMode
InputReview == gates.inputReview
RequestMode == gates.requestMode
RequestReview == gates.requestReview
ResultMode == gates.resultMode
ResultReview == gates.resultReview
GuardMode == gates.guardMode
CompromisedAction == gates.compromised
TruePositive == gates.truePositive
FalsePositive == gates.falsePositive

Init ==
  /\ entry \in Entries
  /\ gates \in Policies
  /\ compromised = FALSE /\ quiet = FALSE
  /\ calls = 0 /\ open = 0
  /\ cpc = "read" /\ request = NoRequest /\ policy = "allow" /\ online = FALSE
  /\ proposed = "allow" /\ decision = "allow" /\ consent = "none"
  /\ spc = "read" /\ result = NoResult /\ action = "allow" /\ shadow = {}
  /\ exposed = FALSE /\ warned = FALSE /\ reviewed = "none"

-----------------------------------------------------------------------------
(* The session state.                                                      *)

\* What session_state finds: _expire drops a session that was quiet for too
\* long, and the caller gets a fresh one.
Remembered == compromised /\ ~quiet

Touch(found) == compromised' = found /\ quiet' = FALSE

\* An hour without a request or a result: whatever looks at the session next
\* starts a new one, and the history starts again with it.
GoQuiet ==
  /\ cpc \in {"read", "approval", "forwarded", "refused"} /\ spc = "read" /\ shadow = {}
  /\ ~quiet
  /\ quiet' = TRUE
  /\ exposed' = FALSE
  /\ UNCHANGED <<entry, gates, compromised, calls, requestVars, open, resultVars, warned, reviewed>>

-----------------------------------------------------------------------------
(* inspect_client_message, and HookRuntime.handle.  A call whose id is     *)
(* malformed never gets here: StdioProxy refuses it.                       *)

\* The gate that reviews a request: the gateway has no agent input, and the
\* hook gives a tool call to no gate.
GateMode(r) ==
  IF r.input THEN InputMode ELSE IF entry = "hook" THEN "off" ELSE RequestMode
GateReviews(r) == IF r.input THEN InputReview ELSE RequestReview

\* Input goes to its gate at once, or through if there is none.
Read(r) ==
  /\ cpc \in {"read", "forwarded", "refused"} /\ calls < MaxCalls
  /\ r.input => entry = "hook"
  /\ calls' = calls + 1
  /\ request' = r
  /\ cpc' = IF ~r.input THEN "evaluate" ELSE IF GateMode(r) = "off" THEN "decided" ELSE "gate"
  /\ policy' = IF r.input THEN "allow" ELSE policy
  /\ decision' = IF r.input THEN "allow" ELSE decision
  /\ consent' = "none" /\ online' = FALSE
  /\ warned' = exposed /\ reviewed' = "none"
  /\ UNCHANGED <<entry, gates, sessionVars, proposed, open, resultVars, exposed>>

\* resolve_adjudication_action, for findings that are not critical.
Adjudicate(base, v) ==
  IF AdjudicationMode = "shadow" THEN base
  ELSE CASE v \in {"positive", "edge"} -> TruePositive
         [] v = "negative" -> FalsePositive
         [] v \in {"unsure", "failed"} -> "require_approval"

\* evaluate: the policy's action or, where the matching policy asks for it and
\* nothing critical was found, the adjudicator's.
Evaluate(v) ==
  /\ cpc = "evaluate"
  /\ policy' = IF AdjudicationMode # "off" /\ request.level # "critical"
               THEN Adjudicate(request.base, v) ELSE request.base
  /\ decision' = policy'
  /\ cpc' = IF GateMode(request) = "off" THEN "decided" ELSE "gate"
  /\ UNCHANGED <<entry, gates, sessionVars, calls, request, online, proposed, consent, open, resultVars,
                 history>>

\* _normalize_gate_action
Normalize(a) == IF a = "alert" THEN "allow" ELSE a

\* A guard that looks at known capabilities only after a critical finding.
SuspectCriticalOnly(found) ==
  found /\ request.risky /\ ~request.input /\ request.level = "critical"

\* The condition of the online-compromised-session-action finding, which is
\* itself critical.
Suspect(found) == found /\ request.risky /\ ~request.input

\* _should_review
ShouldReview(found) == request.input \/ found \/ request.risky \/ request.level # "none"

\* The start of _review: read the state, collect the findings, and propose what
\* the rules say, or go to the stage reviewer.
GateBegin ==
  LET suspect == Suspect(Remembered)
      critical == request.level = "critical" \/ suspect
  IN
  /\ cpc = "gate"
  /\ Touch(Remembered)
  /\ online' = suspect
  /\ proposed' = Normalize(IF critical THEN TruePositive ELSE request.base)
  /\ cpc' = IF ~critical /\ GateReviews(request) = "hybrid" /\ ShouldReview(Remembered)
            THEN "review" ELSE "guard"
  /\ UNCHANGED <<entry, gates, calls, request, policy, decision, consent, open, resultVars, history>>

\* Trusting a reviewer that did not answer.
TrustSilence(v) ==
  CASE v \in {"positive", "edge"} -> Normalize(TruePositive)
    [] v \in {"negative", "failed"} -> Normalize(FalsePositive)
    [] v = "unsure" -> "require_approval"

\* What a gate makes of the stage reviewer's verdict; any
\* exception counts as a failed review.
ReviewAction(v) ==
  CASE v = "positive" -> Normalize(TruePositive)
    [] v = "edge" -> IF request.level = "none" /\ ~request.input THEN "require_approval"
                     ELSE Normalize(TruePositive)
    [] v = "negative" -> Normalize(FalsePositive)
    [] v \in {"unsure", "failed"} -> "require_approval"

GateReview(v) ==
  /\ cpc = "review"
  /\ proposed' = ReviewAction(v)
  /\ reviewed' = v
  /\ cpc' = "guard"
  /\ UNCHANGED <<entry, gates, sessionVars, calls, request, policy, online, decision, consent, open,
                 resultVars, exposed, warned>>

\* The Session Guard overrides what the gate proposed.
GuardAction ==
  IF GuardMode # "off" /\ online THEN Normalize(CompromisedAction) ELSE proposed

\* A gate that forgets that it is in shadow mode.
AlwaysInForce(p) == p

\* The two shadow modes.  The guard's is tested on the proposed action, not on
\* whether the guard proposed it.
Effective(p) ==
  IF GateMode(request) = "shadow" \/ (GuardMode = "shadow" /\ p = CompromisedAction)
  THEN "allow" ELSE p

\* The end of _review and of its caller: only block and require_approval
\* replace the decision of evaluate, which has not seen an input.
GateEnd ==
  /\ cpc = "guard"
  /\ proposed' = GuardAction
  /\ decision' = IF request.input \/ Effective(proposed') \in {"block", "require_approval"}
                 THEN Effective(proposed') ELSE decision
  /\ Touch(Remembered)
  /\ cpc' = "decided"
  /\ UNCHANGED <<entry, gates, calls, request, policy, online, consent, open, resultVars, history>>

\* The inspection is acted on, by client_to_server or by the hook's client.
Forward ==
  /\ cpc' = "forwarded"
  /\ open' = IF request.input THEN open ELSE open + 1

Decide ==
  /\ cpc = "decided"
  /\ \/ decision = "block" /\ cpc' = "refused" /\ UNCHANGED open
     \/ decision = "require_approval" /\ cpc' = "approval" /\ UNCHANGED open
     \/ decision \in {"allow", "alert"} /\ Forward
  /\ UNCHANGED <<entry, gates, sessionVars, calls, request, policy, online, proposed, decision, consent,
                 resultVars, history>>

Resolved(s) ==
  /\ cpc = "approval"
  /\ consent' = s
  /\ \/ s = "approved" /\ Forward
     \/ s # "approved" /\ cpc' = "refused" /\ UNCHANGED open
  /\ UNCHANGED <<entry, gates, sessionVars, calls, request, policy, online, proposed, decision, resultVars,
                 history>>

-----------------------------------------------------------------------------
(* Results.                                                                *)

\* The review happens in the background, after the result was passed on.
InBackground == ResultMode = "shadow" /\ ResultReview = "hybrid"

Receive(r) ==
  /\ spc = "read" /\ open > 0 /\ entry = "gateway"
  /\ open' = open - 1
  /\ result' = r
  /\ spc' = IF InBackground THEN "deliver" ELSE "observe"
  /\ action' = "allow"
  /\ UNCHANGED <<entry, gates, sessionVars, calls, requestVars, shadow, history>>

\* A failed call (tool.call.failed) is recorded and passed on.
ReceiveError ==
  /\ spc = "read" /\ open > 0
  /\ open' = open - 1
  /\ UNCHANGED <<entry, gates, sessionVars, calls, requestVars, resultVars, history>>

\* post_tool_use: the result is evaluated and recorded, after the fact.
PostToolUse(r) ==
  /\ open > 0 /\ entry = "hook"
  /\ open' = open - 1
  /\ exposed' = (exposed \/ r.injected)
  /\ UNCHANGED <<entry, gates, sessionVars, calls, requestVars, resultVars, warned, reviewed>>

\* _update_state; without a Tool Result Gate it is only called for the guard.
Observed(r) == IF ResultMode = "off" /\ GuardMode = "off" THEN FALSE ELSE r.injected

\* The effective action of the Tool Result Gate: rules, a critical finding or
\* the reviewer's verdict, and nothing but allow in shadow mode.
ResultAction(r, v) ==
  LET proposal ==
        IF ResultReview = "rules" THEN r.base
        ELSE IF r.level = "critical" THEN TruePositive
        ELSE CASE v \in {"positive", "edge"} -> TruePositive
               [] v = "negative" -> FalsePositive
               [] v \in {"unsure", "failed"} -> "require_approval"
  IN  IF ResultMode = "enforce" THEN proposal ELSE "allow"

\* Deciding first and looking for evidence when the result is out.
ObserveLater(v) ==
  /\ spc = "observe"
  /\ action' = ResultAction(result, v)
  /\ shadow' = shadow \cup {result}
  /\ spc' = "deliver"
  /\ UNCHANGED <<entry, gates, sessionVars, calls, requestVars, open, result, history>>

\* observe_result or _inspect_tool_result, before the result is passed on.
Observe(v) ==
  /\ spc = "observe"
  /\ Touch(Remembered \/ Observed(result))
  /\ action' = ResultAction(result, v)
  /\ spc' = "deliver"
  /\ UNCHANGED <<entry, gates, calls, requestVars, open, result, shadow, history>>

\* The agent gets the result, at once or when a human has approved it, or an
\* error in its place.
Deliver ==
  /\ spc = "deliver"
  /\ spc' = "read"
  /\ \/ /\ action # "block"
        /\ exposed' = (exposed \/ result.injected)
     \/ /\ action \in {"block", "require_approval"}
        /\ UNCHANGED exposed
  /\ shadow' = IF InBackground THEN shadow \cup {result} ELSE shadow
  /\ UNCHANGED <<entry, gates, sessionVars, calls, requestVars, open, result, action, warned, reviewed>>

\* inspect_prepared_shadow_tool_result
ShadowObserve(r) ==
  /\ r \in shadow
  /\ shadow' = shadow \ {r}
  /\ Touch(Remembered \/ Observed(r))
  /\ UNCHANGED <<entry, gates, calls, requestVars, open, spc, result, action, history>>

-----------------------------------------------------------------------------
RequestStep ==
  \/ \E v \in Verdicts : Evaluate(v) \/ GateReview(v)
  \/ GateBegin
  \/ GateEnd
  \/ Decide

ResultStep ==
  \/ \E v \in Verdicts : Observe(v)
  \/ Deliver
  \/ \E r \in Results : ShadowObserve(r)

Next ==
  \/ \E r \in Requests : Read(r)
  \/ RequestStep
  \/ \E s \in {"approved", "denied", "expired"} : Resolved(s)
  \/ \E r \in Results : Receive(r) \/ PostToolUse(r)
  \/ ReceiveError
  \/ ResultStep
  \/ GoQuiet

Spec == Init /\ [][Next]_vars

-----------------------------------------------------------------------------
(* Properties.                                                             *)

TypeOK ==
  /\ entry \in Entries /\ gates \in Policies
  /\ compromised \in BOOLEAN /\ quiet \in BOOLEAN
  /\ calls \in 0..MaxCalls /\ open \in Nat
  /\ cpc \in {"read", "evaluate", "gate", "review", "guard", "decided", "approval",
              "forwarded", "refused"}
  /\ request \in Requests
  /\ policy \in Actions /\ proposed \in Actions /\ decision \in Actions
  /\ online \in BOOLEAN
  /\ consent \in {"none", "approved", "denied", "expired"}
  /\ spc \in {"read", "observe", "deliver"}
  /\ result \in Results /\ action \in Actions /\ shadow \subseteq Results
  /\ exposed \in BOOLEAN /\ warned \in BOOLEAN
  /\ reviewed \in Verdicts \cup {"none"}

(* The call or the input went its way, and nobody was asked.               *)
Unasked == cpc = "forwarded" /\ consent # "approved"

(* README.md: the Session Guard restricts risky actions after trusted      *)
(* compromise evidence.  Once the agent has seen an injected result, a     *)
(* risky call it makes is held to compromised_action, however the threads  *)
(* that inspect the call and the results interleave.                       *)
GuardRestricts ==
  GuardMode = "enforce" /\ warned /\ request.risky =>
    /\ CompromisedAction = "require_approval" => ~Unasked
    /\ CompromisedAction = "block" => cpc # "forwarded"

(* The configurations in which the guard is in force: it acts through the  *)
(* Tool Request Gate of the gateway, and evidence is looked for before the *)
(* result is out.                                                          *)
GuardInForce ==
  entry = "gateway" /\ GuardMode = "enforce" /\ RequestMode = "enforce" /\ ~InBackground

(* In those configurations the guard restricts every risky call, although  *)
(* _review reads the session several times around a slow reviewer.         *)
GuardHolds == GuardInForce => GuardRestricts

(* docs/runtime-gates.md: provider errors, low confidence and uncertain    *)
(* verdicts fail safe to approval.  No call and no input goes out on the   *)
(* strength of a review of an enforcing gate that failed or was not sure.  *)
DoubtIsApproved ==
  GateMode(request) = "enforce" /\ reviewed \in {"unsure", "failed"} => ~Unasked

(* The configurations in which the guard's mode cannot cancel that.        *)
ReviewInForce == GateMode(request) = "enforce" /\ GuardMode # "shadow"

(* In those configurations a failed or doubtful review fails safe,         *)
(* whatever evaluate, the guard and the result thread did meanwhile.       *)
ReviewFailsSafe == ReviewInForce => DoubtIsApproved

(* README.md, observe before enforcing: without an enforcing gate of its   *)
(* own a call meets the fate that evaluate decided, and an input passes,   *)
(* whatever the gate, the guard and the result reviews saw meanwhile.      *)
ShadowIsInert ==
  GateMode(request) # "enforce" =>
    /\ Unasked => policy \in {"allow", "alert"}
    /\ cpc = "refused" /\ consent = "none" => policy = "block"
    /\ consent # "none" => policy = "require_approval"

-----------------------------------------------------------------------------
(* The inductive invariant behind the safety properties.                   *)

(* A call goes out on a decision that lets it, or on a human's word, and   *)
(* a human is only asked when the decision says so.                        *)
DecisionInv ==
  /\ cpc = "approval" => decision = "require_approval"
  /\ cpc = "forwarded" =>
       decision \in {"allow", "alert"} \/ (decision = "require_approval" /\ consent = "approved")

(* Where a failed or doubtful review stands: it was made for a request     *)
(* without a critical finding, so the guard does not overrule it.          *)
ReviewInv ==
  /\ cpc \in {"evaluate", "gate", "review"} => reviewed = "none"
  /\ cpc = "review" => ~online
  /\ reviewed \in {"unsure", "failed"} =>
       /\ cpc = "guard" => proposed = "require_approval" /\ ~online
       /\ cpc \in {"decided", "approval", "forwarded", "refused"} =>
            decision = "require_approval"

(* Where a request stands that no enforcing gate looked at.                *)
ShadowInv ==
  /\ cpc \in {"gate", "review", "guard"} => GateMode(request) # "off"
  /\ request.input => cpc # "evaluate" /\ policy = "allow"
  /\ cpc # "read" /\ cpc # "evaluate" => decision = policy
  /\ consent # "none" => cpc \in {"forwarded", "refused"} /\ decision = "require_approval"
  /\ cpc = "refused" /\ consent = "none" => decision = "block"

(* How the evidence travels: from the result to the session before the     *)
(* agent can see it, and from the session to the request it makes next.    *)
GuardInv ==
  /\ shadow = {}
  /\ ~request.input
  /\ exposed => Remembered
  /\ spc = "deliver" /\ result.injected => Remembered
  /\ warned /\ cpc \in {"evaluate", "gate"} => Remembered
  /\ warned /\ request.risky /\ cpc \in {"review", "guard"} => online
  /\ warned /\ request.risky /\ cpc \in {"decided", "approval", "forwarded", "refused"} =>
       (CompromisedAction \in {"block", "require_approval"} => decision = CompromisedAction)

IInv ==
  /\ TypeOK
  /\ DecisionInv
  /\ ReviewInForce => ReviewInv
  /\ GuardInForce => GuardInv
  /\ GateMode(request) # "enforce" => ShadowInv
=============================================================================
