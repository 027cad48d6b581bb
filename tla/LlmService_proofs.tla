-------------------------- MODULE LlmService_proofs --------------------------
(***************************************************************************)
(* Proofs about LlmService, for every set of callers, requests, providers   *)
(* and settings.  IInv is inductive: an edit only adds to what the file has *)
(* held, and a step of a caller replaces the record of that caller alone.   *)
(***************************************************************************)
EXTENDS LlmService, TLAPS

-----------------------------------------------------------------------------
(* What is resolved.                                                        *)

\* What a configuration resolves to has the types of a configuration, and the key
\* and the model are there when it is usable.
LEMMA ResolvedType ==
  ASSUME NEW f \in Files \cup {NoFile}, NEW a \in Settings
  PROVE  Resolved(f, a) \in [url : Maybe(Urls), key : Maybe(Keys), model : Maybe(Models)]
  <1>1. /\ f.url \in Maybe(Urls) /\ f.key \in Maybe(Keys) /\ f.model \in Maybe(Models)
    BY DEF Files, NoFile, Maybe
  <1>2. /\ a.url \in Maybe(Urls) /\ a.model \in Maybe(Models)
    BY DEF Settings
  <1>3. /\ a.env.url \in Maybe(Urls) /\ a.env.key \in Maybe(Keys) /\ a.env.model \in Maybe(Models)
    BY DEF Settings, Environment
  <1> QED BY <1>1, <1>2, <1>3, ServiceAssumption DEF Resolved, First2, First3, Maybe

\* A merged configuration that has a model is one the file may hold.
LEMMA MergeType ==
  ASSUME NEW f \in Files \cup {NoFile}, NEW b \in Bodies, Merge(f, b).model # None
  PROVE  Merge(f, b) \in Files
  <1>1. /\ f.url \in Maybe(Urls) /\ f.key \in Maybe(Keys)
        /\ f.model \in Maybe(Models) /\ f.gate \in Maybe(Models)
        /\ f # NoFile => f.url \in Urls
    BY DEF Files, NoFile, Maybe
  <1>2. /\ b.url \in Urls \cup {"omit"} /\ b.key \in Keys \cup {"omit"} /\ b.clear \in BOOLEAN
        /\ b.model \in Maybe(Models) \cup {"omit"} /\ b.gate \in Maybe(Models) \cup {"omit"}
    BY DEF Bodies
  <1>3. /\ Given(b.url, IF f = NoFile THEN DefaultUrl ELSE f.url) \in Urls
        /\ (IF b.clear THEN None ELSE Given(b.key, f.key)) \in Maybe(Keys)
        /\ Given(b.model, f.model) \in Maybe(Models)
        /\ Given(b.gate, f.gate) \in Maybe(Models)
    BY <1>1, <1>2, ServiceAssumption DEF Given, Maybe
  <1>4. Merge(f, b).model = Given(b.model, f.model)
    BY DEF Merge
  <1>5. Given(b.model, f.model) \in Models
    BY <1>3, <1>4 DEF Maybe
  <1> QED BY <1>3, <1>5 DEF Merge, Files

\* Command line and environment make up the settings of a call.
LEMMA WithType ==
  ASSUME NEW a \in Arguments \cup {NoArguments}, NEW v \in Environment
  PROVE  With(a, v) \in Settings
  <1>1. a.url \in Maybe(Urls) /\ a.model \in Maybe(Models)
    BY ServiceAssumption DEF NoArguments, Maybe
  <1> QED BY <1>1 DEF With, Settings

LEMMA NoSettingsType == NoSettings \in Settings
  BY WithType DEF NoSettings, Environment, Maybe

-----------------------------------------------------------------------------
(* A step of a caller.                                                      *)

\* The caller c goes on with r, and the other callers stay where they are.
Goes(c, r) ==
    call' = [call EXCEPT ![c] = r]

\* A record that says nothing wrong of the caller it is of.
Proper(r) ==
    /\ r \in Call /\ Standing(r) /\ Requests(r)
    /\ Usable(r.conf) => \E v \in versions : ResolvedFrom(r, v)

\* A caller that does nothing is proper.
LEMMA IdleProper == ASSUME TypeOK PROVE Proper(Idle)
  <1>1. Idle \in Call /\ Standing(Idle) /\ ~Usable(Idle.conf)
    BY NoSettingsType DEF Idle, Call, Kinds, Unconfigured, Maybe, Standing, Usable
  <1>2. Requests(Idle)
    BY DEF Idle, Requests, MaxAttempts
  <1> QED BY <1>1, <1>2 DEF Proper

\* Every caller is.
LEMMA CallsProper == ASSUME IInv, NEW c \in Callers PROVE Proper(call[c])
  BY DEF IInv, TypeOK, CallInv, OneProvider, Proper

\* What a caller has resolved does not depend on its place in the call.
LEMMA GoesOn ==
  ASSUME IInv, NEW c \in Callers, NEW r, Proper(r), Goes(c, r), UNCHANGED fileVars
  PROVE  /\ call' \in [Callers -> Call] /\ CallInv' /\ OneProvider'
         /\ call'[c] = r /\ \A d \in Callers \ {c} : call'[d] = call[d]
  <1>1. call \in [Callers -> Call] /\ r \in Call
    BY DEF IInv, TypeOK, Proper
  <1>2. /\ call' \in [Callers -> Call] /\ call'[c] = r
        /\ \A d \in Callers \ {c} : call'[d] = call[d]
    BY <1>1 DEF Goes
  <1>3. \A d \in Callers : Proper(call'[d])
    BY <1>2, CallsProper
  <1>4. CallInv'
    BY <1>3 DEF CallInv, Proper, Standing, Requests
  <1>5. ASSUME NEW d \in Callers, Usable(call'[d].conf)
        PROVE  \E v \in versions' : ResolvedFrom(call[d], v)'
    <2>1. PICK v \in versions : ResolvedFrom(call'[d], v)
      BY <1>3, <1>5 DEF Proper
    <2>2. ResolvedFrom(call[d], v)'
      BY <2>1 DEF ResolvedFrom, Resolved, fileVars
    <2> QED BY <2>1, <2>2 DEF fileVars
  <1>6. OneProvider'
    BY <1>5 DEF OneProvider, Usable
  <1> QED BY <1>2, <1>4, <1>6

-----------------------------------------------------------------------------
(* What the steps before the store leave alone.                             *)

\* The store and its counters say what they said of a caller that neither was nor
\* is between store and record.
LEMMA StoreStays ==
  ASSUME IInv, NEW c \in Callers, NEW r, Proper(r), Goes(c, r), UNCHANGED <<fileVars, storeVars>>,
         c \notin Storing, r.pc \notin {"record", "count"}, r.seen \in {0, call[c].seen}
  PROVE  FailuresEarned' /\ HealthInv'
  <1>1. /\ call'[c] = r /\ \A d \in Callers \ {c} : call'[d] = call[d]
    BY GoesOn
  <1>2. Storing' = Storing
    BY <1>1 DEF Storing
  <1>3. health' = health /\ noted' = noted /\ streak' = streak /\ raced' = raced
    BY DEF storeVars
  <1>4. health.count \in Nat /\ noted \in Nat
    BY DEF IInv, TypeOK
  <1>5. FailuresEarned'
    BY <1>1, <1>3, <1>4 DEF IInv, FailuresEarned
  <1>6. \A d \in Storing : call'[d] = call[d]
    BY <1>1 DEF Storing
  <1>7. HealthInv'
    BY <1>2, <1>3, <1>6 DEF IInv, HealthInv
  <1> QED BY <1>5, <1>7

\* So a step that sends its caller on keeps the invariant.
LEMMA StepKeeps ==
  ASSUME IInv, NEW c \in Callers, NEW r, Proper(r), Goes(c, r), UNCHANGED <<fileVars, storeVars>>,
         c \notin Storing, r.pc \notin {"record", "count"}, r.seen \in {0, call[c].seen},
         triages' \in 0..MaxTriages
  PROVE  IInv'
  <1>1. call' \in [Callers -> Call] /\ CallInv' /\ OneProvider'
    BY GoesOn
  <1>2. FailuresEarned' /\ HealthInv'
    BY StoreStays
  <1>3. TypeOK'
    BY <1>1 DEF IInv, TypeOK, fileVars, storeVars
  <1> QED BY <1>1, <1>2, <1>3 DEF IInv, fileVars

-----------------------------------------------------------------------------
(* The steps of a call.                                                     *)

\* A call begins.
LEMMA BeginKeeps ==
  ASSUME IInv, NEW c \in Callers, NEW k \in Kinds, NEW a \in Settings,
         Begin(c, k, a), triages' \in 0..MaxTriages
  PROVE  IInv'
  <1> DEFINE r == [Idle EXCEPT !.pc = "resolve", !.kind = k, !.args = a]
  <1>1. Goes(c, r) /\ UNCHANGED <<fileVars, storeVars>> /\ c \notin Storing
    BY DEF Begin, Goes, Storing
  <1>2. r \in Call /\ r.tries = 0 /\ r.pc = "resolve" /\ r.seen = 0 /\ r.conf = Unconfigured
    BY DEF Idle, Call, Unconfigured, Maybe
  <1>3. Standing(r) /\ Requests(r) /\ ~Usable(r.conf)
    BY <1>2, ServiceAssumption DEF Standing, Requests, MaxAttempts, Usable, Unconfigured
  <1>4. Proper(r)
    BY <1>2, <1>3 DEF Proper
  <1>5. r.pc \notin {"record", "count"} /\ r.seen \in {0, call[c].seen}
    BY <1>2
  <1> HIDE DEF r
  <1> QED BY <1>1, <1>4, <1>5, StepKeeps

\* A configuration is not to be had.
LEMMA UnavailableKeeps ==
  ASSUME IInv, NEW c \in Callers, call[c].pc \in {"resolve", "gate"}, Unavailable(c),
         UNCHANGED <<fileVars, storeVars, triages>>
  PROVE  IInv'
  <1>1. call[c] \in Call /\ c \notin Storing /\ TypeOK /\ triages' \in 0..MaxTriages /\ call[c].tries = 0
    BY CallsProper DEF Storing, Proper, Standing, IInv, TypeOK
  <1>2. CASE call[c].kind \in Gates
    <2> DEFINE r == [call[c] EXCEPT !.pc = "ready", !.conf = Unconfigured]
    <2>1. Goes(c, r)
      BY <1>2 DEF Unavailable, Goes
    <2>2. Unconfigured \in [url : Maybe(Urls), key : Maybe(Keys), model : Maybe(Models)] /\ ~Usable(Unconfigured)
      BY DEF Unconfigured, Maybe, Usable
    <2>3. /\ r \in Call /\ r.pc = "ready" /\ r.conf = Unconfigured /\ r.tries = 0
          /\ r.seen = call[c].seen /\ r.kind = call[c].kind
      BY <1>1, <2>2 DEF Call
    <2>4. Standing(r) /\ Requests(r)
      BY <1>2, <2>3, ServiceAssumption DEF Standing, Requests, MaxAttempts
    <2> HIDE DEF r
    <2>5. Proper(r)
      BY <2>2, <2>3, <2>4 DEF Proper
    <2> QED BY <1>1, <2>1, <2>3, <2>5, StepKeeps
  <1>3. CASE call[c].kind \notin Gates
    <2>1. Goes(c, Idle) /\ Proper(Idle)
      BY <1>1, <1>3, IdleProper DEF Unavailable, Goes
    <2>2. Idle.pc \notin {"record", "count"} /\ Idle.seen \in {0, call[c].seen}
      BY DEF Idle
    <2> QED BY <1>1, <2>1, <2>2, StepKeeps
  <1> QED BY <1>2, <1>3

\* A configuration is resolved, or is not to be had.
LEMMA ResolveKeeps ==
  ASSUME IInv, NEW c \in Callers, Resolve(c)
  PROVE  IInv'
  <1>1. /\ call \in [Callers -> Call] /\ call[c] \in Call /\ Proper(call[c]) /\ call[c].pc = "resolve"
        /\ call[c].tries = 0 /\ c \notin Storing
    BY CallsProper DEF IInv, TypeOK, Resolve, Storing, Proper, Standing
  <1>2. UNCHANGED <<fileVars, storeVars>> /\ triages' \in 0..MaxTriages /\ TypeOK /\ file \in versions
    BY DEF Resolve, IInv, TypeOK
  <1> DEFINE q == Resolved(file, call[c].args)
             p == IF call[c].kind \in {"triage", "test"} THEN "post" ELSE "gate"
             r == [call[c] EXCEPT !.conf = q, !.pc = p]
  <1>3. CASE Usable(q) /\ Goes(c, r)
    <2>1. q \in [url : Maybe(Urls), key : Maybe(Keys), model : Maybe(Models)]
      BY <1>1, <1>2, ResolvedType DEF TypeOK, Call
    <2>2. p \in {"post", "gate"} /\ (p = "gate" => call[c].kind \in Gates \cup {"gate_test"})
      BY <1>1 DEF Call, Kinds, Tests
    <2> HIDE DEF p
    <2>3. ResolvedFrom(r, file)
      BY <1>1 DEF ResolvedFrom, Call
    <2> HIDE DEF q
    <2>4. /\ r \in Call /\ r.pc = p /\ r.conf = q /\ r.kind = call[c].kind /\ r.tries = 0
          /\ r.seen = call[c].seen
      BY <1>1, <2>1, <2>2 DEF Call
    <2>5. Standing(r) /\ Requests(r)
      BY <1>3, <2>2, <2>4, ServiceAssumption DEF Standing, Requests, MaxAttempts
    <2>6. Proper(r)
      BY <1>2, <2>3, <2>4, <2>5 DEF Proper
    <2>7. r.pc \notin {"record", "count"} /\ r.seen \in {0, call[c].seen}
      BY <2>2, <2>4
    <2> HIDE DEF r
    <2> QED BY <1>1, <1>2, <1>3, <2>6, <2>7, StepKeeps
  <1>4. CASE Unavailable(c)
    BY <1>1, <1>4, UnavailableKeeps DEF Resolve
  <1>5. (Usable(q) /\ Goes(c, r)) \/ Unavailable(c)
    BY <1>1 DEF Resolve, Goes
  <1> QED BY <1>3, <1>4, <1>5

\* A caller that has the same configuration at another place.
LEMMA MoveProper ==
  ASSUME IInv, NEW c \in Callers, NEW r \in Call, Standing(r), Requests(r),
         r.conf = call[c].conf, r.args = call[c].args
  PROVE  Proper(r)
  BY CallsProper DEF Proper, ResolvedFrom

\* The second reading changes the model alone.
LEMMA ResolveGateKeeps ==
  ASSUME IInv, NEW c \in Callers, ResolveGate(c)
  PROVE  IInv'
  <1>1. /\ call \in [Callers -> Call] /\ call[c] \in Call /\ Proper(call[c]) /\ call[c].pc = "gate"
        /\ call[c].tries = 0 /\ c \notin Storing /\ call[c].kind \in Gates \cup {"gate_test"}
        /\ Usable(call[c].conf)
    BY CallsProper DEF IInv, TypeOK, ResolveGate, Storing, Proper, Standing
  <1>2. UNCHANGED <<fileVars, storeVars>> /\ triages' \in 0..MaxTriages
    BY DEF ResolveGate, IInv, TypeOK
  <1> DEFINE m == First3(call[c].args.env.gate, file.gate, call[c].conf.model)
             q == [call[c].conf EXCEPT !.model = m]
             p == IF call[c].kind \in Gates THEN "ready" ELSE "post"
             r == [call[c] EXCEPT !.conf = q, !.pc = p]
  <1>3. call[c].args.env.gate \in Maybe(Models) /\ file.gate \in Maybe(Models) /\ call[c].conf.model \in Models
    BY <1>1, ServiceAssumption DEF IInv, TypeOK, Settings, Environment, Files, NoFile, Maybe, Call, Usable
  <1>4. m \in Models
    BY <1>3 DEF First3, First2, Maybe
  <1>5. p \in {"ready", "post"} /\ (p = "ready" => call[c].kind \in Gates)
    OBVIOUS
  <1>6. Goes(c, r) \/ IInv'
    <2>1. CASE Unavailable(c)
      BY <1>1, <1>2, <2>1, UnavailableKeeps DEF ResolveGate
    <2>2. Unavailable(c) \/ Goes(c, r)
      BY <1>1 DEF ResolveGate, Goes, Call
    <2> QED BY <2>1, <2>2
  <1> HIDE DEF m, p
  <1>7. /\ q \in [url : Maybe(Urls), key : Maybe(Keys), model : Maybe(Models)]
        /\ q.url = call[c].conf.url /\ q.key = call[c].conf.key /\ q.model = m
    BY <1>1, <1>4 DEF Call, Maybe
  <1>8. Usable(q)
    BY <1>1, <1>4, <1>7, ServiceAssumption DEF Usable
  <1> HIDE DEF q
  <1>9. /\ r \in Call /\ r.pc = p /\ r.conf = q /\ r.kind = call[c].kind /\ r.tries = 0
        /\ r.seen = call[c].seen /\ r.args = call[c].args
    BY <1>1, <1>5, <1>7 DEF Call
  <1> HIDE DEF r
  <1>10. Standing(r) /\ Requests(r)
    BY <1>1, <1>5, <1>8, <1>9, ServiceAssumption DEF Standing, Requests, MaxAttempts
  <1>11. PICK v \in versions : ResolvedFrom(call[c], v)
    BY <1>1 DEF Proper
  <1>12. ResolvedFrom(r, v)
    BY <1>7, <1>9, <1>11 DEF ResolvedFrom
  <1>13. Proper(r)
    BY <1>9, <1>10, <1>11, <1>12 DEF Proper
  <1>14. r.pc \notin {"record", "count"} /\ r.seen \in {0, call[c].seen}
    BY <1>5, <1>9
  <1> QED BY <1>1, <1>2, <1>6, <1>13, <1>14, StepKeeps

\* A reviewer is asked.
LEMMA ReviewKeeps ==
  ASSUME IInv, NEW c \in Callers, Review(c)
  PROVE  IInv'
  <1> DEFINE r == [call[c] EXCEPT !.pc = "post"]
  <1>1. /\ call[c] \in Call /\ call[c].tries = 0 /\ c \notin Storing /\ Usable(call[c].conf)
    BY CallsProper DEF Review, Storing, Proper, Standing
  <1>2. Goes(c, r) /\ UNCHANGED <<fileVars, storeVars>> /\ triages' \in 0..MaxTriages
    BY DEF Review, Goes, IInv, TypeOK
  <1>3. /\ r \in Call /\ r.pc = "post" /\ r.conf = call[c].conf /\ r.tries = 0
        /\ r.seen = call[c].seen /\ r.args = call[c].args
    BY <1>1 DEF Call
  <1>4. Standing(r) /\ Requests(r)
    BY <1>1, <1>3, ServiceAssumption DEF Standing, Requests, MaxAttempts
  <1> HIDE DEF r
  <1>5. Proper(r)
    BY <1>3, <1>4, MoveProper
  <1> QED BY <1>1, <1>2, <1>3, <1>5, StepKeeps

\* The request is made again, while the client still may.
LEMMA AgainKeeps ==
  ASSUME IInv, NEW c \in Callers, call[c].pc = "post", Again(c), UNCHANGED <<fileVars, storeVars, triages>>,
         \/ call[c].kind \in {"triage", "test"} /\ call[c].tries + 1 < MaxAttempts
         \/ call[c].kind \in {"stage", "result"} /\ call[c].tries < OutputRetries
  PROVE  IInv'
  <1> DEFINE r == [call[c] EXCEPT !.tries = call[c].tries + 1]
  <1>1. call[c] \in Call /\ c \notin Storing /\ Usable(call[c].conf)
    BY CallsProper DEF Storing, Proper, Standing
  <1>2. Goes(c, r) /\ UNCHANGED <<fileVars, storeVars>> /\ triages' \in 0..MaxTriages
    BY DEF Again, Goes, IInv, TypeOK
  <1>3. /\ r \in Call /\ r.pc = "post" /\ r.conf = call[c].conf /\ r.tries = call[c].tries + 1
        /\ r.seen = call[c].seen /\ r.args = call[c].args /\ r.kind = call[c].kind /\ call[c].tries \in Nat
    BY <1>1 DEF Call
  <1>4. Standing(r) /\ Requests(r)
    BY <1>1, <1>3, ServiceAssumption DEF Standing, Requests, MaxAttempts
  <1> HIDE DEF r
  <1>5. Proper(r)
    BY <1>3, <1>4, MoveProper
  <1> QED BY <1>1, <1>2, <1>3, <1>5, StepKeeps

\* The call is over.
LEMMA ReturnsKeeps ==
  ASSUME IInv, NEW c \in Callers, call[c].pc = "post", Returns(c), UNCHANGED <<fileVars, storeVars, triages>>
  PROVE  IInv'
  <1>1. call[c] \in Call /\ c \notin Storing /\ TypeOK /\ triages' \in 0..MaxTriages
    BY CallsProper DEF Storing, Proper, IInv, TypeOK
  <1>2. CASE call[c].kind \in Gates
    <2> DEFINE r == [call[c] EXCEPT !.pc = "ready", !.tries = 0]
    <2>1. Goes(c, r)
      BY <1>2 DEF Returns, Goes
    <2>2. /\ r \in Call /\ r.pc = "ready" /\ r.conf = call[c].conf /\ r.tries = 0
          /\ r.seen = call[c].seen /\ r.args = call[c].args /\ r.kind = call[c].kind
      BY <1>1 DEF Call
    <2>3. Standing(r) /\ Requests(r)
      BY <1>2, <2>2, ServiceAssumption DEF Standing, Requests, MaxAttempts
    <2> HIDE DEF r
    <2>4. Proper(r)
      BY <2>2, <2>3, MoveProper
    <2> QED BY <1>1, <2>1, <2>2, <2>4, StepKeeps
  <1>3. CASE call[c].kind \notin Gates
    <2>1. Goes(c, Idle) /\ Proper(Idle)
      BY <1>1, <1>3, IdleProper DEF Returns, Goes
    <2>2. Idle.pc \notin {"record", "count"} /\ Idle.seen \in {0, call[c].seen}
      BY DEF Idle
    <2> QED BY <1>1, <2>1, <2>2, StepKeeps
  <1> QED BY <1>2, <1>3

\* A triage has its answer or its error.
LEMMA ConcludesKeeps ==
  ASSUME IInv, NEW c \in Callers, NEW good \in BOOLEAN, call[c].pc = "post", Concludes(c, good),
         UNCHANGED <<fileVars, storeVars, triages>>
  PROVE  IInv'
  <1>1. CASE call[c].kind = "triage"
    <2> DEFINE r == [call[c] EXCEPT !.pc = "save", !.good = good, !.tries = 0]
    <2>1. call[c] \in Call /\ c \notin Storing /\ triages' \in 0..MaxTriages
      BY CallsProper DEF Storing, Proper, IInv, TypeOK
    <2>2. Goes(c, r)
      BY <1>1 DEF Concludes, Goes, IInv, TypeOK
    <2>3. /\ r \in Call /\ r.pc = "save" /\ r.conf = call[c].conf /\ r.tries = 0
          /\ r.seen = call[c].seen /\ r.args = call[c].args /\ r.kind = call[c].kind
      BY <2>1 DEF Call
    <2>4. Standing(r) /\ Requests(r)
      BY <1>1, <2>3, ServiceAssumption DEF Standing, Requests, MaxAttempts
    <2> HIDE DEF r
    <2>5. Proper(r)
      BY <2>3, <2>4, MoveProper
    <2> QED BY <2>1, <2>2, <2>3, <2>5, StepKeeps
  <1>2. CASE call[c].kind # "triage"
    BY <1>2, ReturnsKeeps DEF Concludes
  <1> QED BY <1>1, <1>2

\* Whatever the provider answers.
LEMMA PostKeeps ==
  ASSUME IInv, NEW c \in Callers, Post(c)
  PROVE  IInv'
  <1>1. CASE ProviderPost(c)
    <2>1. \A k, a : Accepted(k, a) \in BOOLEAN
      BY DEF Accepted
    <2> QED BY <1>1, <2>1, AgainKeeps, ReturnsKeeps, ConcludesKeeps DEF ProviderPost
  <1>2. CASE Deadline(c)
    BY <1>2, ConcludesKeeps DEF Deadline
  <1>3. CASE AdjudicatorPost(c)
    BY <1>3, ReturnsKeeps DEF AdjudicatorPost
  <1>4. CASE StagePost(c)
    BY <1>4, AgainKeeps, ReturnsKeeps DEF StagePost
  <1>5. CASE ResultPost(c)
    BY <1>5, AgainKeeps, ReturnsKeeps DEF ResultPost
  <1> QED BY <1>1, <1>2, <1>3, <1>4, <1>5 DEF Post

-----------------------------------------------------------------------------
(* The store.                                                               *)

\* What every step that stores has in common: the parts about calls, and the types.
LEMMA StoreStep ==
  ASSUME IInv, NEW c \in Callers, NEW r, Proper(r), Goes(c, r), UNCHANGED <<fileVars, triages>>,
         health' \in [count : Nat, status : {"unknown", "healthy", "degraded", "unhealthy"}],
         noted' \in Nat, streak' \in Nat, raced' \in BOOLEAN
  PROVE  TypeOK' /\ CallInv' /\ OneProvider' /\ (file \in versions)'
         /\ call'[c] = r /\ \A d \in Callers \ {c} : call'[d] = call[d]
  <1>1. /\ call' \in [Callers -> Call] /\ CallInv' /\ OneProvider'
        /\ call'[c] = r /\ \A d \in Callers \ {c} : call'[d] = call[d]
    BY GoesOn
  <1>2. TypeOK'
    BY <1>1 DEF IInv, TypeOK, fileVars
  <1> QED BY <1>1, <1>2 DEF IInv, fileVars

\* The numbers of the store.
LEMMA Counters ==
  ASSUME IInv
  PROVE  /\ health.count \in Nat /\ noted \in Nat /\ streak \in Nat /\ raced \in BOOLEAN
         /\ health \in [count : Nat, status : {"unknown", "healthy", "degraded", "unhealthy"}]
         /\ \A c \in Callers : call[c] \in Call /\ call[c].seen \in Nat /\ call[c].good \in BOOLEAN
  <1>1. \A c \in Callers : call[c] \in Call
    BY DEF IInv, TypeOK
  <1>2. \A c \in Callers : call[c].seen \in Nat /\ call[c].good \in BOOLEAN
    BY <1>1 DEF Call
  <1> QED BY <1>1, <1>2 DEF IInv, TypeOK

\* An analysis is stored: the counter is behind by one.
LEMMA SaveKeeps ==
  ASSUME IInv, NEW c \in Callers, SaveAnalysis(c)
  PROVE  IInv'
  <1> DEFINE r == [call[c] EXCEPT !.pc = "record"]
  <1>1. /\ call[c] \in Call /\ call[c].tries = 0 /\ c \notin Storing /\ call[c].kind = "triage"
    BY CallsProper DEF SaveAnalysis, Storing, Proper, Standing
  <1>2. /\ r \in Call /\ r.pc = "record" /\ r.conf = call[c].conf /\ r.tries = 0 /\ r.good = call[c].good
        /\ r.seen = call[c].seen /\ r.args = call[c].args /\ r.kind = "triage"
    BY <1>1 DEF Call
  <1>3. Standing(r) /\ Requests(r)
    BY <1>2, ServiceAssumption DEF Standing, Requests, MaxAttempts
  <1>4. Goes(c, r)
    BY DEF SaveAnalysis, Goes
  <1> HIDE DEF r
  <1>5. Proper(r)
    BY <1>2, <1>3, MoveProper
  <1>6. /\ health' = health /\ noted' = noted /\ raced' = (Storing # {} \/ (raced /\ ~call[c].good))
        /\ streak' = IF call[c].good \/ raced' THEN 0 ELSE streak + 1
        /\ UNCHANGED <<fileVars, triages>>
    BY DEF SaveAnalysis
  <1>7. streak' \in Nat /\ raced' \in BOOLEAN
    BY <1>6, Counters
  <1>8. /\ TypeOK' /\ CallInv' /\ OneProvider' /\ (file \in versions)'
        /\ call'[c] = r /\ \A d \in Callers \ {c} : call'[d] = call[d]
    BY <1>4, <1>5, <1>6, <1>7, Counters, StoreStep
  <1>9. FailuresEarned'
    <2>1. \A d \in Callers : call'[d].pc = "count" => call[d].pc = "count" /\ call'[d].seen = call[d].seen
      BY <1>2, <1>8
    <2> QED BY <1>6, <2>1 DEF IInv, FailuresEarned
  <1>10. HealthInv'
    <2>1. SUFFICES ASSUME ~raced' PROVE HealthInv'
      BY DEF HealthInv
    <2>2. Storing = {} /\ (~call[c].good => health.count = streak)
      BY <1>6, <2>1 DEF IInv, HealthInv
    <2>3. Storing' = {c}
      BY <1>2, <1>8, <2>2 DEF Storing
    <2>4. streak' = IF call'[c].good THEN 0 ELSE health'.count + 1
      BY <1>2, <1>6, <1>8, <2>1, <2>2
    <2> QED BY <1>2, <1>8, <2>3, <2>4 DEF HealthInv
  <1> QED BY <1>8, <1>9, <1>10 DEF IInv

\* The counter is read.
LEMMA ReadKeeps ==
  ASSUME IInv, NEW c \in Callers, ReadFailures(c)
  PROVE  IInv'
  <1> DEFINE r == [call[c] EXCEPT !.pc = "count", !.seen = health.count]
  <1>1. /\ call[c] \in Call /\ call[c].tries = 0 /\ c \in Storing /\ call[c].kind = "triage" /\ ~call[c].good
        /\ call[c].pc = "record"
    BY CallsProper DEF ReadFailures, Storing, Proper, Standing
  <1>2. /\ r \in Call /\ r.pc = "count" /\ r.conf = call[c].conf /\ r.tries = 0 /\ r.good = call[c].good
        /\ r.seen = health.count /\ r.args = call[c].args /\ r.kind = "triage"
    BY <1>1, Counters DEF Call
  <1>3. Standing(r) /\ Requests(r)
    BY <1>1, <1>2, ServiceAssumption DEF Standing, Requests, MaxAttempts
  <1>4. Goes(c, r)
    BY DEF ReadFailures, Goes
  <1> HIDE DEF r
  <1>5. Proper(r)
    BY <1>2, <1>3, MoveProper
  <1>6. health' = health /\ noted' = noted /\ raced' = raced /\ streak' = streak /\ UNCHANGED <<fileVars, triages>>
    BY DEF ReadFailures, storeVars
  <1>7. /\ TypeOK' /\ CallInv' /\ OneProvider' /\ (file \in versions)'
        /\ call'[c] = r /\ \A d \in Callers \ {c} : call'[d] = call[d]
    BY <1>4, <1>5, <1>6, Counters, StoreStep
  <1>8. FailuresEarned'
    BY <1>2, <1>6, <1>7 DEF IInv, FailuresEarned
  <1>9. Storing' = Storing
    BY <1>1, <1>2, <1>7 DEF Storing
  <1>10. HealthInv'
    <2>1. SUFFICES ASSUME ~raced PROVE HealthInv'
      BY <1>6 DEF HealthInv
    <2>2. \A d \in Storing : d = c
      BY <1>1, <2>1 DEF IInv, HealthInv
    <2>3. streak = health.count + 1
      BY <1>1, <2>1 DEF IInv, HealthInv
    <2> QED BY <1>1, <1>2, <1>6, <1>7, <1>9, <2>2, <2>3 DEF HealthInv
  <1> QED BY <1>7, <1>8, <1>10 DEF IInv

\* The record is made, whichever it is, and its caller is gone.
LEMMA RecordKeeps ==
  ASSUME IInv, NEW c \in Callers, WriteFailures(c) \/ RecordSuccess(c)
  PROVE  IInv'
  <1>1. call[c] \in Call /\ c \in Storing /\ TypeOK
    BY Counters DEF WriteFailures, RecordSuccess, Storing, IInv
  <1>2. Goes(c, Idle) /\ Proper(Idle)
    BY <1>1, IdleProper DEF WriteFailures, RecordSuccess, Goes
  <1>3. streak' = streak /\ raced' = raced /\ UNCHANGED <<fileVars, triages>>
    BY DEF WriteFailures, RecordSuccess
  <1>4. \/ /\ call[c].pc = "count" /\ ~call[c].good /\ noted' = noted + 1 /\ health'.count = call[c].seen + 1
           /\ health'.status = (IF call[c].seen + 1 >= 3 THEN "unhealthy" ELSE "degraded")
           /\ health' \in [count : Nat, status : {"unknown", "healthy", "degraded", "unhealthy"}]
        \/ /\ call[c].pc = "record" /\ call[c].good /\ health'.count = 0 /\ health'.status = "healthy"
           /\ noted' = IF \E d \in Callers : call[d].pc = "count" THEN noted ELSE 0
           /\ health' \in [count : Nat, status : {"unknown", "healthy", "degraded", "unhealthy"}]
    <2>1. CASE WriteFailures(c)
      <3>1. ~call[c].good
        BY <2>1, CallsProper DEF WriteFailures, Proper, Standing
      <3> QED BY <2>1, <3>1, Counters DEF WriteFailures
    <2>2. CASE RecordSuccess(c)
      BY <2>2 DEF RecordSuccess
    <2> QED BY <2>1, <2>2
  <1>5. noted' \in Nat
    BY <1>4, Counters
  <1>6. /\ TypeOK' /\ CallInv' /\ OneProvider' /\ (file \in versions)'
        /\ call'[c] = Idle /\ \A d \in Callers \ {c} : call'[d] = call[d]
    BY <1>2, <1>3, <1>4, <1>5, Counters, StoreStep
  <1>7. Idle.seen = 0 /\ Idle.pc = "idle"
    BY DEF Idle
  <1>8. FailuresEarned'
    <2>1. /\ \A d \in Callers : call[d].seen \in Nat /\ (call[d].pc = "count" => call[d].seen <= noted)
          /\ noted \in Nat /\ health.count <= noted
      BY Counters DEF IInv, FailuresEarned
    <2>2. \A d \in Callers : call'[d].pc = "count" => call'[d].seen <= noted'
      BY <1>4, <1>6, <1>7, <2>1
    <2>3. health'.count <= noted' /\ (health'.status = "unhealthy" <=> health'.count >= 3)
      BY <1>4, <2>1
    <2> QED BY <2>2, <2>3 DEF FailuresEarned
  <1>9. HealthInv'
    <2>1. SUFFICES ASSUME ~raced PROVE HealthInv'
      BY <1>3 DEF HealthInv
    <2>2. \A d \in Storing : d = c
      BY <1>1, <2>1 DEF IInv, HealthInv
    <2>3. Storing' = {}
      BY <1>6, <1>7, <2>2 DEF Storing
    <2>4. /\ streak = IF call[c].good THEN 0 ELSE health.count + 1
          /\ call[c].pc = "count" => call[c].seen = health.count
      BY <1>1, <2>1 DEF IInv, HealthInv
    <2>5. health'.count = streak'
      BY <1>3, <1>4, <2>4
    <2> QED BY <2>3, <2>5 DEF HealthInv
  <1> QED BY <1>6, <1>8, <1>9 DEF IInv

\* A caller leaves: from between store and record it leaves the counter behind for good.
LEMMA LeaveKeeps ==
  ASSUME IInv, NEW c \in Callers, Leave(c)
  PROVE  IInv'
  <1>1. Goes(c, Idle) /\ Proper(Idle)
    BY IdleProper DEF Leave, Goes, IInv
  <1>2. /\ health' = health /\ noted' = noted /\ streak' = streak /\ raced' = (raced \/ c \in Storing)
        /\ UNCHANGED <<fileVars, triages>>
    BY DEF Leave
  <1>3. /\ TypeOK' /\ CallInv' /\ OneProvider' /\ (file \in versions)'
        /\ call'[c] = Idle /\ \A d \in Callers \ {c} : call'[d] = call[d]
    BY <1>1, <1>2, Counters, StoreStep
  <1>4. Idle.seen = 0 /\ Idle.pc = "idle"
    BY DEF Idle
  <1>5. FailuresEarned'
    BY <1>2, <1>3, <1>4, Counters DEF IInv, FailuresEarned
  <1>6. HealthInv'
    <2>1. SUFFICES ASSUME ~raced' PROVE HealthInv'
      BY DEF HealthInv
    <2>2. ~raced /\ c \notin Storing
      BY <1>2, <2>1, Counters
    <2>3. Storing' = Storing /\ \A d \in Storing : call'[d] = call[d]
      BY <1>3, <1>4, <2>2 DEF Storing
    <2> QED BY <1>2, <2>2, <2>3 DEF IInv, HealthInv
  <1> QED BY <1>3, <1>5, <1>6 DEF IInv

-----------------------------------------------------------------------------
(* The edits, and the theorems.                                             *)

\* An edit only adds to what the file has held.
LEMMA EditKeeps ==
  ASSUME IInv, NEW e \in Editors, Edit(e)
  PROVE  IInv'
  <1>1. /\ edit \in [Editors -> [pc : {"idle", "loaded", "done"}, body : Bodies, loaded : Files \cup {NoFile}]]
        /\ file \in Files \cup {NoFile} /\ versions \subseteq Files \cup {NoFile} /\ file \in versions
    BY DEF IInv, TypeOK
  <1>2. UNCHANGED <<call, storeVars, triages>>
    BY DEF Edit, EditLoad, EditSave, EditFails
  <1>3. NoBody \in Bodies /\ Changes[e] \subseteq Bodies
    BY ServiceAssumption DEF NoBody, Bodies
  <1>4. edit' \in [Editors -> [pc : {"idle", "loaded", "done"}, body : Bodies, loaded : Files \cup {NoFile}]]
    <2>1. CASE EditLoad(e)
      BY <1>1, <1>3, <2>1 DEF EditLoad
    <2>2. CASE EditSave(e) \/ EditFails(e)
      BY <1>1, <1>3, <2>2 DEF EditSave, EditFails
    <2> QED BY <2>1, <2>2 DEF Edit
  <1>5. /\ file' \in Files \cup {NoFile} /\ file' \in versions' /\ versions \subseteq versions'
        /\ versions' \subseteq Files \cup {NoFile}
    <2>1. CASE EditSave(e)
      <3>1. edit[e].loaded \in Files \cup {NoFile} /\ edit[e].body \in Bodies
        BY <1>1
      <3>2. file' \in Files
        BY <2>1, <3>1, MergeType DEF EditSave
      <3>3. versions' = versions \cup {file'}
        BY <2>1 DEF EditSave
      <3> QED BY <1>1, <3>2, <3>3
    <2>2. CASE EditLoad(e) \/ EditFails(e)
      BY <1>1, <2>2 DEF EditLoad, EditFails
    <2> QED BY <2>1, <2>2 DEF Edit
  <1>6. TypeOK'
    BY <1>2, <1>4, <1>5 DEF IInv, TypeOK, storeVars
  <1>7. CallInv'
    BY <1>2 DEF IInv, CallInv
  <1>8. OneProvider'
    <2>1. SUFFICES ASSUME NEW c \in Callers, Usable(call[c].conf)
                   PROVE  \E v \in versions' : ResolvedFrom(call[c], v)'
      BY <1>2 DEF OneProvider, Usable
    <2>2. PICK v \in versions : ResolvedFrom(call[c], v)
      BY <2>1 DEF IInv, OneProvider
    <2>3. ResolvedFrom(call[c], v)'
      BY <1>2, <2>2 DEF ResolvedFrom, Resolved
    <2> QED BY <1>5, <2>2, <2>3
  <1>9. Storing' = Storing
    BY <1>2 DEF Storing
  <1>10. FailuresEarned' /\ HealthInv'
    BY <1>2, <1>9 DEF IInv, FailuresEarned, HealthInv, storeVars
  <1> QED BY <1>5, <1>6, <1>7, <1>8, <1>10 DEF IInv

\* The invariant holds at the start.
LEMMA InitInv ==
  ASSUME Init PROVE IInv
  <1>1. file \in Files \cup {NoFile} /\ versions = {file}
    BY ServiceAssumption DEF Init
  <1>2. NoBody \in Bodies
    BY DEF NoBody, Bodies
  <1>3. Idle \in Call /\ Standing(Idle) /\ ~Usable(Idle.conf) /\ Idle.seen = 0 /\ Idle.pc = "idle"
    BY NoSettingsType DEF Idle, Call, Kinds, Unconfigured, Maybe, Standing, Usable
  <1>4. Requests(Idle)
    BY DEF Idle, Requests, MaxAttempts
  <1>5. \A c \in Callers : call[c] = Idle
    BY DEF Init
  <1>6. TypeOK
    <2>1. edit \in [Editors -> [pc : {"idle", "loaded", "done"}, body : Bodies, loaded : Files \cup {NoFile}]]
      BY <1>2 DEF Init
    <2>2. call \in [Callers -> Call]
      BY <1>3 DEF Init
    <2>3. health \in [count : Nat, status : {"unknown", "healthy", "degraded", "unhealthy"}]
      BY DEF Init
    <2>4. triages = 0 /\ noted = 0 /\ streak = 0
      BY DEF Init
    <2>5. raced \in BOOLEAN
      BY Zenon DEF Init
    <2>6. 0 \in 0..MaxTriages
      BY ServiceAssumption
    <2> QED BY <1>1, <2>1, <2>2, <2>3, <2>4, <2>5, <2>6 DEF TypeOK
  <1>7. CallInv /\ OneProvider
    BY <1>3, <1>4, <1>5 DEF CallInv, OneProvider
  <1>8. health.count = 0 /\ health.status = "unknown" /\ noted = 0 /\ streak = 0
    BY DEF Init
  <1>9. FailuresEarned
    BY <1>3, <1>5, <1>8 DEF FailuresEarned
  <1>10. Storing = {}
    BY <1>3, <1>5 DEF Storing
  <1>11. HealthInv
    BY <1>8, <1>10 DEF HealthInv
  <1> QED BY <1>1, <1>6, <1>7, <1>9, <1>11 DEF IInv

\* Every step keeps it.
LEMMA StepInv ==
  ASSUME IInv, [Next]_vars PROVE IInv'
  <1>1. ASSUME NEW e \in Editors, Edit(e) PROVE IInv'
    BY <1>1, EditKeeps
  <1>2. ASSUME NEW c \in Callers, Start(c) PROVE IInv'
    <2>1. triages \in 0..MaxTriages
      BY DEF IInv, TypeOK
    <2>2. CASE BeginTriage(c)
      <3>1. triages' \in 0..MaxTriages
        BY <2>1, <2>2, ServiceAssumption DEF BeginTriage
      <3>2. PICK a \in Settings : Begin(c, "triage", a)
        BY <2>2, WithType, ServiceAssumption DEF BeginTriage
      <3>3. "triage" \in Kinds
        BY DEF Kinds
      <3> QED BY <3>1, <3>2, <3>3, BeginKeeps
    <2>3. CASE BeginTest(c) \/ BuildAdjudicator(c) \/ BuildStageReviewer(c) \/ BuildResultReviewer(c)
      <3>1. PICK k \in Kinds : BeginPlain(c, k)
        BY <2>3 DEF BeginTest, BuildAdjudicator, BuildStageReviewer, BuildResultReviewer, Kinds, Gates
      <3>2. PICK a \in Settings : Begin(c, k, a)
        BY <3>1, WithType, ServiceAssumption DEF BeginPlain
      <3>3. triages' \in 0..MaxTriages
        BY <2>1, <3>1 DEF BeginPlain
      <3> QED BY <3>2, <3>3, BeginKeeps
    <2> QED BY <1>2, <2>2, <2>3, ResolveKeeps, ResolveGateKeeps, ReviewKeeps DEF Start
  <1>3. ASSUME NEW c \in Callers, Post(c) PROVE IInv'
    BY <1>3, PostKeeps
  <1>4. ASSUME NEW c \in Callers, Store(c) PROVE IInv'
    BY <1>4, SaveKeeps, ReadKeeps, RecordKeeps DEF Store
  <1>5. ASSUME NEW c \in Callers, Leave(c) PROVE IInv'
    BY <1>5, LeaveKeeps
  <1>6. CASE UNCHANGED vars
    <2>1. UNCHANGED <<file, edit, versions, call, health, noted, streak, raced, triages>>
      BY <1>6 DEF vars, fileVars, storeVars
    <2>2. Storing' = Storing
      BY <2>1 DEF Storing
    <2>3. TypeOK' /\ CallInv' /\ FailuresEarned' /\ HealthInv' /\ (file \in versions)'
      BY <2>1, <2>2 DEF IInv, TypeOK, CallInv, FailuresEarned, HealthInv
    <2>4. OneProvider'
      BY <2>1 DEF IInv, OneProvider, ResolvedFrom, Resolved
    <2> QED BY <2>3, <2>4 DEF IInv
  <1> QED BY <1>1, <1>2, <1>3, <1>4, <1>5, <1>6 DEF Next

\* The invariant holds throughout: calls are bounded, and no failure counts twice.
THEOREM Invariance == Spec => []IInv
  BY InitInv, StepInv, PTL DEF Spec

\* resolve_llm_gate_config may read two contents of the file, but the URL and the key
\* of every request are those of one.
THEOREM ProviderIsOne == Spec => []OneProvider
  <1>1. IInv => OneProvider
    BY DEF IInv
  <1> QED BY <1>1, Invariance, PTL

\* As long as analyses are stored one after the other, llm_provider_health has
\* counted exactly those that failed since the last that was completed.
THEOREM HealthExact == Spec => []HealthIsExact
  <1>1. IInv => HealthIsExact
    BY Counters DEF IInv, HealthIsExact, HealthInv, FailuresEarned
  <1> QED BY <1>1, Invariance, PTL

-----------------------------------------------------------------------------
(* Keys and the URLs they are for.                                          *)

\* What the file has held and what the editors have loaded was configured together,
\* and an editor works on one of the requests there are.
HomeInv ==
    /\ \A v \in versions : Home(v)
    /\ \A e \in Editors : edit[e].pc = "loaded" => Home(edit[e].loaded) /\ edit[e].body \in Changes[e]

\* A merge takes URL and key both from the request or both from what was loaded.
LEMMA MergeHome ==
  ASSUME Paired, NEW e \in Editors, NEW b \in Changes[e], NEW f \in Files \cup {NoFile}, Home(f)
  PROVE  Home(Merge(f, b))
  <1> DEFINE u == Given(b.url, IF f = NoFile THEN DefaultUrl ELSE f.url)
             k == IF b.clear THEN None ELSE Given(b.key, f.key)
  <1>1. Merge(f, b).url = u /\ Merge(f, b).key = k
    BY DEF Merge
  <1>2. b.clear \/ (b.key = "omit" <=> b.url = "omit")
    BY DEF Paired
  <1>3. CASE b.clear
    BY <1>1, <1>3 DEF Home
  <1>4. CASE ~b.clear /\ b.key = "omit"
    <2>1. k = f.key /\ (f # NoFile => u = f.url)
      BY <1>2, <1>4 DEF Given
    <2>2. f = NoFile => k = None
      BY <2>1 DEF NoFile
    <2> QED BY <1>1, <2>1, <2>2 DEF Home
  <1>5. CASE ~b.clear /\ b.key # "omit"
    <2>1. k = b.key /\ u = b.url
      BY <1>2, <1>5 DEF Given
    <2>2. b \in Sent
      BY <1>5 DEF Sent
    <2>3. <<b.url, b.key>> \in Homes
      BY <2>2 DEF Homes
    <2> QED BY <1>1, <2>1, <2>3 DEF Home
  <1> QED BY <1>3, <1>4, <1>5

\* Only edits change the file and what the editors have.
LEMMA CallersLeaveFile ==
  ASSUME NEW c \in Callers, Start(c) \/ Post(c) \/ Store(c) \/ Leave(c)
  PROVE  UNCHANGED fileVars
  BY DEF Start, BeginTriage, BeginTest, BuildAdjudicator, BuildStageReviewer, BuildResultReviewer, BeginPlain,
         Begin, Resolve, ResolveGate, Review, Post, ProviderPost, Deadline, AdjudicatorPost, StagePost,
         ResultPost, Store, SaveAnalysis, ReadFailures, WriteFailures, RecordSuccess, Leave

\* Every step keeps keys at home.
LEMMA HomeStep ==
  ASSUME Paired, TypeOK, file \in versions, HomeInv, [Next]_vars
  PROVE  HomeInv'
  <1>1. edit \in [Editors -> [pc : {"idle", "loaded", "done"}, body : Bodies, loaded : Files \cup {NoFile}]]
    BY DEF TypeOK
  <1>2. ASSUME NEW e \in Editors, EditLoad(e) PROVE HomeInv'
    <2>1. versions' = versions
      BY <1>2 DEF EditLoad
    <2>2. /\ edit'[e].loaded = file /\ edit'[e].body \in Changes[e]
          /\ \A d \in Editors \ {e} : edit'[d] = edit[d]
      BY <1>1, <1>2 DEF EditLoad
    <2> QED BY <2>1, <2>2 DEF HomeInv, Home
  <1>3. ASSUME NEW e \in Editors, EditSave(e) PROVE HomeInv'
    <2>1. /\ edit[e].loaded \in Files \cup {NoFile} /\ Home(edit[e].loaded) /\ edit[e].body \in Changes[e]
      BY <1>1, <1>3 DEF HomeInv, EditSave
    <2>2. Home(Merge(edit[e].loaded, edit[e].body))
      BY <2>1, MergeHome
    <2>3. versions' = versions \cup {Merge(edit[e].loaded, edit[e].body)}
      BY <1>3 DEF EditSave
    <2>4. edit'[e].pc = "done" /\ \A d \in Editors \ {e} : edit'[d] = edit[d]
      BY <1>1, <1>3 DEF EditSave
    <2> QED BY <2>2, <2>3, <2>4 DEF HomeInv, Home
  <1>4. ASSUME NEW e \in Editors, EditFails(e) PROVE HomeInv'
    <2>1. versions' = versions /\ edit'[e].pc = "done" /\ \A d \in Editors \ {e} : edit'[d] = edit[d]
      BY <1>1, <1>4 DEF EditFails
    <2> QED BY <2>1 DEF HomeInv, Home
  <1>5. CASE UNCHANGED fileVars
    BY <1>5 DEF HomeInv, Home, fileVars
  <1>6. CASE UNCHANGED vars
    BY <1>5, <1>6 DEF vars
  <1> QED BY <1>2, <1>3, <1>4, <1>5, <1>6, CallersLeaveFile DEF Next, Edit

\* What is resolved from such a file alone is configured together as well.
LEMMA ResolvedHome ==
  ASSUME IInv, HomeInv, NEW c \in Callers, Usable(call[c].conf), call[c].args.url = None,
         call[c].args.env.url = None, call[c].args.env.key = None
  PROVE  Home(call[c].conf)
  <1>1. PICK v \in versions : ResolvedFrom(call[c], v)
    BY DEF IInv, OneProvider
  <1>2. v \in Files \cup {NoFile} /\ Home(v)
    BY DEF IInv, TypeOK, HomeInv
  <1>3. call[c].conf.key = v.key /\ call[c].conf.url = (IF v.url # None THEN v.url ELSE DefaultUrl)
    BY <1>1 DEF ResolvedFrom, Resolved, First2, First3
  <1>4. v.key # None => v.url # None
    BY <1>2, ServiceAssumption DEF Files, NoFile
  <1> QED BY <1>2, <1>3, <1>4 DEF Home

\* The requests of update_llm_config that overlap lose one another, and never put the key
\* of one provider beside the URL of another.
THEOREM KeyHome == Spec => []KeyStaysHome
  <1>1. CASE Paired
    <2>1. Init => HomeInv
      BY ServiceAssumption DEF Init, HomeInv, Home, Homes
    <2>2. IInv /\ HomeInv /\ [Next]_vars => HomeInv'
      BY <1>1, HomeStep DEF IInv
    <2>3. IInv /\ HomeInv => KeyStaysHome
      BY ResolvedHome DEF KeyStaysHome, HomeInv
    <2> QED BY <2>1, <2>2, <2>3, Invariance, PTL DEF Spec
  <1>2. CASE ~Paired
    <2>1. KeyStaysHome
      BY <1>2 DEF KeyStaysHome
    <2> QED BY <2>1, PTL
  <1> QED BY <1>1, <1>2
=============================================================================
