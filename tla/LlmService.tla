----------------------------- MODULE LlmService -----------------------------
(***************************************************************************)
(* How the models are reached: the LLM configuration file and the console   *)
(* requests that edit it (llm/config.py, api/llm_settings.py), the calls    *)
(* that resolve it and post to the provider (llm/provider.py, adjudication, *)
(* stage_review and tool_result_review), and the analyses and the provider  *)
(* health that a triage leaves in the store (llm/service.py).               *)
(*                                                                          *)
(* A caller is a thread or a process with one call at a time.  A triage or  *)
(* a connection test resolves the configuration, calls and is gone; the     *)
(* reviewers of the gates resolve it when they are built and keep what they *)
(* resolved.  Console, gateway and command line are processes with          *)
(* environments of their own.  The configuration file is replaced           *)
(* atomically, and each read of it is a step of its own.  The provider may  *)
(* answer anything.                                                         *)
(***************************************************************************)
EXTENDS Naturals, FiniteSets

CONSTANTS
    Callers,       \* threads and processes that call a provider
    Uses,          \* what each of them calls for
    Editors,       \* requests PUT /api/v0/llm/config
    Urls, Keys, Models,
    DefaultUrl,    \* DEFAULT_LLM_BASE_URL
    None,          \* no value: unset, null or empty
    Environments,  \* the settings the environment of a process may give
    Arguments,     \* --base-url and --model of "zeroadr analyze session"
    Saved,         \* what the configuration file may hold at the start
    Changes,       \* the body each of them may have
    OutputRetries, \* max_output_retries of the reviewers
    MaxTriages     \* bound: triages that begin

Maybe(S) == S \cup {None}

\* LLMFileConfig: model is never empty.
Files == [url : Urls, key : Maybe(Keys), model : Models, gate : Maybe(Models)]

NoFile == [url |-> None, key |-> None, model |-> None, gate |-> None]

\* "omit": the field is not in the body, or is an empty api_key.
Bodies == [url : Urls \cup {"omit"}, key : Keys \cup {"omit"}, clear : BOOLEAN,
           model : Maybe(Models) \cup {"omit"}, gate : Maybe(Models) \cup {"omit"}]

NoBody == [url |-> "omit", key |-> "omit", clear |-> FALSE, model |-> "omit", gate |-> "omit"]

Environment == [url : Maybe(Urls), key : Maybe(Keys), model : Maybe(Models), gate : Maybe(Models)]

Gates == {"adjudicate", "stage", "result"}         \* built once, used for many calls
Tests == {"test", "gate_test"}                     \* POST /api/v0/llm/config/test
Kinds == {"triage"} \cup Tests \cup Gates

ASSUME ServiceAssumption ==
    /\ Uses \in [Callers -> SUBSET Kinds]
    /\ None \notin Urls \cup Keys \cup Models /\ DefaultUrl \in Urls
    /\ "omit" \notin Urls \cup Keys \cup Maybe(Models)
    /\ Environments \subseteq Environment
    /\ Arguments \subseteq [url : Maybe(Urls), model : Maybe(Models)]
    /\ Saved \subseteq Files \cup {NoFile} /\ Changes \in [Editors -> SUBSET Bodies]
    /\ OutputRetries \in Nat /\ MaxTriages \in Nat

VARIABLES
    file,      \* llm-config.json
    edit,      \* each editor: where it stands, its request, what it has loaded
    call,      \* each caller: see Idle
    health,    \* the row of llm_provider_health
    triages,   \* triages begun so far
    versions,  \* history: every content the configuration file has had
    noted,     \* history: failures recorded since the last success that was
               \* recorded while none was half recorded
    streak,    \* history: failed analyses stored since the last completed one,
               \* for as long as none has raced
    raced      \* history: since the last completed analysis that was stored alone,
               \* two were between store and record at once, or one never got
               \* to its record

fileVars  == <<file, edit, versions>>
storeVars == <<health, noted, streak, raced>>
vars      == <<fileVars, call, storeVars, triages>>

NoArguments == [url |-> None, model |-> None]

\* What a process starts with: command line a and environment v.
With(a, v) == [url |-> a.url, model |-> a.model, env |-> v]

Settings == [url : Maybe(Urls), model : Maybe(Models), env : Environment]

NoSettings == With(NoArguments, [url |-> None, key |-> None, model |-> None, gate |-> None])

\* A reviewer without a usable configuration.
Unconfigured == [url |-> None, key |-> None, model |-> None]

\* A caller that does nothing.  kind: what it calls for; args: what it started with;
\* conf: what it has resolved; tries: requests its call has made before; good: a
\* triage has its result; seen: consecutive_failures as it has read it.
Idle == [pc |-> "idle", kind |-> "triage", args |-> NoSettings, conf |-> Unconfigured,
         tries |-> 0, good |-> FALSE, seen |-> 0]

Init ==
    /\ file \in Saved /\ versions = {file}
    /\ edit = [e \in Editors |-> [pc |-> "idle", body |-> NoBody, loaded |-> NoFile]]
    /\ call = [c \in Callers |-> Idle]
    /\ health = [count |-> 0, status |-> "unknown"]
    /\ triages = 0 /\ noted = 0 /\ streak = 0 /\ raced = FALSE

-----------------------------------------------------------------------------
(* The configuration file.                                                  *)

\* A PUT request arrives and loads the file.
EditLoad(e) ==
    /\ edit[e].pc = "idle"
    /\ \E b \in Changes[e] : edit' = [edit EXCEPT ![e] = [pc |-> "loaded", body |-> b, loaded |-> file]]
    /\ UNCHANGED <<file, versions, call, storeVars, triages>>

Given(v, old) == IF v = "omit" THEN old ELSE v

\* A merge that takes a key it is not sent from the file as it is by now.
MergeWithLatestKey(f, b) ==
    [url   |-> Given(b.url, IF f = NoFile THEN DefaultUrl ELSE f.url),
     key   |-> IF b.clear THEN None ELSE Given(b.key, file.key),
     model |-> Given(b.model, f.model),
     gate  |-> Given(b.gate, f.gate)]

\* update_llm_config: the body over what is saved, or over the defaults.
Merge(f, b) ==
    [url   |-> Given(b.url, IF f = NoFile THEN DefaultUrl ELSE f.url),
     key   |-> IF b.clear THEN None ELSE Given(b.key, f.key),
     model |-> Given(b.model, f.model),
     gate  |-> Given(b.gate, f.gate)]

\* save_llm_file_config: a temporary file is renamed over the old one.
EditSave(e) ==
    /\ edit[e].pc = "loaded" /\ edit' = [edit EXCEPT ![e] = [pc |-> "done", body |-> NoBody, loaded |-> NoFile]]
    /\ file' = Merge(edit[e].loaded, edit[e].body) /\ file'.model # None
    /\ versions' = versions \cup {file'}
    /\ UNCHANGED <<call, storeVars, triages>>

\* The file cannot be loaded, the merged configuration is invalid, or it cannot be
\* written.
EditFails(e) ==
    /\ edit[e].pc \in {"idle", "loaded"} /\ edit' = [edit EXCEPT ![e] = [pc |-> "done", body |-> NoBody, loaded |-> NoFile]]
    /\ UNCHANGED <<file, versions, call, storeVars, triages>>

-----------------------------------------------------------------------------
(* Who calls.                                                               *)

Begin(c, k, a) ==
    /\ call[c].pc = "idle" /\ k \in Uses[c]
    /\ call' = [call EXCEPT ![c] = [Idle EXCEPT !.pc = "resolve", !.kind = k, !.args = a]]
    /\ UNCHANGED <<fileVars, storeVars>>

\* zeroadr analyze session
BeginTriage(c) ==
    /\ triages < MaxTriages /\ triages' = triages + 1
    /\ \E a \in Arguments, v \in Environments : Begin(c, "triage", With(a, v))

\* A call that no command line speaks to.
BeginPlain(c, k) ==
    /\ \E v \in Environments : Begin(c, k, With(NoArguments, v))
    /\ UNCHANGED triages

\* test_llm_config
BeginTest(c) == \E k \in Tests : BeginPlain(c, k)

\* build_llm_adjudicator
BuildAdjudicator(c) == BeginPlain(c, "adjudicate")

\* build_stage_reviewer
BuildStageReviewer(c) == BeginPlain(c, "stage")

\* build_tool_result_reviewer
BuildResultReviewer(c) == BeginPlain(c, "result")

\* _first_value
First2(v, w) == IF v # None THEN v ELSE w
First3(u, v, w) == First2(u, First2(v, w))

\* resolve_llm_config, given what it has read, in a process started with a.
Resolved(f, a) ==
    [url   |-> First2(First3(a.url, a.env.url, f.url), DefaultUrl),
     key   |-> First2(a.env.key, f.key),
     model |-> First3(a.model, a.env.model, f.model)]

Usable(r) == r.model # None /\ r.key # None

\* Model or key is missing, a setting is invalid or the file cannot be read: a
\* reviewer is built without a configuration, and the other calls end.
Unavailable(c) ==
    call' = [call EXCEPT ![c] = IF @.kind \in Gates THEN [@ EXCEPT !.pc = "ready", !.conf = Unconfigured] ELSE Idle]

\* The file is read.
Resolve(c) ==
    /\ call[c].pc = "resolve"
    /\ \/ LET r == Resolved(file, call[c].args)
          IN /\ Usable(r)
             /\ call' = [call EXCEPT ![c].conf = r,
                                     ![c].pc = IF call[c].kind \in {"triage", "test"} THEN "post" ELSE "gate"]
       \/ Unavailable(c)
    /\ UNCHANGED <<fileVars, storeVars, triages>>

\* A second reading that also takes the key.
ResolveGateKey(c) ==
    /\ call[c].pc = "gate"
    /\ \/ call' = [call EXCEPT ![c].conf.model = First3(call[c].args.env.gate, file.gate, @),
                               ![c].conf.key = First3(call[c].args.env.key, file.key, @),
                               ![c].pc = IF call[c].kind \in Gates THEN "ready" ELSE "post"]
       \/ Unavailable(c)
    /\ UNCHANGED <<fileVars, storeVars, triages>>

\* resolve_llm_gate_config reads the file again, for gate_model.
ResolveGate(c) ==
    /\ call[c].pc = "gate"
    /\ \/ call' = [call EXCEPT ![c].conf.model = First3(call[c].args.env.gate, file.gate, @),
                               ![c].pc = IF call[c].kind \in Gates THEN "ready" ELSE "post"]
       \/ Unavailable(c)
    /\ UNCHANGED <<fileVars, storeVars, triages>>

\* A gate asks its reviewer; one that is not configured makes no request.
Review(c) ==
    /\ call[c].pc = "ready" /\ Usable(call[c].conf)
    /\ call' = [call EXCEPT ![c].pc = "post"]
    /\ UNCHANGED <<fileVars, storeVars, triages>>

-----------------------------------------------------------------------------
(* The call.  What comes back, as far as the clients tell it apart: nothing  *)
(* in time, no connection, 429 or 5xx ("transient"); another HTTP error; a   *)
(* body httpx cannot decode ("broken"); one without message or one whose     *)
(* content is not JSON ("unparsable"); no content or JSON that is no object  *)
(* ("nothing"); an object that is not a valid result ("schema"); a result    *)
(* with references that were not supplied ("foreign"); or a proper one.      *)

Answers == {"transient", "refused", "broken", "unparsable", "nothing", "schema", "foreign", "good"}

\* The request is made once more.
Again(c) == call' = [call EXCEPT ![c].tries = @ + 1]

\* The call is over, with an answer or an exception: a reviewer can be asked again,
\* the other callers are done.
Returns(c) ==
    call' = [call EXCEPT ![c] = IF @.kind \in Gates THEN [@ EXCEPT !.pc = "ready", !.tries = 0] ELSE Idle]

\* OpenAICompatibleProvider has returned or raised LLMProviderError: a triage goes on
\* to store its analysis.
Concludes(c, good) ==
    IF call[c].kind = "triage"
    THEN call' = [call EXCEPT ![c].pc = "save", ![c].good = good, ![c].tries = 0]
    ELSE Returns(c)

\* The attempts of _post_with_retries.
MaxAttempts == 3

\* What OpenAICompatibleProvider makes of an answer: a connection test asks for
\* an object, whatever it says.
Accepted(k, a) == a = "good" \/ (k = "test" /\ a \in {"schema", "foreign"})

\* _post_with_retries, then the reading of the response.  No handler expects an
\* answer that is broken: a triage stores nothing.
ProviderPost(c) ==
    /\ call[c].pc = "post" /\ call[c].kind \in {"triage", "test"}
    /\ \E a \in Answers :
         \/ a = "transient" /\ call[c].tries + 1 < MaxAttempts /\ Again(c)
         \/ a = "transient" /\ call[c].tries + 1 = MaxAttempts /\ Concludes(c, FALSE)
         \/ a = "broken" /\ Returns(c)
         \/ a \notin {"transient", "broken"} /\ Concludes(c, Accepted(call[c].kind, a))
    /\ UNCHANGED <<fileVars, storeVars, triages>>

\* total_deadline has passed before another attempt.
Deadline(c) ==
    /\ call[c].pc = "post" /\ call[c].kind \in {"triage", "test"} /\ call[c].tries > 0
    /\ Concludes(c, FALSE)
    /\ UNCHANGED <<fileVars, storeVars, triages>>

\* OpenAICompatibleAdjudicator: one request, whatever comes back.
AdjudicatorPost(c) ==
    /\ call[c].pc = "post" /\ call[c].kind \in {"adjudicate", "gate_test"}
    /\ Returns(c)
    /\ UNCHANGED <<fileVars, storeVars, triages>>

\* Output the stage reviewer asks to have corrected: an unparsable one and one
\* with unknown references, but not an empty one and none of the wrong schema.
StageCorrects == {"unparsable", "foreign"}

\* A reviewer that asks once too often.
StagePostOnceMore(c) ==
    /\ call[c].pc = "post" /\ call[c].kind = "stage"
    /\ \E a \in Answers :
         \/ a \in StageCorrects /\ call[c].tries <= OutputRetries /\ Again(c)
         \/ (a \in StageCorrects => call[c].tries > OutputRetries) /\ Returns(c)
    /\ UNCHANGED <<fileVars, storeVars, triages>>

\* OpenAICompatibleStageReviewer.review
StagePost(c) ==
    /\ call[c].pc = "post" /\ call[c].kind = "stage"
    /\ \E a \in Answers :
         \/ a \in StageCorrects /\ call[c].tries < OutputRetries /\ Again(c)
         \/ (a \in StageCorrects => call[c].tries = OutputRetries) /\ Returns(c)
    /\ UNCHANGED <<fileVars, storeVars, triages>>

\* Everything that came back and is not a valid review.
ResultCorrects == {"unparsable", "nothing", "schema", "foreign"}

\* OpenAICompatibleToolResultReviewer.adjudicate
ResultPost(c) ==
    /\ call[c].pc = "post" /\ call[c].kind = "result"
    /\ \E a \in Answers :
         \/ a \in ResultCorrects /\ call[c].tries < OutputRetries /\ Again(c)
         \/ (a \in ResultCorrects => call[c].tries = OutputRetries) /\ Returns(c)
    /\ UNCHANGED <<fileVars, storeVars, triages>>

-----------------------------------------------------------------------------
(* What a triage leaves in the store.                                       *)

Storing == {d \in Callers : call[d].pc \in {"record", "count"}}

\* save_llm_analysis
SaveAnalysis(c) ==
    /\ call[c].pc = "save" /\ call' = [call EXCEPT ![c].pc = "record"]
    /\ raced' = (Storing # {} \/ (raced /\ ~call[c].good))
    /\ streak' = IF call[c].good \/ raced' THEN 0 ELSE streak + 1
    /\ UNCHANGED <<fileVars, health, noted, triages>>

\* record_llm_provider_failure reads the row ...
ReadFailures(c) ==
    /\ call[c].pc = "record" /\ ~call[c].good
    /\ call' = [call EXCEPT ![c].pc = "count", ![c].seen = health.count]
    /\ UNCHANGED <<fileVars, storeVars, triages>>

\* ... and, in a transaction that the read is not part of, replaces it.
WriteFailures(c) ==
    /\ call[c].pc = "count" /\ call' = [call EXCEPT ![c] = Idle]
    /\ LET failures == call[c].seen + 1
       IN health' = [count |-> failures, status |-> IF failures >= 3 THEN "unhealthy" ELSE "degraded"]
    /\ noted' = noted + 1
    /\ UNCHANGED <<fileVars, streak, raced, triages>>

\* A success that leaves the counter.
KeepCount(c) ==
    /\ call[c].pc = "record" /\ call[c].good /\ call' = [call EXCEPT ![c] = Idle]
    /\ health' = [health EXCEPT !.status = "healthy"]
    /\ UNCHANGED <<fileVars, noted, streak, raced, triages>>

\* record_llm_provider_success
RecordSuccess(c) ==
    /\ call[c].pc = "record" /\ call[c].good /\ call' = [call EXCEPT ![c] = Idle]
    /\ health' = [count |-> 0, status |-> "healthy"]
    /\ noted' = IF \E d \in Callers : call[d].pc = "count" THEN noted ELSE 0
    /\ UNCHANGED <<fileVars, streak, raced, triages>>

\* The process dies or is done, the URL is invalid (a ValueError that no build of a
\* reviewer expects), the session is not in the store, or the store or the building
\* of the payload raises.
Leave(c) ==
    /\ call[c].pc # "idle" /\ call' = [call EXCEPT ![c] = Idle]
    /\ raced' = (raced \/ c \in Storing)
    /\ UNCHANGED <<fileVars, health, noted, streak, triages>>

-----------------------------------------------------------------------------
Post(c) == ProviderPost(c) \/ Deadline(c) \/ AdjudicatorPost(c) \/ StagePost(c) \/ ResultPost(c)

Store(c) == SaveAnalysis(c) \/ ReadFailures(c) \/ WriteFailures(c) \/ RecordSuccess(c)

Start(c) ==
    \/ BeginTriage(c) \/ BeginTest(c)
    \/ BuildAdjudicator(c) \/ BuildStageReviewer(c) \/ BuildResultReviewer(c)
    \/ Resolve(c) \/ ResolveGate(c) \/ Review(c)

Edit(e) == EditLoad(e) \/ EditSave(e) \/ EditFails(e)

Next ==
    \/ \E e \in Editors : Edit(e)
    \/ \E c \in Callers : Start(c) \/ Post(c) \/ Store(c) \/ Leave(c)

Spec == Init /\ [][Next]_vars

-----------------------------------------------------------------------------
(* Properties.                                                              *)

Call == [pc : {"idle", "resolve", "gate", "ready", "post", "save", "record", "count"},
         kind : Kinds, args : Settings,
         conf : [url : Maybe(Urls), key : Maybe(Keys), model : Maybe(Models)],
         tries : Nat, good : BOOLEAN, seen : Nat]

\* Every value a variable can take.
TypeOK ==
    /\ file \in Files \cup {NoFile} /\ versions \subseteq Files \cup {NoFile}
    /\ edit \in [Editors -> [pc : {"idle", "loaded", "done"}, body : Bodies, loaded : Files \cup {NoFile}]]
    /\ call \in [Callers -> Call]
    /\ health \in [count : Nat, status : {"unknown", "healthy", "degraded", "unhealthy"}]
    /\ triages \in 0..MaxTriages /\ noted \in Nat /\ streak \in Nat /\ raced \in BOOLEAN

\* What a caller may be and do where it stands.
Standing(r) ==
    /\ r.pc \in {"save", "record", "count"} => r.kind = "triage"
    /\ r.pc = "count" => ~r.good
    /\ r.pc = "gate" => r.kind \in Gates \cup {"gate_test"}
    /\ r.pc = "ready" => r.kind \in Gates
    /\ r.pc # "post" => r.tries = 0
    /\ r.pc \in {"gate", "post"} => Usable(r.conf)

\* The requests of a call are as many as its provider client allows: three with
\* its retries, one for an inline adjudication, and one correction of a review.
Requests(r) ==
    /\ r.kind \in {"triage", "test"} => r.tries + 1 <= MaxAttempts
    /\ r.kind \in {"stage", "result"} => r.tries + 1 <= OutputRetries + 1
    /\ r.kind \in {"adjudicate", "gate_test"} => r.tries + 1 <= 1

CallInv == \A c \in Callers : Standing(call[c]) /\ Requests(call[c])

\* The URL and the key are what one content of the file, f, resolves to.
ResolvedFrom(r, f) ==
    r.conf.url = Resolved(f, r.args).url /\ r.conf.key = Resolved(f, r.args).key

\* resolve_llm_gate_config reads the file twice: whatever edits come between and
\* after the reads, what a call takes from the file for its URL and its key it takes
\* from one and the same content of it.  (Environment and command line come first:
\* a --base-url may still meet the key of the file.)
OneProvider ==
    \A c \in Callers : Usable(call[c].conf) => \E v \in versions : ResolvedFrom(call[c], v)

\* A provider is not called unhealthy without three failures, whatever races: the
\* counter never exceeds the failures recorded since the last success that met none
\* half recorded, and the status goes with the counter.
FailuresEarned ==
    /\ health.count <= noted
    /\ \A c \in Callers : call[c].pc = "count" => call[c].seen <= noted
    /\ health.status = "unhealthy" <=> health.count >= 3

\* As long as no two analyses have met between store and record, at most one is there,
\* and the counter lags behind what is stored by that one alone.
HealthInv ==
    ~raced =>
        /\ \A c, d \in Storing : c = d
        /\ Storing = {} => health.count = streak
        /\ \A c \in Storing :
             /\ streak = IF call[c].good THEN 0 ELSE health.count + 1
             /\ call[c].pc = "count" => call[c].seen = health.count

\* The inductive invariant.
IInv == TypeOK /\ CallInv /\ OneProvider /\ FailuresEarned /\ HealthInv /\ file \in versions

\* Analyses that race for the counter, or die before they have recorded, make it wrong
\* no longer than to the next completed analysis that is stored alone: from there on
\* the provider's health says again how many have failed since the last completed one.
HealthIsExact ==
    ~raced /\ Storing = {} =>
        /\ health.count = streak
        /\ health.status = "unhealthy" <=> streak >= 3

\* Each request that sends a key names the URL it is for, and the other way round.
Paired ==
    \A e \in Editors : \A b \in Changes[e] : b.clear \/ (b.key = "omit" <=> b.url = "omit")

Sent == {b \in UNION {Changes[e] : e \in Editors} : b.key # "omit" /\ ~b.clear}

\* What somebody has configured together.
Homes == {<<s.url, s.key>> : s \in Saved \cup Sent}

Home(f) == f.key # None => <<f.url, f.key>> \in Homes

\* A lost update of update_llm_config loses a whole request: however loads and saves of
\* concurrent requests interleave, the file never has a key beside a URL it was not
\* configured with, and no call that takes both from the file sends it there.
KeyStaysHome ==
    Paired =>
        /\ \A v \in versions : Home(v)
        /\ \A c \in Callers :
              LET a == call[c].args
              IN  a.url = None /\ a.env.url = None /\ a.env.key = None /\ Usable(call[c].conf)
                    => Home(call[c].conf)

=============================================================================
