---------------------------- MODULE MCLlmService ----------------------------
\* A small instance of the LLM configuration, its editors and its callers.
EXTENDS LlmService

\* Nothing is set in the environment.
ModelEnvironments == {[url |-> None, key |-> None, model |-> None, gate |-> None]}

\* Two command lines that triage; one process also tests the configuration, the
\* other has the reviewers of the gates.
ModelUses == [c \in {"a", "b"} |-> IF c = "a" THEN {"triage"} \cup Tests ELSE {"triage"} \cup Gates]

\* A triage may name its URL.
ModelArguments == {NoArguments, [url |-> "u2", model |-> None]}

\* No configuration yet, or a complete one.
ModelSaved == {NoFile, [url |-> "u1", key |-> "k1", model |-> "m1", gate |-> None]}

\* Another provider; a change of the gate's model that leaves the key alone; and
\* the removal of the key.
Move == [url |-> "u2", key |-> "k2", clear |-> FALSE, model |-> "m1", gate |-> "omit"]
Tune == [url |-> "omit", key |-> "omit", clear |-> FALSE, model |-> "omit", gate |-> "m2"]
Clear == [Tune EXCEPT !.clear = TRUE, !.gate = None]

ModelChanges == [e \in {"e1", "e2"} |-> IF e = "e1" THEN {Move} ELSE {Tune, Clear}]
=============================================================================
