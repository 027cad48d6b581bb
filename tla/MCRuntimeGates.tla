--------------------------- MODULE MCRuntimeGates ---------------------------
(* Small instances of RuntimeGates for TLC.                                *)
EXTENDS RuntimeGates

\* Everything enforced: the strictest policy the documentation describes.
Strict ==
  [adjudication |-> "enforce", inputMode |-> "enforce", inputReview |-> "hybrid",
   requestMode |-> "enforce", requestReview |-> "hybrid",
   resultMode |-> "enforce", resultReview |-> "hybrid", guardMode |-> "enforce",
   compromised |-> "require_approval", truePositive |-> "block", falsePositive |-> "allow"]

\* No Tool Result Gate, rules only, and a guard that blocks.
RulesOnly ==
  [Strict EXCEPT !.adjudication = "off", !.inputMode = "off", !.requestReview = "rules",
                 !.resultMode = "off", !.compromised = "block"]

\* Everything observed, nothing enforced.
Watching ==
  [Strict EXCEPT !.adjudication = "shadow", !.inputMode = "shadow", !.requestMode = "shadow",
                 !.resultMode = "shadow", !.guardMode = "shadow"]

ModelPolicies == {Strict, RulesOnly, Watching}

\* The guard enforces, but the results are reviewed in the background.
BackgroundPolicies == {[Strict EXCEPT !.adjudication = "off", !.resultMode = "shadow"]}

\* The request gate enforces, but the guard only watches.
WatchingGuardPolicies ==
  {[Strict EXCEPT !.adjudication = "off", !.resultMode = "off", !.guardMode = "shadow"]}
=============================================================================
