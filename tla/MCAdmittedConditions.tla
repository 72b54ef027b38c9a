----------------------- MODULE MCAdmittedConditions -----------------------
(* Instances of AdmittedConditions for TLC: a resource of each kind, of    *)
(* which the users create some, well or badly.                             *)
EXTENDS AdmittedConditions

CONSTANTS c1, c2, c3, c4, p1, p2

MCKindOf ==
  [c \in Conditions |->
     CASE c = c1 -> "AlertsNrqlCondition"
       [] c = c2 -> "AlertsAPMCondition"
       [] c = c3 -> "NrqlAlertCondition"
       [] c = c4 -> "ApmAlertCondition"]

\* A resource's first spec; one of the kinds takes its key from the secret.
Good(c) ==
  [of |-> c, version |-> 1, key |-> IF c = c3 THEN "secret" ELSE "inline",
   region |-> "us", policy |-> p1, baseline |-> FALSE, wrong |-> {},
   terms |-> {{}}]

\* The spec that an edit gives it, which also repairs an unusable one.
Changed(c) == [Good(c) EXCEPT !.version = 2, !.key = "inline"]

\* An edit to one of these makes the resource impossible to release.
Unusable(c) == {[Good(c) EXCEPT !.key = "none"], [Good(c) EXCEPT !.region = "moon"]}

\* What else may be wrong with a spec.
Wrong(c) ==
  CASE c = c1 -> {[Good(c) EXCEPT !.region = "", !.baseline = TRUE]}
    [] c = c2 -> {[Good(c) EXCEPT !.wrong = {"Metric"}],
                  [Good(c) EXCEPT !.terms = {{"TimeFunction", "Operator"}}],
                  [Good(c) EXCEPT !.terms = {{}, {"Operator"}}]}
    [] c = c3 -> {[Changed(c) EXCEPT !.wrong = {"Metric"}]}
    [] c = c4 -> {[Good(c) EXCEPT !.wrong = {"Metric"}],
                  [Good(c) EXCEPT !.terms = {{"TimeFunction", "Operator"}}]}

\* A policy is wrong, or left out, in a create only.
NoSuchPolicy(c) == {[Good(c) EXCEPT !.policy = NoPolicy], [Good(c) EXCEPT !.policy = p2]}

MCSpecsFor ==
  [c \in Conditions |->
     {Good(c), Changed(c)} \cup Unusable(c) \cup Wrong(c) \cup NoSuchPolicy(c)]

MCEdits ==
  UNION {({Good(c)} \X ({Changed(c)} \cup Unusable(c) \cup Wrong(c)))
         \cup (Unusable(c) \X {Changed(c)}) : c \in Conditions}

\* One name for each resource, in the policy its spec gives.
MCSpecs  == UNION {MCSpecsFor[c] : c \in Conditions}
MCNameOf == [s \in MCSpecs |-> <<s.policy, s.of>>]
=============================================================================
