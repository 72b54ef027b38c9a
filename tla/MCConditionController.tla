----------------------- MODULE MCConditionController -----------------------
(* Instances of ConditionController for TLC: the first resource has a spec *)
(* its users edit, the second a single one, of another name.               *)
EXTENDS ConditionController, TLC

CONSTANTS nrql, apm, c1, c2, s1, s2, t1

\* Each resource has a controller of its own, or they share one.
TwoKinds == [c \in Conditions |-> IF c = c1 THEN nrql ELSE apm]
OneKind  == [c \in Conditions |-> nrql]

MCNameOf   == (s1 :> "one") @@ (s2 :> "one") @@ (t1 :> "two")
MCSpecsFor == [c \in Conditions |-> IF c = c1 THEN {s1, s2} ELSE {t1}]

\* The users only move forward, or also back to a spec they had before.
ForwardEdits == {<<s1, s2>>}
BackAndForth == {<<s1, s2>>, <<s2, s1>>}
=============================================================================
