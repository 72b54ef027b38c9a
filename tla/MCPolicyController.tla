------------------------- MODULE MCPolicyController -------------------------
(* An instance of PolicyController for TLC: a condition of each kind, one  *)
(* in two versions.                                                        *)
EXTENDS PolicyController, TLC

CONSTANTS n1, n2, a1, r1, r2, r3

MCTitleOf == (n1 :> "n") @@ (n2 :> "n") @@ (a1 :> "a")
MCTypeOf  == (n1 :> "NrqlAlertCondition") @@ (n2 :> "NrqlAlertCondition") @@
             (a1 :> "ApmAlertCondition")
MCKindOf  == (r1 :> "NrqlAlertCondition") @@ (r2 :> "NrqlAlertCondition") @@
             (r3 :> "ApmAlertCondition")

One(title, conditions) == [title |-> title, conditions |-> conditions]

\* The policy and its condition change, or another condition takes its place.
MCGiven       == {One("one", <<n1>>)}
MCPolicyEdits == {<<One("one", <<n1>>), One("two", <<n2>>)>>,
                  <<One("one", <<n1>>), One("one", <<a1>>)>>}
=============================================================================
