------------------------ MODULE ConditionWebhooks -------------------------
(***************************************************************************)
(* The admission webhooks of the four condition kinds.  The API server     *)
(* calls them for every create and every update (verbs=create;update), the *)
(* controllers' own updates included, and refuses the request when one     *)
(* fails (failurePolicy=fail).  A delete is not sent to them.              *)
(*                                                                         *)
(* A spec is what they tell apart:                                         *)
(*   key      "inline", "secret" (a complete api_key_secret) or "none"     *)
(*   region   "us", "moon" (one New Relic does not have) or ""             *)
(*   policy   the existing_policy_id, or NoPolicy                          *)
(*   baseline whether BaselineDirection is set                             *)
(*   wrong    the attributes whose value is outside its enumeration        *)
(*   terms    for each term, its fields whose value is outside             *)
(* A world is what they look up: the alert policies New Relic holds,       *)
(* whether it answers the look-up, and whether the secret can be read.     *)
(***************************************************************************)
CONSTANT NoPolicy  \* an existing_policy_id left empty

Attributes == {"Type", "Metric", "ValueFunction"}
TermFields == {"TimeFunction", "Operator", "Priority"}

-----------------------------------------------------------------------------
(* The checks the kinds share, word for word.                              *)

CheckForAPIKeyOrSecret(spec) == spec.key \in {"inline", "secret"}

CheckRequiredFields(spec) == spec.region # "" /\ spec.policy # NoPolicy

\* getAPIKeyOrSecret and AlertClientFunc, here and in the controllers.
Connects(spec, world) ==
  /\ spec.key = "inline" \/ (spec.key = "secret" /\ world.secret)
  /\ spec.region = "us"

\* Mutant: the attributes are left unchecked.
MutantUncheckedAttributes(spec) == {}

\* The errors of ValidateType, ValidateMetric and
\* ValidateUserDefinedValueFunction.
ValidateAttributes(spec) == spec.wrong \cap Attributes

\* Each switch on a field of a term continues with the next term when the
\* field is right, so that a right field hides the wrong ones after it.
TermErrors(term) ==
  CASE "TimeFunction" \notin term -> {}
    [] "Operator" \notin term     -> {"TimeFunction"}
    [] OTHER                      -> term

ValidateTerms(spec) == UNION {TermErrors(term) : term \in spec.terms}

\* What the two look-ups of a policy say: "found", or an error.  That of GetPolicy
\* (REST) for a policy that is not there reads "no alert policy found for id"; that
\* of QueryPolicy (NerdGraph), as any other error of either, does not.
GetPolicy(id, world) ==
  CASE ~world.answers          -> "error"
    [] id \notin world.policies -> "no alert policy found for id"
    [] OTHER                   -> "found"

QueryPolicy(id, world) ==
  IF world.answers /\ id \in world.policies THEN "found" ELSE "error"

\* Mutant: no error of the look-up is forgiven.
MutantUnforgiving(answer, deleting) == answer = "found"

\* That there is no such policy is forgiven on the way out, by its text.
PolicyFound(answer, deleting) ==
  \/ answer = "found"
  \/ answer = "no alert policy found for id" /\ deleting

-----------------------------------------------------------------------------
(* AlertsNrqlCondition: an update is hardly checked at all.                *)

AlertsNrqlCheckExistingPolicyID(spec, world) ==
  Connects(spec, world) /\ QueryPolicy(spec.policy, world) = "found"

AlertsNrqlValidateCreate(spec, world) ==
  /\ CheckForAPIKeyOrSecret(spec)
  /\ CheckRequiredFields(spec)
  /\ AlertsNrqlCheckExistingPolicyID(spec, world)

AlertsNrqlValidateUpdate(old, spec) == spec.baseline = old.baseline

-----------------------------------------------------------------------------
(* NrqlAlertCondition: a create and an update are checked alike.           *)

NrqlAlertCheckExistingPolicyID(spec, deleting, world) ==
  Connects(spec, world) /\ PolicyFound(GetPolicy(spec.policy, world), deleting)

NrqlAlertValidate(spec, deleting, world) ==
  /\ CheckForAPIKeyOrSecret(spec)
  /\ CheckRequiredFields(spec)
  /\ NrqlAlertCheckExistingPolicyID(spec, deleting, world)

-----------------------------------------------------------------------------
(* AlertsAPMCondition and ApmAlertCondition: attributes and terms as well. *)

\* Its look-up is QueryPolicy, so that nothing is ever forgiven.
AlertsAPMCheckExistingPolicyID(spec, deleting, world) ==
  Connects(spec, world) /\ PolicyFound(QueryPolicy(spec.policy, world), deleting)

AlertsAPMInvalidAttributes(spec) ==
  ValidateAttributes(spec) \cup ValidateTerms(spec)

AlertsAPMValidate(spec, deleting, world) ==
  /\ CheckForAPIKeyOrSecret(spec)
  /\ CheckRequiredFields(spec)
  /\ AlertsAPMInvalidAttributes(spec) = {}
  /\ AlertsAPMCheckExistingPolicyID(spec, deleting, world)

ApmAlertCheckExistingPolicyID(spec, deleting, world) ==
  Connects(spec, world) /\ PolicyFound(GetPolicy(spec.policy, world), deleting)

ApmAlertInvalidAttributes(spec) ==
  ValidateAttributes(spec) \cup ValidateTerms(spec)

ApmAlertValidate(spec, deleting, world) ==
  /\ CheckForAPIKeyOrSecret(spec)
  /\ CheckRequiredFields(spec)
  /\ ApmAlertInvalidAttributes(spec) = {}
  /\ ApmAlertCheckExistingPolicyID(spec, deleting, world)

-----------------------------------------------------------------------------
Kinds == {"AlertsNrqlCondition", "AlertsAPMCondition", "NrqlAlertCondition",
          "ApmAlertCondition"}

ValidateCreate(kind, spec, world) ==
  CASE kind = "AlertsNrqlCondition" -> AlertsNrqlValidateCreate(spec, world)
    [] kind = "AlertsAPMCondition"  -> AlertsAPMValidate(spec, FALSE, world)
    [] kind = "NrqlAlertCondition"  -> NrqlAlertValidate(spec, FALSE, world)
    [] kind = "ApmAlertCondition"   -> ApmAlertValidate(spec, FALSE, world)

ValidateUpdate(kind, old, spec, deleting, world) ==
  CASE kind = "AlertsNrqlCondition" -> AlertsNrqlValidateUpdate(old, spec)
    [] kind = "AlertsAPMCondition"  -> AlertsAPMValidate(spec, deleting, world)
    [] kind = "NrqlAlertCondition"  -> NrqlAlertValidate(spec, deleting, world)
    [] kind = "ApmAlertCondition"   -> ApmAlertValidate(spec, deleting, world)
=============================================================================
