------------------------ MODULE AdmittedConditions ------------------------
(***************************************************************************)
(* The condition controllers as they run in a cluster: every create and    *)
(* every update of a condition resource, by a user or by a controller,     *)
(* passes the webhook of its kind, whose look-up of the policy may fail,   *)
(* and the alert policy and the secret that a condition refers to come     *)
(* from elsewhere and may go at any time.                                  *)
(* The reconcilers are ConditionController, one for each of the kinds.     *)
(***************************************************************************)
EXTENDS ConditionWebhooks, Naturals, FiniteSets

CONSTANTS
  Conditions,  \* the condition resources that may exist in the cluster
  KindOf,      \* the kind of each resource
  Specs,       \* the values a resource's Spec may take
  NameOf,      \* the New Relic condition, by policy and name, of each spec
  SpecsFor,    \* the specs the users ask for, for each resource
  Edits,       \* the pairs <<old, new>> of specs the users edit between
  Policies,    \* the alert policies New Relic holds at first
  Ids,         \* New Relic condition ids, a bound on how many are created
  None,        \* no resource, no id, no applied spec, no key
  FaultKinds,  \* the faults that may happen, "lookup" among them
  MaxFaults,   \* bound on the number of faults
  MaxUserOps,  \* bound on the number of changes the users make
  MaxResources \* bound on the number of resources the users ever create

VARIABLES
  store, revision, cache, queue, worker, nr, used, faults, userOps,
  policies,  \* New Relic: the alert policies there are
  secret     \* API server: whether the API key's secret can be read

C == INSTANCE ConditionController WITH FaultKinds <- FaultKinds \ {"lookup"}

ASSUME ConstantsAssumption ==
  /\ KindOf \in [Conditions -> Kinds]
  /\ DOMAIN NameOf = Specs
  /\ SpecsFor \in [Conditions -> SUBSET Specs]
  /\ Edits \subseteq Specs \X Specs
  /\ None \notin Conditions /\ None \notin Specs /\ None \notin Ids
  /\ None \notin C!Object \cup C!Shown
  /\ FaultKinds \subseteq C!AllFaults \cup {"lookup"}
  /\ MaxFaults \in Nat
  /\ MaxUserOps \in Nat

World(answers) == [policies |-> policies, secret |-> secret, answers |-> answers]
world == World(TRUE)
cluster  == <<store, revision>>
newRelic == <<nr, used>>
vars == <<cluster, cache, queue, worker, newRelic, faults, userOps, policies, secret>>

TypeOK ==
  /\ C!TypeOK
  /\ policies \subseteq Policies
  /\ secret \in BOOLEAN

Init ==
  /\ C!Init
  /\ policies = Policies
  /\ secret = TRUE

-----------------------------------------------------------------------------
(* Requests to the API server, which asks the webhook first.  A user's     *)
(* request that is refused changes nothing, whatever the reason.           *)

Refused(c, object, answers) ==
  /\ store[c] # None
  /\ ~ValidateUpdate(KindOf[c], store[c].spec, object.spec, object.deleting,
                     World(answers))

UserCreate(c) ==
  /\ Cardinality({d \in Conditions : revision[d] > 0} \cup {c}) <= MaxResources
  /\ C!UserCreate(c)
  /\ ValidateCreate(KindOf[c], store'[c].spec, world)

UserEdit(c) ==
  /\ C!UserEdit(c)
  /\ ~Refused(c, store'[c], TRUE)

LookUpFails ==
  /\ "lookup" \in FaultKinds
  /\ faults < MaxFaults
  /\ faults' = faults + 1

\* The webhook refuses the worker's Update: for what it says, or because a look-up
\* that the webhook depends on has failed.
UpdateRefused(k) ==
  LET refused(answers) == Refused(worker[k].key, worker[k].object, answers) IN
  /\ \/ refused(TRUE) /\ UNCHANGED faults
     \/ ~refused(TRUE) /\ refused(FALSE) /\ LookUpFails
  /\ UNCHANGED <<cluster, cache, newRelic, userOps>>

UpdateAdmitted(k) == ~Refused(worker[k].key, worker[k].object, TRUE)

\* A refused status update is only logged, like any other failing one.
Save(k) ==
  /\ worker[k].pc = "save"
  /\ \/ UpdateRefused(k) /\ C!Return(k)
     \/ UpdateAdmitted(k) /\ C!Save(k)

\* A refused release is an error, and the resource is requeued.
Release(k) ==
  /\ worker[k].pc = "release"
  /\ \/ UpdateRefused(k) /\ C!Fail(k)
     \/ UpdateAdmitted(k) /\ C!Release(k)

-----------------------------------------------------------------------------
(* New Relic, the secret's owner.                                          *)

\* New Relic takes a condition of a policy it holds, with attributes and terms
\* it knows.
Accepts(spec) ==
  /\ spec.policy \in policies
  /\ spec.wrong = {}
  /\ \A term \in spec.terms : term = {}

\* Mutant: a write counts as applied though New Relic refuses it.
MutantWriteTrusted(k) ==
  /\ worker[k].pc = "write"
  /\ IF Accepts(worker[k].object.spec)
     THEN C!UpdateCondition(k) \/ C!CreateCondition(k)
     ELSE /\ C!GoOn(k, "save", [worker[k].object EXCEPT
                                  !.applied = worker[k].object.spec])
          /\ UNCHANGED <<cluster, cache, queue, newRelic, faults, userOps>>

\* An error of the write is only logged.
Write(k) ==
  /\ worker[k].pc = "write"
  /\ IF Accepts(worker[k].object.spec)
     THEN C!UpdateCondition(k) \/ C!CreateCondition(k)
     ELSE /\ C!GoOn(k, "save", worker[k].object)
          /\ UNCHANGED <<cluster, cache, queue, newRelic, faults, userOps>>

\* A policy is deleted, by its own controller or in New Relic, and its
\* conditions go with it.
DeletePolicy(p) ==
  /\ p \in policies
  /\ policies' = policies \ {p}
  /\ nr' = [i \in Ids |->
              IF nr[i] # None /\ nr[i].policy = p THEN None ELSE nr[i]]
  /\ UNCHANGED <<cluster, cache, queue, worker, used, faults, userOps, secret>>

\* The secret goes, as when its namespace is deleted (which goes unnoticed
\* while no resource names it).
DeleteSecret ==
  /\ secret
  /\ \E c \in Conditions : store[c] # None /\ store[c].spec.key = "secret"
  /\ secret' = FALSE
  /\ UNCHANGED <<cluster, cache, queue, worker, newRelic, faults, userOps, policies>>

\* A user puts it back.
CreateSecret ==
  /\ ~secret
  /\ userOps < MaxUserOps
  /\ userOps' = userOps + 1
  /\ secret' = TRUE
  /\ UNCHANGED <<cluster, cache, queue, worker, newRelic, faults, policies>>

-----------------------------------------------------------------------------
(* The four reconcilers.  Without a key or a client Reconcile returns an   *)
(* error before anything else and is called again, which changes nothing.  *)

Reconcile(k, c) ==
  /\ cache[c].object # None => Connects(cache[c].object.spec, world)
  /\ C!Reconcile(k, c)

Call(k) ==
  C!Search(k) \/ Write(k) \/ Save(k) \/ C!DeleteCondition(k) \/ Release(k)

AlertsNrqlReconcile == \E c \in Conditions : Reconcile("AlertsNrqlCondition", c)
AlertsNrqlCall      == Call("AlertsNrqlCondition")

AlertsAPMReconcile == \E c \in Conditions : Reconcile("AlertsAPMCondition", c)
AlertsAPMCall      == Call("AlertsAPMCondition")

NrqlAlertReconcile == \E c \in Conditions : Reconcile("NrqlAlertCondition", c)
NrqlAlertCall      == Call("NrqlAlertCondition")

ApmAlertReconcile == \E c \in Conditions : Reconcile("ApmAlertCondition", c)
ApmAlertCall      == Call("ApmAlertCondition")

Reconcilers ==
  \/ AlertsNrqlReconcile \/ AlertsNrqlCall
  \/ AlertsAPMReconcile \/ AlertsAPMCall
  \/ NrqlAlertReconcile \/ NrqlAlertCall
  \/ ApmAlertReconcile \/ ApmAlertCall

User == \E c \in Conditions : UserCreate(c) \/ UserEdit(c) \/ C!UserDelete(c)

Next ==
  \/ /\ User \/ C!Informer \/ C!Crash \/ Reconcilers
     /\ UNCHANGED <<policies, secret>>
  \/ \E p \in Policies : DeletePolicy(p)
  \/ DeleteSecret \/ CreateSecret

\* As for ConditionController.  A reconcile that cannot connect is retried,
\* which changes nothing, and so is not asked for.
Fairness ==
  /\ \A k \in Kinds : WF_vars(Call(k) /\ UNCHANGED <<policies, secret>>)
  /\ \A c \in Conditions :
       /\ WF_vars(C!InformerSync(c) /\ UNCHANGED <<policies, secret>>)
       /\ WF_vars(C!Resync(c) /\ UNCHANGED <<policies, secret>>)
       /\ SF_vars(Reconcile(KindOf[c], c) /\ UNCHANGED <<policies, secret>>)

Spec     == Init /\ [][Next]_vars
FairSpec == Spec /\ Fairness

-----------------------------------------------------------------------------
\* What admission overlooks: an edit of an AlertsNrqlCondition is checked for
\* its type only, no NRQL kind has its attributes and terms checked, and a
\* right TimeFunction hides a wrong operator or priority.
Overlooked(kind, spec) ==
  CASE kind = "AlertsNrqlCondition" ->
         spec.key = "none" \/ spec.region # "us" \/ ~Accepts(spec)
    [] kind = "NrqlAlertCondition" -> ~Accepts(spec)
    [] OTHER -> \E term \in spec.terms : term # {} /\ "TimeFunction" \notin term

\* Beyond what it is known to overlook, admission lets in nothing that the
\* reconcilers cannot bring to New Relic: once the users stop, every resource
\* whose policy and secret are still there ends up in sync.
AdmittedReachNewRelic ==
  <>[](\A c \in Conditions :
         store[c] # None /\ ~store[c].deleting =>
           LET spec == store[c].spec IN
           \/ spec.policy \notin policies
           \/ spec.key = "secret" /\ ~secret
           \/ Overlooked(KindOf[c], spec)
           \/ store[c].id # None /\ nr[store[c].id] = spec)

Deleting(c) == store[c] # None /\ store[c].deleting

\* The key or the region of the resource cannot be used.
Unconnected(c) == store[c] # None /\ ~Connects(store[c].spec, world)

\* The webhook of AlertsAPMCondition asks for a policy that is gone.
Forsaken(c) ==
  /\ store[c] # None
  /\ KindOf[c] = "AlertsAPMCondition"
  /\ store[c].spec.policy \notin policies

\* The webhooks do not stand in the way of a deletion though they see the release
\* of the finalizer, and a deletion that is held up goes on: whatever look-ups and
\* calls fail, and though the policy is gone, a resource being deleted is
\* eventually gone, unless its key or its region stays unusable from some time on,
\* so also when the secret has been away or the spec was without a key.
\* AlertsAPMConditions whose policy is gone are the exception: their webhook looks
\* for the text of another call's error, and never lets them go.
DeletionCompletes ==
  \A c \in Conditions :
    Deleting(c) ~> (store[c] = None \/ []Unconnected(c) \/ []Forsaken(c))

\* Updates that admission refuses do not break the promise of
\* ConditionController: a recorded condition is gone before its resource is.
NoRecordedLeak == C!NoRecordedLeak

\* A status that claims the current spec tells the truth for as long as the
\* policy exists, though updates are refused from the moment it does not.
AppliedIsTrue ==
  \A c \in Conditions :
    store[c] # None /\ ~store[c].deleting /\ store[c].applied = store[c].spec
      => \/ store[c].spec.policy \notin policies
         \/ store[c].id # None /\ nr[store[c].id] = store[c].spec

-----------------------------------------------------------------------------
(* The inductive invariant behind AppliedIsTrue: that of                   *)
(* ConditionController, but for the claims whose policy is gone.           *)

PolicyGone(object) == object.spec.policy \notin policies

ClaimsInHand ==
  \A k \in Kinds :
    worker[k].pc # "idle" => C!ClaimInHand(k) \/
      (worker[k].pc = "save" /\ PolicyGone(worker[k].object))

AdmittedInv(order) ==
  /\ C!LeakInv
  /\ C!Ownership
  /\ C!Doomed
  /\ C!OwnWorker
  /\ C!AppliedBefore(order)
  /\ C!ClaimsKnown
  /\ ClaimsInHand
  /\ AppliedIsTrue
=============================================================================
