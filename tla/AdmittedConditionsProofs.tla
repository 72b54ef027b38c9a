---------------------- MODULE AdmittedConditionsProofs ----------------------
(* What is proved about AdmittedConditions for every set of resources,     *)
(* specs, policies and ids: admission, refused updates, refused writes and *)
(* policies that go take nothing away from what ConditionController        *)
(* promises, but for the claims whose policy is gone.  The steps of the    *)
(* reconcilers are ConditionController's, and so are their proofs.         *)
EXTENDS AdmittedConditions, TLAPS

P == INSTANCE ConditionClaimsProofs WITH FaultKinds <- FaultKinds \ {"lookup"}

-----------------------------------------------------------------------------
(* ConditionController, as this module and as its proofs see it.           *)

LEMMA SameObjects ==
  C!Object = P!Object /\ C!Shown = P!Shown /\ C!AllFaults = P!AllFaults
BY DEF C!Object, P!Object, C!Shown, P!Shown, C!AllFaults, P!AllFaults

\* What the proofs of ConditionController assume of the constants.
LEMMA Assumed ==
  /\ KindOf \in [Conditions -> Kinds]
  /\ DOMAIN NameOf = Specs
  /\ SpecsFor \in [Conditions -> SUBSET Specs]
  /\ Edits \subseteq Specs \X Specs
  /\ None \notin Conditions \cup Specs \cup Ids
  /\ None \notin P!Object \cup P!Shown
  /\ FaultKinds \ {"lookup"} \subseteq P!AllFaults
  /\ MaxFaults \in Nat
  /\ MaxUserOps \in Nat
BY ConstantsAssumption, SameObjects

LEMMA SameType == C!TypeOK <=> P!TypeOK
BY DEF C!TypeOK, P!TypeOK, C!Busy, P!Busy, C!Idle, P!Idle, C!Object, P!Object,
       C!Steps, P!Steps

LEMMA SameInit == C!Init <=> P!Init
BY DEF C!Init, P!Init, C!Idle, P!Idle

LEMMA SameLeak == C!LeakInv <=> P!LeakInv
BY DEF C!LeakInv, P!LeakInv, C!CacheCoherent, P!CacheCoherent,
       C!WorkerCoherent, P!WorkerCoherent, C!WorkerPhases, P!WorkerPhases,
       C!FinalizerKept, P!FinalizerKept, C!IdsUsed, P!IdsUsed

LEMMA SameCopies ==
  /\ C!Ownership <=> P!Ownership
  /\ C!Doomed <=> P!Doomed
  /\ C!DistinctNames <=> P!DistinctNames
BY DEF C!Ownership, P!Ownership, C!Doomed, P!Doomed, C!Copies, P!Copies,
       C!DistinctNames, P!DistinctNames

LEMMA SameClaims ==
  ASSUME NEW order
  PROVE  /\ C!Forward(order) <=> P!Forward(order)
         /\ C!OwnWorker <=> P!OwnWorker
         /\ C!AppliedBefore(order) <=> P!AppliedBefore(order)
         /\ C!ClaimsKnown <=> P!ClaimsKnown
         /\ \A k \in Kinds : C!ClaimInHand(k) <=> P!ClaimInHand(k)
BY DEF C!Forward, P!Forward, C!OwnWorker, P!OwnWorker,
       C!AppliedBefore, P!AppliedBefore, C!Copies, P!Copies,
       C!ClaimsKnown, P!ClaimsKnown, C!Claims, P!Claims,
       C!ClaimInHand, P!ClaimInHand, C!Held, P!Held

LEMMA SameUser ==
  ASSUME NEW c \in Conditions
  PROVE  /\ C!UserCreate(c) <=> P!UserCreate(c)
         /\ C!UserEdit(c) <=> P!UserEdit(c)
         /\ C!UserDelete(c) <=> P!UserDelete(c)
BY DEF C!UserCreate, P!UserCreate, C!UserEdit, P!UserEdit, C!UserDelete,
       P!UserDelete, C!Put, P!Put, C!UserOp, P!UserOp, C!newRelic, P!newRelic

LEMMA SameManager == (C!Crash <=> P!Crash) /\ (C!Informer <=> P!Informer)
BY DEF C!Crash, P!Crash, C!Fault, P!Fault, C!Idle, P!Idle, C!cluster,
       P!cluster, C!newRelic, P!newRelic, C!Informer, P!Informer,
       C!InformerSync, P!InformerSync, C!Resync, P!Resync

LEMMA SameReconcile ==
  ASSUME NEW k, NEW c PROVE C!Reconcile(k, c) <=> P!Reconcile(k, c)
BY DEF C!Reconcile, P!Reconcile, C!ReconcileFails, P!ReconcileFails,
       C!ReconcileNothing, P!ReconcileNothing, C!ReconcileDeletion,
       P!ReconcileDeletion, C!ReconcileSpec, P!ReconcileSpec, C!Ready, P!Ready,
       C!NothingToDo, P!NothingToDo, C!Begin, P!Begin, C!Prepared, P!Prepared,
       C!Fault, P!Fault, C!cluster, P!cluster, C!newRelic, P!newRelic

LEMMA SameSearch ==
  ASSUME NEW k PROVE C!Search(k) <=> P!Search(k)
BY DEF C!Search, P!Search, C!SameName, P!SameName, C!GoOn, P!GoOn, C!Adopt,
       P!Adopt, C!Fault, P!Fault, C!cluster, P!cluster, C!newRelic, P!newRelic

LEMMA SameWrite ==
  ASSUME NEW k
  PROVE  /\ C!UpdateCondition(k) <=> P!UpdateCondition(k)
         /\ C!CreateCondition(k) <=> P!CreateCondition(k)
BY DEF C!UpdateCondition, P!UpdateCondition, C!CreateCondition,
       P!CreateCondition, C!Applied, P!Applied, C!NewCondition, P!NewCondition,
       C!FreshId, P!FreshId, C!GoOn, P!GoOn, C!Fault, P!Fault, C!cluster,
       P!cluster, C!newRelic, P!newRelic

LEMMA SameSave ==
  ASSUME NEW k
  PROVE  /\ C!Save(k) <=> P!Save(k)
         /\ C!Release(k) <=> P!Release(k)
BY DEF C!Save, P!Save, C!Release, P!Release, C!Conflict, P!Conflict,
       C!Put, P!Put, C!Return, P!Return, C!Fail, P!Fail, C!Idle, P!Idle,
       C!Fault, P!Fault, C!cluster, P!cluster, C!newRelic, P!newRelic

LEMMA SameDelete ==
  ASSUME NEW k PROVE C!DeleteCondition(k) <=> P!DeleteCondition(k)
BY DEF C!DeleteCondition, P!DeleteCondition, C!AfterDelete, P!AfterDelete,
       C!Tolerated, P!Tolerated, C!GoOn, P!GoOn, C!Fail, P!Fail, C!Idle,
       P!Idle, C!Fault, P!Fault, C!cluster, P!cluster

-----------------------------------------------------------------------------
(* The steps.                                                              *)

\* A step of ConditionController.
Plain == (P!Next \/ UNCHANGED P!vars) /\ UNCHANGED policies

\* A refusal by the webhook or by New Relic, a policy that goes, or a secret that
\* comes back: no copy is made, the worker stops or goes on as it is, and what
\* disappears from New Relic does so with its policy.
Withheld ==
  /\ P!Withheld
  /\ \A i \in Ids :
       nr'[i] = nr[i] \/ (nr'[i] = None /\ nr[i].policy \notin policies')
  /\ policies' \subseteq policies

LEMMA Refusal ==
  ASSUME P!TypeOK, NEW k \in Kinds, worker[k].pc # "idle",
         \/ C!Return(k) \/ C!Fail(k)
         \/ /\ worker[k].pc = "write"
            /\ C!GoOn(k, "save", worker[k].object)
            /\ UNCHANGED queue,
         UNCHANGED <<cluster, cache, newRelic, userOps, policies>>,
         faults' \in Nat
  PROVE  Withheld
<1>1. /\ C!Return(k) <=> P!Return(k)
      /\ C!Fail(k) <=> P!Fail(k)
      /\ \A o : C!GoOn(k, "save", o) <=> P!GoOn(k, "save", o)
      /\ P!cluster = cluster /\ P!newRelic = newRelic
  BY DEF C!Return, P!Return, C!Fail, P!Fail, C!Idle, P!Idle, C!GoOn, P!GoOn,
         P!cluster, cluster, P!newRelic, newRelic
<1>2. UNCHANGED <<P!cluster, cache, P!newRelic, userOps>>
  BY DEF P!cluster, cluster, P!newRelic, newRelic
<1>3. P!Withheld
  BY <1>1, <1>2, Assumed, P!Refusal
<1>4. QED
  BY <1>3 DEF Withheld, newRelic

\* A failed look-up is counted, and nothing else changes for it.
LEMMA RefusedUpdate ==
  ASSUME P!TypeOK, NEW k \in Kinds, worker[k].pc # "idle", UpdateRefused(k),
         C!Return(k) \/ C!Fail(k), UNCHANGED policies
  PROVE  Withheld
<1>1. UNCHANGED faults \/ LookUpFails
  BY Zenon DEF UpdateRefused
<1>2. UNCHANGED <<cluster, cache, newRelic, userOps>>
  BY Zenon DEF UpdateRefused
<1>3. faults' \in Nat
  BY <1>1 DEF LookUpFails, P!TypeOK
<1>4. QED
  BY <1>2, <1>3, Refusal

LEMMA PolicyGoes ==
  ASSUME P!TypeOK, NEW p \in Policies, DeletePolicy(p) PROVE Withheld
<1>1. /\ policies' = policies \ {p}
      /\ UNCHANGED <<cluster, cache, queue, worker, used, faults, userOps>>
      /\ nr' = [i \in Ids |->
                  IF nr[i] # None /\ nr[i].policy = p THEN None ELSE nr[i]]
  BY DEF DeletePolicy
<1>2. nr' \in [Ids -> Specs \cup {None}]
  BY <1>1 DEF P!TypeOK
<1>3. \A i \in Ids :
        nr'[i] = nr[i] \/ (nr'[i] = None /\ nr[i].policy \notin policies')
  BY <1>1
<1>4. QED
  BY <1>1, <1>2, <1>3 DEF Withheld, P!Withheld, P!TypeOK, cluster

LEMMA SecretReturns ==
  ASSUME P!TypeOK, CreateSecret PROVE Withheld
BY DEF CreateSecret, Withheld, P!Withheld, P!TypeOK, cluster, newRelic

LEMMA CallSteps ==
  ASSUME P!TypeOK, NEW k \in Kinds, Call(k), UNCHANGED policies
  PROVE  P!Next \/ Withheld
<1>1. P!Call(k) => P!Next
  BY DEF P!Next
<1>2. CASE Write(k)
  <2>1. CASE C!UpdateCondition(k) \/ C!CreateCondition(k)
    BY <1>1, <2>1, SameWrite DEF P!Call
  <2>2. CASE /\ C!GoOn(k, "save", worker[k].object)
             /\ UNCHANGED <<cluster, cache, queue, newRelic, faults, userOps>>
    BY <1>2, <2>2, Refusal DEF Write, P!TypeOK
  <2>3. QED
    BY <1>2, <2>1, <2>2 DEF Write
<1>3. CASE Save(k)
  BY <1>1, <1>3, SameSave, RefusedUpdate DEF Save, P!Call
<1>4. CASE Release(k)
  BY <1>1, <1>4, SameSave, RefusedUpdate DEF Release, P!Call
<1>5. CASE C!Search(k) \/ C!DeleteCondition(k)
  BY <1>1, <1>5, SameSearch, SameDelete DEF P!Call
<1>6. QED
  BY <1>2, <1>3, <1>4, <1>5 DEF Call

LEMMA AdmittedSteps ==
  ASSUME P!TypeOK, [Next]_vars
  PROVE  Plain \/ Withheld
<1>1. UNCHANGED <<store, revision, cache, queue, worker, nr, used, faults,
                  userOps, policies>> => Plain
  BY DEF Plain, P!vars
<1>2. CASE UNCHANGED vars
  BY <1>1, <1>2 DEF vars, cluster, newRelic
<1>3. CASE DeleteSecret
  BY <1>1, <1>3 DEF DeleteSecret, cluster, newRelic
<1>4. CASE User /\ UNCHANGED policies
  <2>1. PICK c \in Conditions :
          C!UserCreate(c) \/ C!UserEdit(c) \/ C!UserDelete(c)
    BY <1>4 DEF User, UserCreate, UserEdit
  <2>2. P!User
    BY <2>1, SameUser DEF P!User
  <2>3. QED
    BY <1>4, <2>2 DEF Plain, P!Next
<1>5. CASE (C!Informer \/ C!Crash) /\ UNCHANGED policies
  BY <1>5, SameManager DEF Plain, P!Next
<1>6. CASE Reconcilers /\ UNCHANGED policies
  <2>1. PICK k \in Kinds : Call(k) \/ \E c \in Conditions : Reconcile(k, c)
    BY <1>6 DEF Reconcilers, AlertsNrqlReconcile, AlertsNrqlCall,
       AlertsAPMReconcile, AlertsAPMCall, NrqlAlertReconcile, NrqlAlertCall,
       ApmAlertReconcile, ApmAlertCall, Kinds
  <2>2. Call(k) => Plain \/ Withheld
    BY <1>6, CallSteps DEF Plain
  <2>3. ASSUME NEW c \in Conditions, Reconcile(k, c) PROVE P!Next
    BY <2>3, SameReconcile DEF Reconcile, P!Next
  <2>4. QED
    BY <1>6, <2>1, <2>2, <2>3 DEF Plain
<1>7. QED
  BY <1>2, <1>3, <1>4, <1>5, <1>6, PolicyGoes, SecretReturns DEF Next

-----------------------------------------------------------------------------
(* Type correctness.                                                       *)

LEMMA WithheldType ==
  ASSUME P!TypeOK, Withheld PROVE P!TypeOK'
BY Assumed, P!WithheldType DEF Withheld

\* Every reachable state has well-formed resources, copies, workers, New Relic
\* conditions and policies.
THEOREM TypeCorrect == Spec => []TypeOK
<1>1. Init => TypeOK
  <2>1. Init => P!TypeOK
    BY SameInit, Assumed, P!InitType DEF Init
  <2>2. QED
    BY <2>1, SameType DEF Init, TypeOK
<1>2. ASSUME TypeOK, [Next]_vars PROVE TypeOK'
  <2>1. P!TypeOK
    BY <1>2, SameType DEF TypeOK
  <2>2. P!TypeOK'
    BY <1>2, <2>1, AdmittedSteps, WithheldType, Assumed, P!StepType DEF Plain
  <2>3. C!TypeOK'
    BY <2>2, SameType, PTL
  <2>4. policies' \subseteq Policies
    BY <1>2, <2>1, AdmittedSteps DEF TypeOK, Plain, Withheld
  <2>5. secret' \in BOOLEAN
    BY <1>2 DEF TypeOK, Next, DeletePolicy, DeleteSecret, CreateSecret, vars
  <2>6. QED
    BY <2>3, <2>4, <2>5 DEF TypeOK
<1>3. QED
  BY <1>1, <1>2, PTL DEF Spec

-----------------------------------------------------------------------------
(* The inductive invariant.                                                *)

LEMMA WithheldWorker ==
  ASSUME P!TypeOK, Withheld, NEW k \in Kinds, worker'[k].pc # "idle"
  PROVE  /\ worker[k].pc # "idle"
         /\ worker'[k].key = worker[k].key
         /\ worker'[k].rev = worker[k].rev
         /\ worker'[k].object = worker[k].object
         /\ \/ worker'[k].pc = worker[k].pc
            \/ worker[k].pc = "write" /\ worker'[k].pc = "save"
BY Assumed, P!WithheldWorker DEF Withheld

LEMMA WithheldLeak ==
  ASSUME P!TypeOK, P!LeakInv, Withheld PROVE P!LeakInv'
BY Assumed, P!WithheldLeak DEF Withheld

LEMMA WithheldCopies ==
  ASSUME P!TypeOK, Withheld, NEW c \in Conditions, NEW o \in P!Copies(c)'
  PROVE  o \in P!Copies(c) /\ o \in P!Object
<1>1. P!TypeOK'
  BY WithheldType
<1>2. /\ o # None /\ o \in P!Object
      /\ \/ o = store'[c]
         \/ o = cache'[c].object
         \/ \E k \in Kinds : worker'[k].key = c /\ worker'[k].object = o
  BY <1>1, Assumed, P!CopiesAreNext
<1>3. ASSUME NEW k \in Kinds, worker'[k].key = c
      PROVE  worker[k].key = c /\ worker[k].object = worker'[k].object
  <2>1. worker'[k] \in P!Busy \cup {P!Idle} /\ c # None
    BY <1>1, Assumed DEF P!TypeOK
  <2>2. worker'[k].pc # "idle"
    BY <1>3, <2>1 DEF P!Busy, P!Idle, P!Steps
  <2>3. QED
    BY <1>3, <2>2, WithheldWorker
<1>4. store' = store /\ cache' = cache
  BY DEF Withheld, P!Withheld
<1>5. o \in P!Copies(c) <=>
        /\ o # None
        /\ \/ o = store[c]
           \/ o = cache[c].object
           \/ \E k \in Kinds : worker[k].key = c /\ worker[k].object = o
  BY Assumed, P!CopiesAre
<1>6. QED
  BY <1>2, <1>3, <1>4, <1>5

LEMMA WithheldOwned ==
  ASSUME P!TypeOK, P!Ownership, P!Doomed, Withheld
  PROVE  P!Ownership' /\ P!Doomed'
<1>1. ASSUME NEW c \in Conditions, NEW o \in P!Copies(c)'
      PROVE  /\ o \in P!Copies(c)
             /\ o.id # None => o.id \in Ids
  BY WithheldCopies DEF P!Object
<1>2. \A i \in Ids : nr'[i] \in {nr[i], None}
  BY DEF Withheld
<1>3. P!Ownership'
  BY <1>1, <1>2 DEF P!Ownership
<1>4. P!Doomed'
  BY <1>1, <1>2 DEF P!Doomed, Withheld, P!Withheld
<1>5. QED
  BY <1>3, <1>4

LEMMA WithheldClaims ==
  ASSUME P!TypeOK, Withheld, NEW order,
         P!OwnWorker, P!AppliedBefore(order), P!ClaimsKnown
  PROVE  P!OwnWorker' /\ P!AppliedBefore(order)' /\ P!ClaimsKnown'
<1>1. P!OwnWorker'
  BY WithheldWorker DEF P!OwnWorker, Withheld, P!Withheld
<1>2. P!AppliedBefore(order)'
  BY WithheldCopies DEF P!AppliedBefore
<1>3. P!ClaimsKnown'
  <2>1. store' = store /\ cache' = cache
    BY DEF Withheld, P!Withheld
  <2>2. \A k \in Kinds : worker'[k].pc # "idle" =>
          /\ worker[k].pc # "idle"
          /\ worker'[k].key = worker[k].key
          /\ worker'[k].object = worker[k].object
    BY WithheldWorker
  <2>3. QED
    BY <2>1, <2>2 DEF P!ClaimsKnown, P!Claims
<1>4. QED
  BY <1>1, <1>2, <1>3

\* The claims of one worker, as ClaimsInHand states them.
Honest(k) ==
  worker[k].pc # "idle" => P!ClaimInHand(k) \/
    (worker[k].pc = "save" /\ PolicyGone(worker[k].object))

\* A worker whose claim is not true holds one of a policy that is gone.
LEMMA HonestKept ==
  ASSUME P!TypeOK, P!TypeOK', P!LeakInv, P!Ownership, P!OwnWorker,
         "outOfBand" \notin FaultKinds, Plain \/ Withheld,
         NEW k \in Kinds, Honest(k)
  PROVE  Honest(k)'
<1> SUFFICES ASSUME worker'[k].pc # "idle" PROVE Honest(k)'
  BY DEF Honest
<1>1. CASE Plain
  <2>1. CASE P!ClaimInHand(k)
    <3>1. P!ClaimInHand(k)'
      BY <1>1, <2>1, Assumed, P!ClaimInHandKept DEF Plain
    <3>2. QED
      BY <3>1 DEF Honest
  <2>2. CASE worker[k].pc = "save" /\ PolicyGone(worker[k].object)
    <3>1. worker'[k] = worker[k]
      <4>1. \/ worker'[k] = worker[k]
            \/ \E c \in Conditions :
                 P!ReconcileDeletion(k, c) \/ P!ReconcileSpec(k, c)
            \/ P!Search(k) \/ P!UpdateCondition(k) \/ P!CreateCondition(k)
            \/ P!DeleteCondition(k)
        BY <1>1, Assumed, P!WorkerMoves DEF Plain
      <4>2. QED
        BY <2>2, <4>1
        DEF P!ReconcileDeletion, P!ReconcileSpec, P!Ready, P!Search,
            P!UpdateCondition, P!CreateCondition, P!DeleteCondition
    <3>2. QED
      BY <1>1, <2>2, <3>1 DEF Honest, Plain, PolicyGone
  <2>3. QED
    BY <2>1, <2>2 DEF Honest, P!ClaimInHand
<1>2. CASE Withheld
  <2> DEFINE o == worker[k].object
  <2>1. /\ worker[k].pc # "idle"
        /\ worker'[k].key = worker[k].key
        /\ worker'[k].object = o
        /\ \/ worker'[k].pc = worker[k].pc
           \/ worker[k].pc = "write" /\ worker'[k].pc = "save"
    BY <1>2, WithheldWorker
  <2>2. CASE PolicyGone(o) /\ worker[k].pc = "save"
    BY <1>2, <2>1, <2>2 DEF Honest, PolicyGone, Withheld
  <2>3. CASE P!ClaimInHand(k) /\ worker'[k].pc = "save" /\ o.applied = o.spec
    <3>1. o.id # None /\ nr[o.id] = o.spec
      BY <2>1, <2>3 DEF P!ClaimInHand, P!Held
    <3>2. o \in P!Object
      BY <2>1, Assumed, P!BusyType
    <3>3. o.id \in Ids
      BY <3>1, <3>2 DEF P!Object
    <3>4. nr'[o.id] = o.spec \/ o.spec.policy \notin policies'
      BY <1>2, <3>1, <3>3 DEF Withheld
    <3>5. QED
      BY <2>1, <2>3, <3>1, <3>4 DEF Honest, P!ClaimInHand, P!Held, PolicyGone
  <2>4. CASE P!ClaimInHand(k) /\ ~(worker'[k].pc = "save" /\ o.applied = o.spec)
    BY <2>1, <2>4 DEF Honest, P!ClaimInHand
  <2>5. QED
    BY <2>1, <2>2, <2>3, <2>4 DEF Honest
<1>3. QED
  BY <1>1, <1>2

LEMMA StepApplied ==
  ASSUME NEW order, P!Forward(order), P!TypeOK, P!TypeOK', P!LeakInv,
         P!Ownership, P!Doomed, P!OwnWorker, P!AppliedBefore(order),
         P!ClaimsKnown, \A k \in Kinds : Honest(k), AppliedIsTrue,
         "outOfBand" \notin FaultKinds, Plain \/ Withheld
  PROVE  AppliedIsTrue'
<1> SUFFICES ASSUME NEW c \in Conditions, P!Claims(store'[c]),
                    store'[c].spec.policy \in policies'
             PROVE  store'[c].id # None /\ nr'[store'[c].id] = store'[c].spec
  BY DEF AppliedIsTrue, P!Claims
<1>1. store'[c].spec.policy \in policies
  BY DEF Plain, Withheld
<1>2. store'[c] = store[c] => P!Held(store[c])
  BY <1>1 DEF AppliedIsTrue, P!Claims, P!Held
<1>3. CASE Plain
  <2>1. ASSUME NEW k \in Kinds, worker[k].pc = "save",
               worker[k].object = store'[c]
        PROVE  P!Held(worker[k].object)
    BY <1>1, <2>1 DEF Honest, PolicyGone, P!ClaimInHand, P!Claims
  <2>2. QED
    BY <1>2, <1>3, <2>1, Assumed, P!AppliedKept DEF Plain
<1>4. CASE Withheld
  <2>1. store'[c] = store[c]
    BY <1>4 DEF Withheld, P!Withheld
  <2>2. store[c].id # None /\ nr[store[c].id] = store[c].spec
    BY <1>2, <2>1 DEF P!Held
  <2>3. store[c] \in P!Object
    BY <2>1 DEF P!TypeOK, P!Claims
  <2>4. store[c].id \in Ids
    BY <2>2, <2>3 DEF P!Object
  <2>5. QED
    BY <1>4, <2>1, <2>2, <2>4 DEF Withheld
<1>5. QED
  BY <1>3, <1>4

\* The inductive invariant, with ConditionController as its proofs see it.
Inv(order) ==
  /\ P!LeakInv
  /\ P!Ownership
  /\ P!Doomed
  /\ P!OwnWorker
  /\ P!AppliedBefore(order)
  /\ P!ClaimsKnown
  /\ \A k \in Kinds : Honest(k)
  /\ AppliedIsTrue

LEMMA SameInv ==
  ASSUME NEW order PROVE AdmittedInv(order) <=> Inv(order)
BY SameLeak, SameCopies, SameClaims DEF AdmittedInv, Inv, ClaimsInHand, Honest

LEMMA StepInv ==
  ASSUME NEW order, P!Forward(order), P!DistinctNames,
         "outOfBand" \notin FaultKinds,
         P!TypeOK, P!TypeOK', Inv(order), Plain \/ Withheld
  PROVE  Inv(order)'
<1>1. AppliedIsTrue'
  BY StepApplied DEF Inv
<1>2. \A k \in Kinds : Honest(k)'
  BY HonestKept DEF Inv
<1>3. CASE Plain
  <2>1. [P!Next]_(P!vars)
    BY <1>3 DEF Plain
  <2>2. P!LeakInv'
    BY <2>1, Assumed, P!StepLeak DEF Inv
  <2>3. P!Ownership'
    BY <2>1, Assumed, P!StepOwnership DEF Inv
  <2>4. P!Doomed'
    BY <2>1, Assumed, P!StepDoomed DEF Inv
  <2>5. P!OwnWorker'
    BY <2>1, Assumed, P!OwnWorkerKept DEF Inv
  <2>6. P!AppliedBefore(order)'
    BY <2>1, Assumed, P!AppliedBeforeKept DEF Inv
  <2>7. P!ClaimsKnown'
    BY <2>1, <2>5, Assumed, P!ClaimsKnownKept DEF Inv
  <2>8. QED
    BY <1>1, <1>2, <2>2, <2>3, <2>4, <2>5, <2>6, <2>7 DEF Inv
<1>4. CASE Withheld
  BY <1>1, <1>2, <1>4, WithheldLeak, WithheldOwned, WithheldClaims DEF Inv
<1>5. QED
  BY <1>3, <1>4

LEMMA AdmittedInvariant ==
  ASSUME NEW order, C!Forward(order), C!DistinctNames,
         "outOfBand" \notin FaultKinds
  PROVE  Spec => []AdmittedInv(order)
<1>1. P!Forward(order) /\ P!DistinctNames
  BY SameClaims, SameCopies
<1>2. TypeOK => P!TypeOK
  BY SameType DEF TypeOK
<1>3. Init => Inv(order)
  <2> SUFFICES ASSUME Init PROVE Inv(order)
    OBVIOUS
  <2>1. P!Init /\ P!TypeOK
    BY SameInit, Assumed, P!InitType DEF Init
  <2>2. \A c \in Conditions : P!Copies(c) = {}
    BY <2>1, Assumed DEF P!Init, P!Copies, P!Idle
  <2>3. P!LeakInv
    BY <2>1, Assumed, P!InitLeak
  <2>4. P!Ownership /\ P!Doomed /\ P!AppliedBefore(order)
    BY <2>1, <2>2 DEF P!Ownership, P!Doomed, P!AppliedBefore, P!Init
  <2>5. P!OwnWorker /\ P!ClaimsKnown /\ AppliedIsTrue
        /\ \A k \in Kinds : Honest(k)
    BY <2>1 DEF P!OwnWorker, P!ClaimsKnown, P!Claims, AppliedIsTrue, Honest,
                P!Init, P!Idle
  <2>6. QED
    BY <2>3, <2>4, <2>5 DEF Inv
<1>4. P!TypeOK /\ P!TypeOK' /\ Inv(order) /\ [Next]_vars => Inv(order)'
  BY <1>1, StepInv, AdmittedSteps
<1>5. Inv(order) => AdmittedInv(order)
  BY SameInv
<1>6. QED
  BY <1>2, <1>3, <1>4, <1>5, TypeCorrect, PTL DEF Spec

\* A status that claims the current spec tells the truth for as long as the
\* policy exists, whatever admission and New Relic refuse, as long as no user
\* edits back to an earlier spec and nobody deletes a condition in New Relic
\* without its policy.
THEOREM AppliedTrue ==
  ASSUME NEW order, C!Forward(order), C!DistinctNames,
         "outOfBand" \notin FaultKinds
  PROVE  Spec => []AppliedIsTrue
<1>1. AdmittedInv(order) => AppliedIsTrue
  BY DEF AdmittedInv
<1>2. QED
  BY <1>1, AdmittedInvariant, PTL

-----------------------------------------------------------------------------
(* NoRecordedLeak.                                                         *)

LEMMA LeakInvariant == Spec => []P!LeakInv
<1>1. Init => P!LeakInv
  BY SameInit, Assumed, P!InitLeak DEF Init
<1>2. TypeOK => P!TypeOK
  BY SameType DEF TypeOK
<1>3. P!TypeOK /\ P!LeakInv /\ [Next]_vars => P!LeakInv'
  <2> SUFFICES ASSUME P!TypeOK, P!LeakInv, [Next]_vars PROVE P!LeakInv'
    OBVIOUS
  <2>1. Plain => P!LeakInv'
    BY Assumed, P!StepLeak DEF Plain
  <2>2. QED
    BY <2>1, AdmittedSteps, WithheldLeak
<1>4. QED
  BY <1>1, <1>2, <1>3, TypeCorrect, PTL DEF Spec

\* A resource that records a condition leaves the cluster only when New Relic
\* no longer holds the condition, though admission may refuse any update.
THEOREM NoLeak == Spec => NoRecordedLeak
<1> DEFINE Step == \A c \in Conditions :
                     store[c] # None /\ store'[c] = None /\ store[c].id # None
                       => nr[store[c].id] = None
<1>1. TypeOK => P!TypeOK
  BY SameType DEF TypeOK
<1>2. P!TypeOK /\ P!LeakInv /\ [Next]_vars => Step
  <2> SUFFICES ASSUME P!TypeOK, P!LeakInv, [Next]_vars PROVE Step
    OBVIOUS
  <2>1. Plain => Step
    BY Assumed, P!StepNoLeak DEF Plain
  <2>2. Withheld => Step
    BY DEF Withheld, P!Withheld
  <2>3. QED
    BY <2>1, <2>2, AdmittedSteps
<1>3. UNCHANGED vars => UNCHANGED C!vars
  BY DEF vars, C!vars, cluster, newRelic
<1>4. QED
  BY <1>1, <1>2, <1>3, TypeCorrect, LeakInvariant, PTL
  DEF Spec, NoRecordedLeak, C!NoRecordedLeak
=============================================================================
