-------------------------- MODULE PolicyController --------------------------
(***************************************************************************)
(* The legacy Policy controller together with the controllers of the       *)
(* condition resources it creates (NrqlAlertCondition, ApmAlertCondition:  *)
(* ConditionController), their webhooks' lookup of the policy, and New     *)
(* Relic, which deletes a policy with its conditions.                      *)
(*                                                                         *)
(* Both kinds of controller write the same condition resources and read    *)
(* them from the same cache: the policy's worker writes their specs, their *)
(* own workers the status and the finalizer, and each Update writes all.   *)
(***************************************************************************)
EXTENDS Naturals, Sequences, FiniteSets

CONSTANTS
  Titles,         \* the policy names, with their incident preferences
  ConditionSpecs, \* the values a PolicyCondition's Spec may take
  TitleOf,        \* the New Relic condition name of each
  TypeOf,         \* the kind of resource of each (GetConditionType)
  Given,          \* the policies the users first apply
  PolicyEdits,    \* the pairs <<old, new>> of policies the users edit between
  PolicyIds,      \* New Relic policy ids, a bound on the policies created
  Conditions,     \* the names the API server generates, a bound on resources
  KindOf,         \* the kind of resource each is the name of
  Ids,            \* New Relic condition ids, a bound on how many are created
  None,           \* no resource, no name, no id, no applied spec
  FaultKinds,     \* the faults that may happen
  MaxFaults,      \* bound on the number of faults
  MaxUserOps      \* bound on the number of changes the users make

Kinds == {"NrqlAlertCondition", "ApmAlertCondition"}

\* The Spec of a condition resource, with the policy it inherits.  A condition
\* is found in New Relic by its name within its policy.
Specs    == [spec : ConditionSpecs, policy : PolicyIds]
NameOf   == [s \in Specs |-> <<TitleOf[s.spec], s.policy>>]
SpecsFor == [c \in Conditions |-> {}]
Edits    == {}

VARIABLES
  store, revision, cache, queue, worker, nr, used,  \* see ConditionController
  faults, userOps,
  policy,   \* API server: the policy resource and its revision
  copy,     \* the informer's copy of it
  queued,   \* whether it is in the work queue
  run,      \* where the policy's worker is, and its local copy
  policies, \* New Relic: the title of each policy id, or None
  given     \* New Relic: the policy ids given out so far

C == INSTANCE ConditionController

cluster  == <<store, revision>>
newRelic == <<nr, used>>
upstream == <<policies, given>>
ofConditions == <<cluster, cache, queue, worker, newRelic>>
ofPolicy     == <<policy, copy, queued, run, upstream>>
vars == <<ofConditions, faults, userOps, ofPolicy>>

\* A PolicyCondition: the name of its resource, and its spec.
Entry  == [name : Conditions \cup {None}, spec : ConditionSpecs]
Policy == [title : Titles, conditions : Seq(Entry)]

\* What a user writes: conditions without the names of their resources.
Plain == [title : Titles, conditions : Seq(ConditionSpecs)]

\* The AppliedSpec that the webhook's Default puts in a new resource.
Nothing == [title |-> None, conditions |-> <<>>]

\* No CRD here has a status subresource: one Update writes all of this.
Object == [spec : Policy, deleting : BOOLEAN, finalizer : BOOLEAN,
           id : PolicyIds \cup {None}, applied : Policy \cup {Nothing}]

Versioned == [object : Object \cup {None}, rev : Nat]

ASSUME ConstantsAssumption ==
  /\ KindOf \in [Conditions -> Kinds]
  /\ Given \subseteq Plain
  /\ PolicyEdits \subseteq Plain \X Plain
  /\ None \notin Titles /\ None \notin PolicyIds /\ None \notin Object
  /\ None \notin Conditions /\ None \notin Specs /\ None \notin Ids
  /\ None \notin C!Object \cup C!Shown
  /\ FaultKinds \subseteq C!AllFaults
  /\ MaxFaults \in Nat
  /\ MaxUserOps \in Nat

(* mode: createPolicy, updatePolicy or deletePolicy.  next: the index of   *)
(* the condition to process.  done: the resources processed.  left: the    *)
(* conditions whose resources are yet to delete.  failed: collectedErrors  *)
(* is not empty.                                                           *)
Idle == [pc |-> "idle", mode |-> "none", object |-> None, rev |-> 0, next |-> 0,
         done |-> {}, left |-> {}, failed |-> FALSE]
Busy == [pc : {"search", "create", "update", "conditions", "stragglers", "save",
               "deleteConditions", "delete", "release"},
         mode : {"create", "update", "delete"}, object : Object, rev : Nat,
         next : Nat, done : SUBSET Conditions, left : SUBSET Entry,
         failed : BOOLEAN]

TypeOK ==
  /\ C!TypeOK
  /\ policy   \in Versioned
  /\ copy     \in Versioned
  /\ queued   \in BOOLEAN
  /\ run      \in Busy \cup {Idle}
  /\ policies \in [PolicyIds -> Titles \cup {None}]
  /\ given    \subseteq PolicyIds

Init ==
  /\ C!Init
  /\ policy   = [object |-> None, rev |-> 0]
  /\ copy     = policy
  /\ queued   = FALSE
  /\ run      = Idle
  /\ policies = [i \in PolicyIds |-> None]
  /\ given    = {}

-----------------------------------------------------------------------------
(* The users.                                                              *)

\* A Delete only marks a resource that has a finalizer.
Deleted(object) ==
  IF object.finalizer THEN [object EXCEPT !.deleting = TRUE] ELSE None

Put(object) == policy' = [object |-> object, rev |-> policy.rev + 1]

UserOp ==
  /\ userOps < MaxUserOps
  /\ userOps' = userOps + 1
  /\ UNCHANGED <<ofConditions, faults, copy, queued, run, upstream>>

\* The policy p, a record of a title and condition specs, with these names.
Named(p, name) ==
  [p EXCEPT !.conditions =
     [i \in DOMAIN p.conditions |-> [name |-> name[i], spec |-> p.conditions[i]]]]

WithoutNames(p) ==
  [p EXCEPT !.conditions = [i \in DOMAIN p.conditions |-> p.conditions[i].spec]]

\* The webhook refuses a policy with two conditions of one spec, or of one hash.
Valid(p) ==
  \A i, j \in DOMAIN p.conditions : p.conditions[i] = p.conditions[j] => i = j

\* One life of the resource: a new one of the same name is another resource.
UserCreate ==
  /\ policy.rev = 0
  /\ \E p \in Given :
       /\ Valid(p)
       /\ Put([spec |-> Named(p, [i \in DOMAIN p.conditions |-> None]),
               deleting |-> FALSE, finalizer |-> FALSE, id |-> None,
               applied |-> Nothing])
  /\ UserOp

\* kubectl apply drops the names the operator wrote into the spec, kubectl
\* edit leaves them where they are.
UserEdit ==
  /\ policy.object # None
  /\ \E edit \in PolicyEdits, keep \in BOOLEAN :
       LET old == policy.object.spec IN
       /\ edit[1] = WithoutNames(old)
       /\ Valid(edit[2])
       /\ Put([policy.object EXCEPT !.spec = Named(edit[2],
            [i \in DOMAIN edit[2].conditions |->
               IF keep /\ i \in DOMAIN old.conditions
               THEN old.conditions[i].name ELSE None])])
  /\ UserOp

UserDelete ==
  /\ policy.object # None
  /\ ~policy.object.deleting
  /\ Put(Deleted(policy.object))
  /\ UserOp

-----------------------------------------------------------------------------
(* The manager, which the controllers share.                               *)

PolicySync ==
  /\ copy # policy
  /\ copy' = policy
  /\ queued' = TRUE
  /\ UNCHANGED <<ofConditions, faults, userOps, policy, run, upstream>>

\* The periodic resync of one kind's informer enqueues all that its cache holds.
\* It counts as a fault, which bounds it.
Resync ==
  /\ C!Fault("resync")
  /\ \/ /\ copy.object # None /\ ~queued
        /\ queued' = TRUE
        /\ UNCHANGED queue
     \/ \E kind \in Kinds :
          /\ queue' = queue \cup {c \in Conditions :
                                    KindOf[c] = kind /\ cache[c].object # None}
          /\ queue' # queue
          /\ UNCHANGED queued
  /\ UNCHANGED <<cluster, cache, worker, newRelic, userOps, policy, copy, run, upstream>>

Crash ==
  /\ C!Crash
  /\ copy'   = policy
  /\ queued' = (policy.object # None)
  /\ run'    = Idle
  /\ UNCHANGED <<policy, upstream>>

-----------------------------------------------------------------------------
(* The condition controllers, behind their webhooks.                       *)

\* The webhooks look up the policy, and forgive its absence on the way out.
Admitted(object) == policies[object.spec.policy] # None \/ object.deleting

\* New Relic creates no condition in a policy it does not hold.
ConditionWrite(k) ==
  /\ worker[k].pc = "write"
  /\ IF policies[worker[k].object.spec.policy] # None
     THEN C!UpdateCondition(k) \/ C!CreateCondition(k)
     ELSE /\ C!GoOn(k, "save", worker[k].object)
          /\ UNCHANGED <<cluster, cache, queue, newRelic, faults, userOps>>

ConditionSave(k) ==
  /\ worker[k].pc = "save"
  /\ IF Admitted(worker[k].object) THEN C!Save(k)
     ELSE /\ C!Return(k)
          /\ UNCHANGED <<cluster, cache, newRelic, faults, userOps>>

ConditionCall(k) ==
  \/ C!Search(k) \/ ConditionWrite(k) \/ ConditionSave(k)
  \/ C!DeleteCondition(k) \/ C!Release(k)

ConditionControllers ==
  /\ \/ \E c \in Conditions : C!InformerSync(c)
     \/ \E k \in Kinds : ConditionCall(k) \/ \E c \in Conditions : C!Reconcile(k, c)
  /\ UNCHANGED ofPolicy

-----------------------------------------------------------------------------
(* What the code computes in memory.                                       *)

Listed(p) == {p.conditions[i] : i \in DOMAIN p.conditions}
SpecsOf(p) == {e.spec : e \in Listed(p)}

\* PolicySpec.Equals: the conditions count as sets of specs (their hashes),
\* without the names of their resources.
Equals(p, q) ==
  /\ p.title = q.title
  /\ Len(p.conditions) = Len(q.conditions)
  /\ SpecsOf(q) \subseteq SpecsOf(p)

\* The resource of a condition: the one it names, or else the one of the first
\* applied condition with its New Relic name.
ResourceOf(e, applied) ==
  LET same == {i \in DOMAIN applied.conditions :
                 TitleOf[applied.conditions[i].spec] = TitleOf[e.spec]}
  IN  IF e.name # None THEN e.name
      ELSE IF same = {} THEN None
      ELSE applied.conditions[CHOOSE i \in same : \A j \in same : i <= j].name

\* getNrqlConditionFromPolicyCondition and its twin: the Get of the resource,
\* as the kind of the condition's spec, with its error thrown away.
Retrieved(e) ==
  IF e.name # None /\ KindOf[e.name] = TypeOf[e.spec] THEN cache[e.name].object
  ELSE None

\* Where updatePolicy goes on, in memory, to its next call.
AtConditions(o) ==
  IF o.spec.conditions = o.applied.conditions THEN "save" ELSE "conditions"
AtUpdate(o) ==
  IF o.spec.title # o.applied.title THEN "update" ELSE AtConditions(o)

\* The worker when it gets to a step.
At(step, mode, o, rev) ==
  [pc |-> step, mode |-> mode, object |-> o, rev |-> rev, next |-> 1,
   done |-> {}, failed |-> FALSE,
   left |-> IF step = "deleteConditions" THEN Listed(o.applied) ELSE {}]

Go(step, mode, o) == run' = At(step, mode, o, run.rev) /\ UNCHANGED queued

\* Reconcile returns nil, or an error that requeues the policy.
Return == run' = Idle /\ UNCHANGED queued
Fail   == run' = Idle /\ queued' = TRUE

-----------------------------------------------------------------------------
(* Reconcile, up to its first call.                                        *)

\* Being deleted without a PolicyID, the finalizer is removed in memory only.
NothingToDo(object) ==
  object # None =>
    IF object.deleting THEN ~object.finalizer \/ object.id = None
    ELSE Equals(object.spec, object.applied)

Ready == run.pc = "idle" /\ queued /\ UNCHANGED <<ofConditions, userOps, policy, copy, upstream>>

\* Get, the API key's secret or the client fails: the error requeues.
ReconcileFails == Ready /\ C!Fault("get") /\ UNCHANGED <<queued, run>>

ReconcileNothing ==
  /\ Ready
  /\ NothingToDo(copy.object)
  /\ queued' = FALSE
  /\ UNCHANGED <<run, faults>>

Begin(step, mode, object) ==
  /\ run' = At(step, mode, object, copy.rev)
  /\ queued' = FALSE
  /\ UNCHANGED faults

ReconcileDeletion ==
  /\ Ready
  /\ ~NothingToDo(copy.object)
  /\ copy.object.deleting
  /\ Begin("deleteConditions", "delete", copy.object)

\* The finalizer is appended in memory only.
ReconcileSpec ==
  LET object == [copy.object EXCEPT !.finalizer = TRUE] IN
  /\ Ready
  /\ ~NothingToDo(copy.object)
  /\ ~copy.object.deleting
  /\ IF object.id = None THEN Begin("search", "create", object)
                         ELSE Begin(AtUpdate(object), "update", object)

-----------------------------------------------------------------------------
(* The policy in New Relic.                                                *)

Step(pc) == run.pc = pc /\ UNCHANGED <<userOps, copy>>

\* Mutant: the id of the policy found is not read.
MutantZeroId(object, i) == [object EXCEPT !.id = 0]

Adopt(object, i) == [object EXCEPT !.id = i]

\* checkForExistingPolicy: an error is only logged.
Search ==
  LET object == run.object
      found  == {i \in PolicyIds : policies[i] = object.spec.title}
      goOn(o) == IF o.id = None THEN Go("create", "create", o)
                                ELSE Go(AtUpdate(o), "update", o)
  IN  /\ Step("search")
      /\ \/ /\ \E i \in found : goOn(Adopt(object, i))
            /\ UNCHANGED faults
         \/ found = {} /\ goOn(object) /\ UNCHANGED faults
         \/ C!Fault("search") /\ goOn(object)
      /\ UNCHANGED <<ofConditions, policy, upstream>>

FreshId == CHOOSE i \in PolicyIds \ given : TRUE

NewPolicy(title) ==
  /\ PolicyIds # given
  /\ policies' = [policies EXCEPT ![FreshId] = title]
  /\ given' = given \cup {FreshId}

CreatePolicy ==
  LET object == run.object IN
  /\ Step("create")
  /\ \/ /\ NewPolicy(object.spec.title)
        /\ Go("conditions", "create", [object EXCEPT !.id = FreshId])
        /\ UNCHANGED faults
     \/ C!Fault("write") /\ Fail /\ UNCHANGED upstream
     \/ C!Fault("lostWrite") /\ NewPolicy(object.spec.title) /\ Fail
  /\ UNCHANGED <<ofConditions, policy>>

\* New Relic answers with an error when there is no such policy.
UpdatePolicy ==
  LET object == run.object
      i      == object.id
  IN  /\ Step("update")
      /\ \/ /\ policies[i] # None
            /\ policies' = [policies EXCEPT ![i] = object.spec.title]
            /\ Go(AtConditions(object), "update", object)
            /\ UNCHANGED faults
         \/ policies[i] = None /\ Fail /\ UNCHANGED <<policies, faults>>
         \/ C!Fault("write") /\ Fail /\ UNCHANGED policies
      /\ UNCHANGED <<ofConditions, policy, given>>

-----------------------------------------------------------------------------
(* The condition resources.                                                *)

InLoop == run.next \in DOMAIN run.object.spec.conditions

Current == run.object.spec.conditions[run.next]

\* Mutant: the errors of the conditions are not collected.
MutantNoErrors(name, error) ==
  run' = [run EXCEPT !.next = @ + 1, !.done = @ \cup ({name} \ {None}),
                     !.object.spec.conditions[run.next].name = name]

\* The current condition has this resource, if any, or has failed.
Processed(name, error) ==
  run' = [run EXCEPT !.next = @ + 1, !.done = @ \cup ({name} \ {None}),
                     !.object.spec.conditions[run.next].name = name,
                     !.failed = @ \/ error]

\* The Spec of a condition's resource, with what it inherits.
Inherited(e) == [spec |-> e.spec, policy |-> run.object.id]

Unused(kind) == {c \in Conditions : KindOf[c] = kind /\ revision[c] = 0}

\* createNrqlCondition, createApmCondition: no owner reference is set.
NewResource(c, e) ==
  /\ policies[run.object.id] # None   \* or the webhook refuses
  /\ C!Put(c, [spec |-> Inherited(e), deleting |-> FALSE, finalizer |-> FALSE,
               id |-> None, applied |-> None])

\* createConditions creates a resource for each condition, whatever its name;
\* createOrUpdateCondition for those without one.
CreateCondition ==
  /\ Step("conditions") /\ InLoop
  /\ run.mode = "create" \/ ResourceOf(Current, run.object.applied) = None
  /\ Unused(TypeOf[Current.spec]) # {}
  /\ LET c == CHOOSE c \in Unused(TypeOf[Current.spec]) : TRUE IN
     \/ NewResource(c, Current) /\ Processed(c, FALSE) /\ UNCHANGED faults
     \/ /\ policies[run.object.id] = None
        /\ Processed(Current.name, TRUE)
        /\ UNCHANGED <<cluster, faults>>
     \/ C!Fault("save") /\ Processed(Current.name, TRUE) /\ UNCHANGED cluster
  /\ UNCHANGED <<cache, queue, worker, newRelic, policy, queued, upstream>>

\* updateNrqlCondition, updateApmCondition: a resource that is not found is an
\* error (of an Update without a name); one that has the spec is left alone.
UpdateCondition ==
  LET c    == ResourceOf(Current, run.object.applied)
      old  == Retrieved([Current EXCEPT !.name = c])
      new  == [old EXCEPT !.spec = Inherited(Current)]
      same == old # None /\ old.spec.spec = Current.spec
      accepted == old # None /\ cache[c].rev = revision[c] /\ Admitted(new)
  IN  /\ Step("conditions") /\ InLoop
      /\ run.mode = "update" /\ c # None
      /\ \/ same /\ Processed(c, FALSE) /\ UNCHANGED <<cluster, faults>>
         \/ /\ ~same /\ accepted
            /\ C!Put(c, new)
            /\ Processed(c, FALSE)
            /\ UNCHANGED faults
         \/ ~same /\ ~accepted /\ Processed(c, TRUE) /\ UNCHANGED <<cluster, faults>>
         \/ ~same /\ C!Fault("save") /\ Processed(c, TRUE) /\ UNCHANGED cluster
      /\ UNCHANGED <<cache, queue, worker, newRelic, policy, queued, upstream>>

\* The applied conditions whose resource no condition of the spec has; of those
\* that name one resource, the last.
Stragglers ==
  LET applied == run.object.applied.conditions IN
  {applied[i] : i \in {i \in DOMAIN applied :
     /\ applied[i].name \notin run.done
     /\ \A j \in DOMAIN applied : applied[j].name = applied[i].name => j <= i}}

EndConditions ==
  /\ Step("conditions") /\ ~InLoop
  /\ run' = [run EXCEPT !.pc = "stragglers",
                        !.left = IF run.mode = "update" THEN Stragglers ELSE {}]
  /\ UNCHANGED <<ofConditions, faults, policy, queued, upstream>>

\* Mutant: an error of a Delete is not collected.
MutantIgnored(error) == FALSE

Collected(error) == error

\* deleteCondition: a resource that is not found is an error, of the Delete
\* without a name or from the API server.
DeleteCondition ==
  \E e \in run.left :
    LET found == Retrieved(e) # None /\ store[e.name] # None
        more(error) ==
          run' = [run EXCEPT !.left = @ \ {e}, !.failed = @ \/ Collected(error)]
    IN  /\ run.pc \in {"stragglers", "deleteConditions"}
        /\ \/ /\ found /\ more(FALSE)
              /\ IF Deleted(store[e.name]) = store[e.name] THEN UNCHANGED cluster
                 ELSE C!Put(e.name, Deleted(store[e.name]))
              /\ UNCHANGED faults
           \/ ~found /\ more(TRUE) /\ UNCHANGED <<cluster, faults>>
           \/ found /\ C!Fault("delete") /\ more(TRUE) /\ UNCHANGED cluster
        /\ UNCHANGED <<cache, queue, worker, newRelic, userOps, policy, copy, queued, upstream>>

\* The collected errors are returned; without any the worker goes on.
EndDeletes ==
  /\ run.pc \in {"stragglers", "deleteConditions"} /\ run.left = {}
  /\ IF run.failed THEN Fail
     ELSE Go(IF run.pc = "stragglers" THEN "save" ELSE "delete", run.mode, run.object)
  /\ UNCHANGED <<ofConditions, faults, userOps, policy, copy, upstream>>

-----------------------------------------------------------------------------
(* The Update that ends a reconcile, and the deletion of the policy.       *)

\* Mutant: the API server lets the last writer win.
MutantLastWriterWins == FALSE

\* The API server refuses an Update made from an older revision.
Conflict == policy.rev # run.rev

Save ==
  /\ Step("save")
  /\ \/ /\ ~Conflict
        /\ Put([run.object EXCEPT !.applied = run.object.spec])
        /\ Return
        /\ UNCHANGED faults
     \/ Conflict /\ Fail /\ UNCHANGED <<policy, faults>>
     \/ C!Fault("save") /\ Fail /\ UNCHANGED policy
  /\ UNCHANGED <<ofConditions, upstream>>

\* New Relic deletes a policy with its conditions.
DropPolicy(i) ==
  /\ policies' = [policies EXCEPT ![i] = None]
  /\ nr' = [j \in Ids |-> IF nr[j] # None /\ nr[j].policy = i THEN None ELSE nr[j]]

\* Mutant: the finalizer goes though New Relic did not answer.
MutantDeletePolicy ==
  LET i == run.object.id IN
  /\ Step("delete")
  /\ \/ policies[i] # None /\ DropPolicy(i) /\ UNCHANGED faults
     \/ C!Fault("delete") /\ UNCHANGED <<policies, nr>>
  /\ Go("release", "delete", run.object)
  /\ UNCHANGED <<cluster, cache, queue, worker, used, policy, given>>

\* Any error of DeletePolicy is returned, also that there is none.
DeletePolicy ==
  LET i == run.object.id IN
  /\ Step("delete")
  /\ \/ /\ policies[i] # None
        /\ DropPolicy(i)
        /\ Go("release", "delete", run.object)
        /\ UNCHANGED faults
     \/ policies[i] = None /\ Fail /\ UNCHANGED <<policies, nr, faults>>
     \/ C!Fault("delete") /\ Fail /\ UNCHANGED <<policies, nr>>
     \/ C!Fault("lostDelete") /\ DropPolicy(i) /\ Fail
  /\ UNCHANGED <<cluster, cache, queue, worker, used, policy, given>>

Release ==
  /\ Step("release")
  /\ \/ ~Conflict /\ Put(None) /\ Return /\ UNCHANGED faults
     \/ Conflict /\ Fail /\ UNCHANGED <<policy, faults>>
     \/ C!Fault("release") /\ Fail /\ UNCHANGED policy
  /\ UNCHANGED <<ofConditions, upstream>>

-----------------------------------------------------------------------------
User == UserCreate \/ UserEdit \/ UserDelete

Reconcile ==
  ReconcileFails \/ ReconcileNothing \/ ReconcileDeletion \/ ReconcileSpec

Call ==
  \/ Search \/ CreatePolicy \/ UpdatePolicy
  \/ CreateCondition \/ UpdateCondition \/ EndConditions
  \/ DeleteCondition \/ EndDeletes
  \/ Save \/ DeletePolicy \/ Release

Next ==
  \/ User
  \/ PolicySync \/ Resync \/ Crash
  \/ Reconcile
  \/ Call
  \/ ConditionControllers

Spec == Init /\ [][Next]_vars

-----------------------------------------------------------------------------
(* Safety.                                                                 *)

\* A condition resource that is in the cluster to stay.
Live(c) == store[c] # None /\ ~store[c].deleting

\* The policy resource leaves the cluster only when New Relic holds neither its
\* policy nor any condition of it, and every condition resource it recorded is
\* on its way out: whatever failed, and whatever the condition controllers were
\* about to write.
NothingOutlives ==
  [][LET object == policy.object IN
     object # None /\ policy'.object = None /\ object.id # None =>
       /\ policies[object.id] = None
       /\ \A i \in Ids : nr[i] # None => nr[i].policy # object.id
       /\ \A e \in Listed(object.applied) : ~Live(e.name)]_vars

\* The long reconcile, which writes the whole policy back at its end, never
\* undoes what a user did meanwhile: it changes nothing in the spec but the
\* names of the conditions' resources, and only deletions end in a removal.
UserIntentSurvives ==
  [][userOps' = userOps /\ policy.object # None =>
       IF policy'.object = None THEN policy.object.deleting
       ELSE /\ WithoutNames(policy'.object.spec) = WithoutNames(policy.object.spec)
            /\ policy'.object.deleting = policy.object.deleting]_vars

\* Two controllers write the whole of one condition resource, and neither the
\* status that its own worker saves nor the finalizer it removes ever takes
\* back what the policy's worker wrote: its spec, its existence, its deletion.
PolicyWritesSurvive ==
  [][run' = run =>
       \A c \in Conditions : store[c] # None =>
         IF store'[c] = None THEN store[c].deleting
         ELSE /\ store'[c].spec = store[c].spec
              /\ store'[c].deleting = store[c].deleting]_vars

InSync ==
  LET object == policy.object IN
  object # None /\ ~object.deleting /\ Equals(object.spec, object.applied)

\* Where Equals makes Reconcile return at once, nothing is left to repair: New
\* Relic holds the policy, and each condition has a resource of its own, with
\* its spec and under the policy's id, though the resources were read from a
\* cache that lags behind and their own workers were writing them.
AppliedIsTrue ==
  LET object == policy.object
      entries == object.applied.conditions
  IN InSync =>
       /\ object.id # None /\ policies[object.id] = object.spec.title
       /\ \A i \in DOMAIN entries :
            /\ entries[i].name # None /\ Live(entries[i].name)
            /\ store[entries[i].name].spec
                 = [spec |-> entries[i].spec, policy |-> object.id]
            /\ \A j \in DOMAIN entries : entries[j].name = entries[i].name => i = j

\* The resources that a failed reconcile leaves behind, and the retry creates
\* again, share one condition: whatever becomes of the resources and of the
\* policy, New Relic never holds two of one name in one policy.
NoDuplicates == C!NoDuplicates

\* The conditions' statuses tell the truth through every edit of the policy and
\* through its deletion, but for resources that were created twice.
ClaimsAreTrue ==
  \A c \in Conditions :
    Live(c) /\ store[c].applied = store[c].spec
      => \/ policies[store[c].spec.policy] = None
         \/ \E d \in Conditions \ {c} : KindOf[d] = KindOf[c] /\ revision[d] > 0
         \/ store[c].id # None /\ nr[store[c].id] = store[c].spec

-----------------------------------------------------------------------------
(* The inductive invariant behind UserIntentSurvives and NothingOutlives,  *)
(* next to that of the condition resources (C!LeakInv).                    *)

Deletion == {"deleteConditions", "delete", "release"}

\* The copy is never newer than the policy, and one that is as new is equal.
CopyCoherent ==
  copy.rev <= policy.rev /\ (copy.rev = policy.rev => copy = policy)

\* A worker whose Update would be accepted holds what the users last wrote, and
\* one that deletes also the id and the conditions that the resource records.
RunCoherent ==
  run.pc # "idle" =>
    /\ run.rev <= policy.rev
    /\ run.rev = policy.rev =>
         LET object == policy.object IN
         /\ object # None
         /\ WithoutNames(object.spec) = WithoutNames(run.object.spec)
         /\ object.deleting = run.object.deleting
         /\ run.pc \in Deletion => /\ object.id = run.object.id
                                  /\ object.applied = run.object.applied

\* Only deletions remove the finalizer.
RunPhases ==
  /\ run.pc \notin Deletion \cup {"idle"} =>
       run.object.finalizer /\ ~run.object.deleting
  /\ run.pc \in Deletion => run.object.deleting

\* The policy is found or created before anything is done with it.
IdKnown == run.pc \notin {"idle", "search", "create"} => run.object.id # None

\* A recorded id comes with the finalizer.
FinalizerKept ==
  policy.object # None /\ policy.object.id # None => policy.object.finalizer

\* A condition whose resource is being deleted, or was there and is gone.
OnItsWayOut(e) == e.name # None /\ revision[e.name] > 0 /\ ~Live(e.name)

\* What a deletion has got rid of so far: the conditions it need not look at any
\* more (unless an error has already decided that it starts again), then all of
\* them, then the policy.
DeletionSoFar ==
  LET object == run.object IN
  /\ run.pc = "deleteConditions" /\ ~run.failed =>
       \A e \in Listed(object.applied) \ run.left : OnItsWayOut(e)
  /\ run.pc \in {"delete", "release"} =>
       \A e \in Listed(object.applied) : OnItsWayOut(e)
  /\ run.pc = "release" => policies[object.id] = None

\* New Relic holds no condition of a policy that it does not hold.
NoOrphans == \A i \in Ids : nr[i] # None => policies[nr[i].policy] # None

\* A resource that is there was written.
Written == \A c \in Conditions : store[c] # None => revision[c] > 0

PolicyInv ==
  CopyCoherent /\ RunCoherent /\ RunPhases /\ IdKnown /\ FinalizerKept
    /\ DeletionSoFar /\ NoOrphans /\ Written

Inv == C!LeakInv /\ PolicyInv

-----------------------------------------------------------------------------
(* The inductive invariant behind NoDuplicates, for policies of whose      *)
(* conditions none is renamed.                                             *)

Versions == Given \cup {edit[1] : edit \in PolicyEdits}
                  \cup {edit[2] : edit \in PolicyEdits}

\* A name in New Relic tells the kind of its conditions, and the conditions of
\* one kind that the versions of the policy have in one place have one name:
\* whichever of them kubectl edit leaves the resource to, it keeps its name.
NeverRename ==
  /\ \A s, t \in ConditionSpecs : TitleOf[s] = TitleOf[t] => TypeOf[s] = TypeOf[t]
  /\ \A p, q \in Versions : \A i \in DOMAIN p.conditions \cap DOMAIN q.conditions :
       TypeOf[p.conditions[i]] = TypeOf[q.conditions[i]] =>
         TitleOf[p.conditions[i]] = TitleOf[q.conditions[i]]

\* All copies of a condition resource are of its kind and have one name.
OneName ==
  \A c \in Conditions : \A o, q \in C!Copies(c) :
    NameOf[o.spec] = NameOf[q.spec] /\ TypeOf[o.spec.spec] = KindOf[c]

\* Resource c belongs in place i of a policy with this id: it is in the policy,
\* and has the name that conditions of its kind have there.
BelongsAt(i, c, id) ==
  /\ id # None
  /\ revision[c] > 0
  /\ \A o \in C!Copies(c) :
       /\ o.spec.policy = id
       /\ \A p \in Versions :
            i \in DOMAIN p.conditions /\ TypeOf[p.conditions[i]] = KindOf[c] =>
              TitleOf[p.conditions[i]] = TitleOf[o.spec.spec]

InPlace(p, i, id) ==
  p.conditions[i].name # None => BelongsAt(i, p.conditions[i].name, id)

\* A copy holds a version that the users wrote, and recorded one.
Asked(object) ==
  /\ WithoutNames(object.spec) \in Versions
  /\ object.applied # Nothing =>
       /\ WithoutNames(object.applied) \in Versions
       /\ \A i \in DOMAIN object.applied.conditions :
            InPlace(object.applied, i, object.id)

\* The name that a condition got from an attempt that failed is never saved.
InVain(i) == run.pc \in {"conditions", "stragglers"} /\ run.failed /\ i < run.next

PolicyNames ==
  /\ \A object \in {policy.object, copy.object} \ {None} :
       /\ Asked(object)
       /\ \A i \in DOMAIN object.spec.conditions :
            InPlace(object.spec, i, object.id)
  /\ run.pc # "idle" =>
       /\ Asked(run.object)
       /\ \A i \in DOMAIN run.object.spec.conditions :
            InVain(i) \/ InPlace(run.object.spec, i, run.object.id)
       /\ run.pc \in {"search", "create"} => run.object.id = None

TitleInv == C!OwnWorker /\ C!NameInv /\ OneName /\ PolicyNames
=============================================================================
