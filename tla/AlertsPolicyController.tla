----------------------- MODULE AlertsPolicyController -----------------------
(***************************************************************************)
(* The reconciler of one AlertsPolicy: the policy in New Relic, one        *)
(* condition resource in the cluster for each condition of its spec, the   *)
(* links to notification channels, and the deletion of all of it.          *)
(*                                                                         *)
(* A step of the worker is one call that leaves the process.  What the     *)
(* code does in memory between two calls belongs to one of the two steps.  *)
(* The API servers, the users and the controllers of the condition         *)
(* resources are the environment.                                          *)
(***************************************************************************)
EXTENDS Naturals, Sequences, FiniteSets, Functions

CONSTANTS
  Titles,      \* the policy names (Spec.Name)
  Keys,        \* the API key, or its secret, and the region
  Accounts,    \* the values of AccountID; None is the zero value
  CondSpecs,   \* the values a condition's Spec may take
  NameOf,      \* the New Relic condition name of each condition spec
  KindOf,      \* the resource kind of each (GetAlertsConditionType)
  Channels,    \* notification channels
  Given,       \* the policies the users first apply
  Edits,       \* the pairs <<old, new>> of policies the users edit between
  Manual,      \* a resource name that the users write into a spec
  GivenNames,  \* what they write as name in a new one: None or also Manual
  Names,       \* names the API server generates, a bound on the resources
  Ids,         \* New Relic policy ids, a bound on the policies created
  None,        \* no resource, no name, no id
  FaultKinds,  \* the faults that may happen
  MaxFaults,   \* bound on the number of faults
  MaxUserOps   \* bound on the number of changes the users make

AllFaults == {"get", "search", "createPolicy", "lostCreate", "updatePolicy",
              "condition", "lostCondition", "channel", "save",
              "deletePolicy", "lostDelete", "release", "crash"}

\* What a user writes: conditions without the names of their resources.
Plain == [title : Titles, key : Keys, account : Accounts,
          conditions : Seq(CondSpecs), channels : SUBSET Channels]

\* The webhook refuses a policy with two conditions of one spec.
Valid(p) ==
  /\ p \in Plain
  /\ \A i, j \in DOMAIN p.conditions : p.conditions[i] = p.conditions[j] => i = j

\* An AlertsPolicyCondition: its resource's name, and its spec.
Entry  == [name : Names \cup {None, Manual}, spec : CondSpecs]
Policy == [title : Titles, key : Keys, account : Accounts,
           conditions : Seq(Entry), channels : SUBSET Channels]

\* The AppliedSpec that the webhook's Default puts in a new resource.
Nothing == [title |-> None, key |-> None, account |-> None, conditions |-> <<>>,
            channels |-> {}]

\* No CRD here has a status subresource: one Update writes all of this.
Object == [spec : Policy, deleting : BOOLEAN, finalizer : BOOLEAN,
           id : Ids \cup {None}, applied : Policy \cup {Nothing}]

\* A condition resource, as far as this controller reads and writes it: the
\* condition's spec, with the key, region and account inherited from the policy.
Resource == [spec : CondSpecs, key : Keys, account : Accounts, deleting : BOOLEAN]

ASSUME ConstantsAssumption ==
  /\ NameOf \in [CondSpecs -> STRING]
  /\ DOMAIN KindOf = CondSpecs
  /\ \A p \in Given \cup {e[1] : e \in Edits} \cup {e[2] : e \in Edits} : Valid(p)
  /\ Manual \notin Names
  /\ GivenNames \subseteq {None, Manual}
  /\ None \notin Titles /\ None \notin Names /\ None \notin Ids /\ None # Manual
  /\ None \notin Object
  /\ None \notin Resource
  /\ None \notin [title : Titles, channels : SUBSET Channels]
  /\ FaultKinds \subseteq AllFaults
  /\ MaxFaults \in Nat
  /\ MaxUserOps \in Nat

VARIABLES
  store,      \* API server: the policy resource, or None
  revision,   \* API server: number of writes of it (resourceVersion)
  cache,      \* the informer's copy of it and the revision that is of
  queued,     \* whether it is in the work queue
  worker,     \* where the worker is in a reconcile, and its local copy
  resources,  \* API server: the condition resources, with their revisions
  copies,     \* the informer's copies of the condition resources
  policies,   \* New Relic: title and channels of each policy id, or None
  ids,        \* New Relic: the ids given out so far
  names,      \* API server: the names generated so far
  faults,     \* number of faults so far
  userOps     \* number of changes the users made

vars == <<store, revision, cache, queued, worker, resources, copies, policies,
          ids, names, faults, userOps>>
cluster    == <<store, revision>>
conditions == <<resources, names>>
newRelic   == <<policies, ids>>

Steps == {"search", "create", "update", "conditions", "stragglers", "unlink",
          "link", "save", "deleteConditions", "deletePolicy", "release"}

Idle == [pc |-> "idle", mode |-> "none", object |-> None, rev |-> 0, next |-> 0,
         done |-> {}, left |-> {}, failed |-> FALSE]

(* mode: createAlertsPolicy or updateAlertsPolicy.  next: the index of the *)
(* condition to process.  done: the resources processed.  left: what the   *)
(* current loop has yet to delete or unlink.  failed: collectedErrors is   *)
(* not empty.                                                              *)
Busy == [pc : Steps, mode : {"create", "update", "delete"}, object : Object,
         rev : Nat, next : Nat, done : SUBSET (Names \cup {Manual}),
         left : SUBSET (Entry \cup Channels), failed : BOOLEAN]

Versioned(S) == [object : S \cup {None}, rev : Nat]

TypeOK ==
  /\ store     \in Object \cup {None}
  /\ revision  \in Nat
  /\ cache     \in Versioned(Object)
  /\ queued    \in BOOLEAN
  /\ worker    \in Busy \cup {Idle}
  /\ resources \in [Names -> Versioned(Resource)]
  /\ copies    \in [Names -> Versioned(Resource)]
  /\ policies  \in [Ids -> [title : Titles, channels : SUBSET Channels] \cup {None}]
  /\ ids       \subseteq Ids
  /\ names     \subseteq Names
  /\ faults    \in Nat
  /\ userOps   \in Nat

Absent == [object |-> None, rev |-> 0]

Init ==
  /\ store     = None
  /\ revision  = 0
  /\ cache     = Absent
  /\ queued    = FALSE
  /\ worker    = Idle
  /\ resources = [n \in Names |-> Absent]
  /\ copies    = [n \in Names |-> Absent]
  /\ policies  = [i \in Ids |-> None]
  /\ ids       = {}
  /\ names     = {}
  /\ faults    = 0
  /\ userOps   = 0

-----------------------------------------------------------------------------
(* The API servers, the users and the controllers around this one.         *)

Fault(kind) ==
  /\ kind \in FaultKinds
  /\ faults < MaxFaults
  /\ faults' = faults + 1

Put(object) == store' = object /\ revision' = revision + 1

PutResource(n, object) ==
  resources' = [resources EXCEPT ![n] = [object |-> object, rev |-> @.rev + 1]]

\* Deleting a resource only marks it when it has a finalizer.  The finalizer of
\* a condition is the business of the condition's own controller.
Deleted(object, finalizer) ==
  IF finalizer THEN [object EXCEPT !.deleting = TRUE] ELSE None

DeleteResource(n) ==
  LET object == resources[n].object IN
  IF object.deleting THEN UNCHANGED resources
  ELSE \E finalizer \in BOOLEAN : PutResource(n, Deleted(object, finalizer))

\* The API server refuses an Update made from an older revision.
Conflict == revision # worker.rev

UserOp ==
  /\ userOps < MaxUserOps
  /\ userOps' = userOps + 1
  /\ UNCHANGED <<cache, queued, worker, conditions, copies, newRelic, faults>>

\* The policy p with these names for its conditions' resources.
Named(p, name) ==
  [p EXCEPT !.conditions =
     [i \in DOMAIN p.conditions |-> [name |-> name[i], spec |-> p.conditions[i]]]]

WithoutNames(p) ==
  [p EXCEPT !.conditions = [i \in DOMAIN p.conditions |-> p.conditions[i].spec]]

\* One life of the resource: a new one of the same name is another resource.
UserCreate ==
  /\ store = None /\ revision = 0
  /\ \E p \in Given, name \in GivenNames :
       Put([spec |-> Named(p, [i \in DOMAIN p.conditions |-> name]),
            deleting |-> FALSE, finalizer |-> FALSE, id |-> None,
            applied |-> Nothing])
  /\ UserOp

\* kubectl apply drops the names the operator wrote into the spec, kubectl
\* edit leaves them where they are.
UserEdit ==
  /\ store # None
  /\ \E edit \in Edits, keep \in BOOLEAN :
       /\ edit[1] = WithoutNames(store.spec)
       /\ Put([store EXCEPT !.spec = Named(edit[2],
            [i \in DOMAIN edit[2].conditions |->
               IF keep /\ i \in DOMAIN store.spec.conditions
               THEN store.spec.conditions[i].name ELSE None])])
  /\ UserOp

UserDelete ==
  /\ store # None
  /\ ~store.deleting
  /\ Put(Deleted(store, store.finalizer))
  /\ UserOp

\* The informers and the periodic resync.
PolicySync ==
  /\ cache.rev # revision
  /\ cache' = [object |-> store, rev |-> revision]
  /\ queued' = TRUE
  /\ UNCHANGED <<cluster, worker, conditions, copies, newRelic, faults, userOps>>

Resync ==
  /\ cache.object # None
  /\ ~queued
  /\ queued' = TRUE
  /\ UNCHANGED <<cluster, cache, worker, conditions, copies, newRelic, faults, userOps>>

\* One informer for each kind of condition resource.
OfKind(kind) ==
  {n \in Names : \E v \in {copies[n], resources[n]} :
     v.object # None /\ KindOf[v.object.spec] = kind}

ConditionSync(kind) ==
  /\ \E n \in OfKind(kind) : copies[n] # resources[n]
  /\ copies' = [n \in Names |-> IF n \in OfKind(kind) THEN resources[n] ELSE copies[n]]
  /\ UNCHANGED <<cluster, cache, queued, worker, conditions, newRelic, faults, userOps>>

\* The manager restarts with fresh copies and an empty memory.
Crash ==
  /\ Fault("crash")
  /\ worker' = Idle
  /\ cache'  = [object |-> store, rev |-> revision]
  /\ queued' = (store # None)
  /\ copies' = resources
  /\ UNCHANGED <<cluster, conditions, newRelic, userOps>>

\* A condition's controller lets go of a resource that is being deleted (see
\* ConditionController).
ConditionReleased(n) ==
  /\ resources[n].object # None
  /\ resources[n].object.deleting
  /\ PutResource(n, None)
  /\ UNCHANGED <<cluster, cache, queued, worker, names, copies, newRelic, faults, userOps>>

-----------------------------------------------------------------------------
(* What the code computes in memory.                                       *)

Listed(p) == {p.conditions[i] : i \in DOMAIN p.conditions}
SpecsOf(p) == {e.spec : e \in Listed(p)}

\* AlertsPolicySpec.Equals: the conditions count as sets of specs, without the
\* names of their resources, and the account does not count.
Equals(p, q) ==
  /\ p.title = q.title
  /\ p.key = q.key
  /\ Len(p.conditions) = Len(q.conditions)
  /\ SpecsOf(q) \subseteq SpecsOf(p)
  /\ Cardinality(p.channels) = Cardinality(q.channels)
  /\ q.channels \subseteq p.channels

\* The resource of a condition: the one it names, or else the one of the first
\* applied condition with its New Relic name.
ResourceOf(e, applied) ==
  LET same == {i \in DOMAIN applied.conditions :
                 NameOf[applied.conditions[i].spec] = NameOf[e.spec]}
  IN  IF e.name # None THEN e.name
      ELSE IF same = {} THEN None
      ELSE applied.conditions[CHOOSE i \in same : \A j \in same : i <= j].name

\* getAlertsNrqlCondition..., getApmCondition...: the Get of the resource, as
\* the kind of the condition's current spec; its error is thrown away.
Retrieved(name, spec) ==
  IF name \in Names /\ copies[name].object # None
       /\ KindOf[copies[name].object.spec] = KindOf[spec]
  THEN copies[name] ELSE Absent

ToRemove(o) == o.applied.channels \ o.spec.channels
ToAdd(o)    == o.spec.channels \ o.applied.channels

\* Where the update of a policy goes on, in memory, to its next call.
AtChannels(o) ==
  IF o.spec.channels = {} THEN "save"
  ELSE IF ToRemove(o) # {} THEN "unlink" ELSE "link"
AtConditions(o) ==
  IF o.spec.conditions = o.applied.conditions THEN AtChannels(o) ELSE "conditions"
AtUpdate(o) ==
  IF o.spec.title # o.applied.title THEN "update" ELSE AtConditions(o)

\* The worker's state when it gets to a step.
At(step, mode, o, rev) ==
  [pc |-> step, mode |-> mode, object |-> o, rev |-> rev,
   next |-> IF step = "conditions" THEN 1 ELSE 0, done |-> {},
   left |-> CASE step = "unlink" -> ToRemove(o)
              [] step = "deleteConditions" -> Listed(o.applied)
              [] OTHER -> {},
   failed |-> FALSE]

Go(step, mode, o) == worker' = At(step, mode, o, worker.rev)

\* Reconcile returns nil, or an error that requeues the policy.
Return == worker' = Idle /\ queued' = queued
Fail   == worker' = Idle /\ queued' = TRUE

-----------------------------------------------------------------------------
(* Reconcile, up to its first call.                                        *)

Ready == worker.pc = "idle" /\ queued

\* Mutant: a policy that has an id counts as reconciled.
MutantIdIsEnough(object) ==
  object # None =>
    IF object.deleting THEN ~object.finalizer \/ object.id = None
    ELSE object.id # None

\* Being deleted without a PolicyID, the finalizer is removed in memory only.
NothingToDo(object) ==
  object # None =>
    IF object.deleting THEN ~object.finalizer \/ object.id = None
    ELSE Equals(object.spec, object.applied)

ReconcileFails ==
  /\ Ready
  /\ Fault("get")
  /\ UNCHANGED <<cluster, cache, queued, worker, conditions, copies, newRelic, userOps>>

\* Mutant: the cached copy is taken to be of the current revision.
MutantFresh(step, mode, object) ==
  /\ worker' = At(step, mode, object, revision)
  /\ queued' = FALSE
  /\ UNCHANGED <<cluster, cache, conditions, copies, newRelic, faults, userOps>>

Begin(step, mode, object) ==
  /\ worker' = At(step, mode, object, cache.rev)
  /\ queued' = FALSE
  /\ UNCHANGED <<cluster, cache, conditions, copies, newRelic, faults, userOps>>

ReconcileNothing ==
  /\ Ready
  /\ NothingToDo(cache.object)
  /\ queued' = FALSE
  /\ UNCHANGED <<cluster, cache, worker, conditions, copies, newRelic, faults, userOps>>

ReconcileDeletion ==
  /\ Ready
  /\ ~NothingToDo(cache.object)
  /\ cache.object.deleting
  /\ Begin("deleteConditions", "delete", cache.object)

\* The finalizer is appended in memory only.
ReconcileSpec ==
  LET object == [cache.object EXCEPT !.finalizer = TRUE] IN
  /\ Ready
  /\ ~NothingToDo(cache.object)
  /\ ~cache.object.deleting
  /\ IF object.id = None THEN Begin("search", "create", object)
                         ELSE Begin(AtUpdate(object), "update", object)

-----------------------------------------------------------------------------
(* The policy in New Relic.                                                *)

\* Mutants: the policy found is not kept; its id is parsed to nothing.
MutantForget(object, i) == object
MutantZeroId(object, i) == [object EXCEPT !.id = 0]

Adopt(object, i) == [object EXCEPT !.id = i]

\* An error of the search is only logged, and the worker goes on to create.
Search ==
  LET object == worker.object
      found  == {i \in Ids : policies[i] # None /\ policies[i].title = object.spec.title}
      goOn(o) == IF o.id = None THEN Go("create", "create", o)
                                ELSE Go(AtUpdate(o), "update", o)
  IN  /\ worker.pc = "search"
      /\ \/ /\ \E i \in found : goOn(Adopt(object, i))
            /\ UNCHANGED faults
         \/ /\ found = {}
            /\ goOn(object)
            /\ UNCHANGED faults
         \/ /\ Fault("search")
            /\ goOn(object)
      /\ UNCHANGED <<cluster, cache, queued, conditions, copies, newRelic, userOps>>

FreshId == CHOOSE i \in Ids \ ids : TRUE

NewPolicy(title) ==
  /\ Ids \ ids # {}
  /\ policies' = [policies EXCEPT ![FreshId] = [title |-> title, channels |-> {}]]
  /\ ids' = ids \cup {FreshId}

CreatePolicy ==
  LET object == worker.object IN
  /\ worker.pc = "create"
  /\ \/ /\ NewPolicy(object.spec.title)
        /\ Go("conditions", "create", [object EXCEPT !.id = FreshId])
        /\ UNCHANGED <<queued, faults>>
     \/ /\ Fault("createPolicy")
        /\ Fail
        /\ UNCHANGED newRelic
     \/ /\ Fault("lostCreate")   \* done by New Relic, but the answer is lost
        /\ NewPolicy(object.spec.title)
        /\ Fail
  /\ UNCHANGED <<cluster, cache, conditions, copies, userOps>>

\* New Relic answers with an error when there is no such policy.
UpdatePolicy ==
  LET object == worker.object
      i      == object.id
  IN  /\ worker.pc = "update"
      /\ \/ /\ policies[i] # None
            /\ policies' = [policies EXCEPT ![i].title = object.spec.title]
            /\ Go(AtConditions(object), "update", object)
            /\ UNCHANGED <<queued, faults>>
         \/ /\ policies[i] = None
            /\ Fail
            /\ UNCHANGED <<policies, faults>>
         \/ /\ Fault("updatePolicy")
            /\ Fail
            /\ UNCHANGED policies
      /\ UNCHANGED <<cluster, cache, conditions, copies, ids, userOps>>

-----------------------------------------------------------------------------
(* The condition resources.                                                *)

Current == worker.object.spec.conditions[worker.next]

InLoop == worker.pc = "conditions" /\ worker.next \in DOMAIN worker.object.spec.conditions

\* Mutant: the errors of the conditions are not collected.
MutantNoErrors(name, error) ==
  worker' = [worker EXCEPT
    !.next = @ + 1,
    !.object.spec.conditions[worker.next].name = name,
    !.done = @ \cup ({name} \ {None})]

\* The next condition: this one has this resource, if any, or has failed.
Processed(name, error) ==
  worker' = [worker EXCEPT
    !.next   = @ + 1,
    !.object.spec.conditions[worker.next].name = name,
    !.done   = @ \cup ({name} \ {None}),
    !.failed = @ \/ error]

FreshName == CHOOSE n \in Names \ names : TRUE

NewResource(e) ==
  /\ Names \ names # {}
  /\ PutResource(FreshName, [spec |-> e.spec, key |-> worker.object.spec.key,
                             account |-> worker.object.spec.account,
                             deleting |-> FALSE])
  /\ names' = names \cup {FreshName}

\* createConditions creates a resource for each condition, whatever its name;
\* createOrUpdateCondition for those without one.
CreateCondition ==
  /\ InLoop
  /\ worker.mode = "create" \/ ResourceOf(Current, worker.object.applied) = None
  /\ \/ /\ NewResource(Current)
        /\ Processed(FreshName, FALSE)
        /\ UNCHANGED faults
     \/ /\ Fault("condition")
        /\ Processed(Current.name, TRUE)
        /\ UNCHANGED conditions
     \/ /\ Fault("lostCondition")   \* created, but the answer is lost
        /\ NewResource(Current)
        /\ Processed(Current.name, TRUE)
  /\ UNCHANGED <<cluster, cache, queued, copies, newRelic, userOps>>

\* The hashes of a resource and of a condition of the policy are equal.  SpecHash
\* strips the key and the region but not the account, which the resource has from
\* the policy and the condition does not give.
SameHash(resource, e) == resource.spec = e.spec /\ resource.account = None

\* updateNrqlCondition, updateApmCondition: a resource that is not found is an
\* error (of an Update without a name).  An Update that changes nothing is
\* accepted, and is no write.
UpdateCondition ==
  LET name == ResourceOf(Current, worker.object.applied)
      copy == Retrieved(name, Current.spec)
      new  == [copy.object EXCEPT !.spec    = Current.spec,
                                  !.key     = worker.object.spec.key,
                                  !.account = worker.object.spec.account]
  IN  /\ InLoop
      /\ worker.mode = "update"
      /\ name # None
      /\ \/ /\ copy = Absent
            /\ Processed(name, TRUE)
            /\ UNCHANGED <<resources, faults>>
         \/ /\ copy # Absent
            /\ SameHash(copy.object, Current)
            /\ Processed(name, FALSE)
            /\ UNCHANGED <<resources, faults>>
         \/ /\ copy # Absent
            /\ ~SameHash(copy.object, Current)
            /\ \/ /\ copy.rev = resources[name].rev
                  /\ IF new = copy.object THEN UNCHANGED resources
                                         ELSE PutResource(name, new)
                  /\ Processed(name, FALSE)
                  /\ UNCHANGED faults
               \/ /\ copy.rev # resources[name].rev   \* a conflict, or it is gone
                  /\ Processed(name, TRUE)
                  /\ UNCHANGED <<resources, faults>>
               \/ /\ Fault("condition")
                  /\ Processed(name, TRUE)
                  /\ UNCHANGED resources
      /\ UNCHANGED <<cluster, cache, queued, names, copies, newRelic, userOps>>

\* The applied conditions whose resource no condition of the spec has.
Stragglers ==
  LET applied == worker.object.applied.conditions IN
  {applied[i] : i \in {i \in DOMAIN applied :
     /\ applied[i].name \notin worker.done
     /\ \A j \in DOMAIN applied : applied[j].name = applied[i].name => j <= i}}

EndConditions ==
  /\ worker.pc = "conditions"
  /\ ~InLoop
  /\ worker' = [worker EXCEPT !.pc = "stragglers",
       !.left = IF worker.mode = "update" THEN Stragglers ELSE {}]
  /\ UNCHANGED <<cluster, cache, queued, conditions, copies, newRelic, faults, userOps>>

\* Mutant: an error of a Delete is not collected.
MutantIgnored(error) == FALSE

Collected(error) == error

\* deleteCondition: a resource that is not found is an error, from the Delete
\* without a name or from the API server.
DeleteCondition ==
  \E e \in worker.left :
    LET copy == Retrieved(e.name, e.spec)
        more(error) ==
          worker' = [worker EXCEPT !.left = @ \ {e}, !.failed = @ \/ Collected(error)]
    IN  /\ worker.pc \in {"stragglers", "deleteConditions"}
        /\ \/ /\ copy = Absent
              /\ more(TRUE)
              /\ UNCHANGED <<resources, faults>>
           \/ /\ copy # Absent
              /\ \/ /\ resources[e.name].object # None
                    /\ DeleteResource(e.name)
                    /\ more(FALSE)
                    /\ UNCHANGED faults
                 \/ /\ resources[e.name].object = None
                    /\ more(TRUE)
                    /\ UNCHANGED <<resources, faults>>
                 \/ /\ Fault("condition")
                    /\ more(TRUE)
                    /\ UNCHANGED resources
        /\ UNCHANGED <<cluster, cache, queued, names, copies, newRelic, userOps>>

\* Errors in the loops are collected, and then returned.  A new policy goes on
\* to createAlertsChannels, an updated one to updateAlertsChannels.
EndDeletes ==
  /\ worker.pc \in {"stragglers", "deleteConditions"}
  /\ worker.left = {}
  /\ IF worker.failed THEN Fail
     ELSE /\ CASE worker.pc = "deleteConditions" ->
                 Go("deletePolicy", worker.mode, worker.object)
            [] worker.pc = "stragglers" ->
                 Go(AtChannels(worker.object), worker.mode, worker.object)
          /\ UNCHANGED queued
  /\ UNCHANGED <<cluster, cache, conditions, copies, newRelic, faults, userOps>>

-----------------------------------------------------------------------------
(* The channels, and the Update that ends a reconcile.                     *)

\* A call on the links of the policy, after which the worker does then.
Relink(channels, then) ==
  LET i == worker.object.id IN
  \/ /\ policies[i] # None
     /\ policies' = [policies EXCEPT ![i].channels = channels]
     /\ then
     /\ UNCHANGED <<queued, faults>>
  \/ /\ policies[i] = None
     /\ Fail
     /\ UNCHANGED <<policies, faults>>
  \/ /\ Fault("channel")
     /\ Fail
     /\ UNCHANGED policies

UnlinkChannel ==
  \E channel \in worker.left :
    /\ worker.pc = "unlink"
    /\ Relink(policies[worker.object.id].channels \ {channel},
              worker' = IF worker.left = {channel}
                        THEN At("link", worker.mode, worker.object, worker.rev)
                        ELSE [worker EXCEPT !.left = @ \ {channel}])
    /\ UNCHANGED <<cluster, cache, conditions, copies, ids, userOps>>

\* UpdatePolicyChannels adds: all of the channels to a new policy (whose
\* AppliedSpec has none), the difference to an updated one.
LinkChannels ==
  /\ worker.pc = "link"
  /\ Relink(policies[worker.object.id].channels \cup ToAdd(worker.object),
            Go("save", worker.mode, worker.object))
  /\ UNCHANGED <<cluster, cache, conditions, copies, ids, userOps>>

Save ==
  LET object == [worker.object EXCEPT !.applied = worker.object.spec] IN
  /\ worker.pc = "save"
  /\ \/ /\ ~Conflict
        /\ Put(object)
        /\ Return
        /\ UNCHANGED faults
     \/ /\ Conflict
        /\ Fail
        /\ UNCHANGED <<cluster, faults>>
     \/ /\ Fault("save")
        /\ Fail
        /\ UNCHANGED cluster
  /\ UNCHANGED <<cache, conditions, copies, newRelic, userOps>>

-----------------------------------------------------------------------------
(* The deletion of the policy.                                             *)

\* Any error of DeletePolicyMutation is returned, also that there is none.
DeletePolicy ==
  LET i == worker.object.id IN
  /\ worker.pc = "deletePolicy"
  /\ \/ /\ policies[i] # None
        /\ policies' = [policies EXCEPT ![i] = None]
        /\ Go("release", "delete", worker.object)
        /\ UNCHANGED <<queued, faults>>
     \/ /\ policies[i] = None
        /\ Fail
        /\ UNCHANGED <<policies, faults>>
     \/ /\ Fault("deletePolicy")
        /\ Fail
        /\ UNCHANGED policies
     \/ /\ Fault("lostDelete")   \* deleted, but the answer is lost
        /\ policies' = [policies EXCEPT ![i] = None]
        /\ Fail
  /\ UNCHANGED <<cluster, cache, conditions, copies, ids, userOps>>

Release ==
  /\ worker.pc = "release"
  /\ \/ /\ ~Conflict
        /\ Put(None)
        /\ Return
        /\ UNCHANGED faults
     \/ /\ Conflict
        /\ Fail
        /\ UNCHANGED <<cluster, faults>>
     \/ /\ Fault("release")
        /\ Fail
        /\ UNCHANGED cluster
  /\ UNCHANGED <<cache, conditions, copies, newRelic, userOps>>

-----------------------------------------------------------------------------
User == UserCreate \/ UserEdit \/ UserDelete

Reconcile ==
  ReconcileFails \/ ReconcileNothing \/ ReconcileDeletion \/ ReconcileSpec

Call ==
  \/ Search \/ CreatePolicy \/ UpdatePolicy
  \/ CreateCondition \/ UpdateCondition \/ EndConditions
  \/ DeleteCondition \/ EndDeletes
  \/ UnlinkChannel \/ LinkChannels \/ Save
  \/ DeletePolicy \/ Release

Others ==
  \/ \E kind \in Range(KindOf) : ConditionSync(kind)
  \/ \E n \in Names : ConditionReleased(n)

Next ==
  \/ User
  \/ PolicySync \/ Resync \/ Crash
  \/ Others
  \/ Reconcile
  \/ Call

(* As for the conditions: nothing is asked of the users or of the faults;  *)
(* watch events and resyncs arrive, calls end, the queue is served, and    *)
(* the condition controllers let go of what is being deleted.              *)
Fairness ==
  /\ WF_vars(PolicySync) /\ WF_vars(Resync)
  /\ SF_vars(Reconcile) /\ WF_vars(Call)
  /\ \A kind \in Range(KindOf) : WF_vars(ConditionSync(kind))
  /\ \A n \in Names : WF_vars(ConditionReleased(n))

Spec     == Init /\ [][Next]_vars
FairSpec == Spec /\ Fairness

-----------------------------------------------------------------------------
(* Safety.                                                                 *)

\* A condition resource that is in the cluster to stay.
Live(n) == resources[n].object # None /\ ~resources[n].object.deleting

\* The policy resource leaves the cluster only when New Relic no longer holds
\* its policy and every condition resource it recorded is on its way out,
\* whatever calls of this or of an earlier deletion failed.
NothingOutlives ==
  [][store # None /\ store' = None /\ store.id # None =>
       /\ policies[store.id] = None
       /\ \A e \in Listed(store.applied) : e.name \in Names => ~Live(e.name)]_vars

\* The long reconcile, which writes the whole resource back at its end, never
\* undoes what a user did meanwhile: it changes nothing in the spec but the
\* names of the conditions' resources, and only deletions end in a removal.
UserIntentSurvives ==
  [][userOps' = userOps /\ store # None =>
       IF store' = None THEN store.deleting
       ELSE /\ WithoutNames(store'.spec) = WithoutNames(store.spec)
            /\ store'.deleting = store.deleting]_vars

InSync ==
  store # None /\ ~store.deleting /\ Equals(store.spec, store.applied)

\* Where Equals makes Reconcile return at once, nothing is left to repair: the
\* policy is in New Relic under its title...
PolicyIsTrue ==
  InSync => store.id # None /\ policies[store.id] # None
              /\ policies[store.id].title = store.spec.title

\* ... with the channels of the spec, though the links are computed from the
\* AppliedSpec and not from New Relic...
LinksAreTrue ==
  InSync /\ store.id # None /\ policies[store.id] # None =>
    policies[store.id].channels = store.spec.channels

\* ... and each condition has a resource of its own with its spec, though the
\* resources were read from a cache that lags behind.
ResourcesAreTrue ==
  InSync =>
    \A i \in DOMAIN store.applied.conditions :
      LET e == store.applied.conditions[i] IN
      /\ e.name \in Names
      /\ Live(e.name)
      /\ resources[e.name].object.spec = e.spec
      /\ \A j \in DOMAIN store.applied.conditions :
           store.applied.conditions[j].name = e.name => i = j

AppliedIsTrue == PolicyIsTrue /\ LinksAreTrue /\ ResourcesAreTrue

\* A create whose outcome was lost, or a crash after it, never ends in two
\* policies of one title.
NoDuplicatePolicies ==
  \A i, j \in Ids :
    policies[i] # None /\ policies[j] # None /\ policies[i].title = policies[j].title
      => i = j

\* There is one condition resource for each condition.
NoDuplicateResources ==
  \A m, n \in {n \in Names : Live(n)} :
    NameOf[resources[m].object.spec] = NameOf[resources[n].object.spec] => m = n

(* Liveness.                                                               *)

\* The model has no name or id left to create with: the bounds, not the code,
\* stop a worker here.
Exhausted == names = Names \/ ids = Ids

\* Once the users and the faults stop, every change of the policy is applied,
\* however many retries that takes.
EventuallyApplied ==
  <>[](store # None /\ ~store.deleting /\ ~Exhausted => InSync)

\* A policy being deleted is eventually gone.
DeletionCompletes ==
  store # None /\ store.deleting ~> store = None \/ Exhausted

-----------------------------------------------------------------------------
(* The inductive invariant behind UserIntentSurvives and NothingOutlives.  *)

Deletion == {"deleteConditions", "deletePolicy", "release"}

\* The copy is never newer than the resource, and one that is as new is equal.
CacheCoherent ==
  cache.rev <= revision /\ (cache.rev = revision => cache.object = store)

\* A worker whose Update would be accepted holds what the users last wrote, and
\* one that deletes also the id and the conditions that the resource records.
WorkerCoherent ==
  worker.pc # "idle" =>
    /\ worker.rev <= revision
    /\ worker.rev = revision =>
         /\ store # None
         /\ WithoutNames(store.spec) = WithoutNames(worker.object.spec)
         /\ store.deleting = worker.object.deleting
         /\ worker.pc \in Deletion => /\ store.id = worker.object.id
                                     /\ store.applied = worker.object.applied

\* Only deletions remove the finalizer, and only of a policy with an id.
WorkerPhases ==
  /\ worker.pc \notin Deletion \cup {"idle"} =>
       worker.object.finalizer /\ ~worker.object.deleting
  /\ worker.pc \in Deletion => worker.object.deleting /\ worker.object.id # None

\* What a deletion has got rid of so far: the conditions it need not look at any
\* more (unless an error has already decided that it starts again), then all of
\* them, then the policy.
OnItsWayOut(e) == e.name \in Names => ~Live(e.name)

DeletionSoFar ==
  LET object == worker.object IN
  /\ worker.pc = "deleteConditions" /\ ~worker.failed =>
       \A e \in Listed(object.applied) \ worker.left : OnItsWayOut(e)
  /\ worker.pc \in {"deletePolicy", "release"} =>
       \A e \in Listed(object.applied) : OnItsWayOut(e)
  /\ worker.pc = "release" => policies[object.id] = None

\* A recorded id comes with the finalizer.
FinalizerKept == store # None /\ store.id # None => store.finalizer

LeakInv ==
  CacheCoherent /\ WorkerCoherent /\ WorkerPhases /\ DeletionSoFar /\ FinalizerKept

-----------------------------------------------------------------------------
(* The inductive invariant behind NoDuplicatePolicies, for users who never *)
(* rename a policy back: whose renamings go forward in an order.           *)

Renaming(order) ==
  /\ \A e \in Edits : e[1].title # e[2].title => <<e[1].title, e[2].title>> \in order
  /\ \A t \in Titles : <<t, t>> \notin order
  /\ \A t, u, v \in Titles :
       <<t, u>> \in order /\ <<u, v>> \in order => <<t, v>> \in order

Upto(order, t, u) == t = u \/ <<t, u>> \in order

PolicyCopies == {store, cache.object, worker.object} \ {None}

\* New Relic holds this policy under this title.
Titled(i, title) == i # None /\ policies[i] # None /\ policies[i].title = title

Unborn ==
  revision = 0 =>
    /\ store = None
    /\ cache.object = None
    /\ worker = Idle
    /\ \A i \in Ids : policies[i] = None

\* New Relic's titles are no newer than the worker's copy, which is no newer than
\* the informer's, which is no newer than the resource.
CopiesInOrder(order) ==
  /\ worker.pc # "idle" =>
       /\ worker.rev <= cache.rev
       /\ \A o \in {cache.object, store} \ {None} :
            Upto(order, worker.object.spec.title, o.spec.title)
  /\ cache.object # None /\ store # None =>
       Upto(order, cache.object.spec.title, store.spec.title)

PoliciesInOrder(order) ==
  \A i \in Ids : policies[i] # None =>
    \A o \in PolicyCopies : Upto(order, policies[i].title, o.spec.title)

\* The copies that know of a policy know of the same, and a policy that has their
\* title is that one.
OnePolicy ==
  /\ \A o, p \in PolicyCopies : o.id # None /\ p.id # None => o.id = p.id
  /\ \A o \in PolicyCopies : o.id # None =>
       \A i \in Ids : Titled(i, o.spec.title) => i = o.id

\* A worker searches when its copy knows of no policy, and has one when it goes
\* on; what the informer's copy knows of the resource has not forgotten.
IdsKept ==
  /\ worker.pc \in {"search", "create"} => worker.object.id = None
  /\ worker.pc \notin {"idle", "search", "create"} => worker.object.id # None
  /\ cache.object # None /\ cache.object.id # None /\ store # None => store.id # None

\* The search of a worker whose copy is older than the id that was recorded finds
\* that policy; so a worker creates one only when none is recorded.
SearchFinds ==
  LET title == worker.object.spec.title IN
  /\ worker.pc = "search" =>
       \A o \in {cache.object, store} \ {None} : o.id # None => Titled(o.id, title)
  /\ worker.pc = "create" =>
       /\ \A o \in {cache.object, store} \ {None} : o.id = None
       /\ \A i \in Ids : ~Titled(i, title)
  /\ worker.pc \notin {"idle", "search", "create"} \cup Deletion
       /\ store # None /\ store.id = None => Titled(worker.object.id, title)

\* An informer's copy that is older than the recorded id has the title that the
\* policy was recorded under, and so has the copy of a worker.
IdToCome ==
  cache.object # None /\ cache.object.id = None /\ store # None /\ store.id # None =>
    /\ Titled(store.id, cache.object.spec.title)
    /\ worker.pc \notin Deletion
    /\ worker.pc # "idle" => worker.object.spec.title = cache.object.spec.title

TitleInv(order) ==
  /\ Unborn /\ CopiesInOrder(order) /\ PoliciesInOrder(order) /\ OnePolicy
  /\ IdsKept /\ SearchFinds /\ IdToCome /\ NoDuplicatePolicies
=============================================================================
