------------------------ MODULE ConditionController ------------------------
(***************************************************************************)
(* The reconcilers of the four condition kinds (AlertsNrqlCondition,       *)
(* AlertsAPMCondition, NrqlAlertCondition, ApmAlertCondition), which share *)
(* one control flow.  Each kind has a controller with one worker           *)
(* (MaxConcurrentReconciles is left at 1), so a worker's steps interleave  *)
(* with the other kinds' workers, with the users, with the informer and    *)
(* with New Relic, but never with another reconcile of its own kind.       *)
(*                                                                         *)
(* A step of a worker is one call that leaves the process: a New Relic API *)
(* call or a write to the API server.  What the code does in memory        *)
(* between two calls belongs to the step that ends with the call.          *)
(***************************************************************************)
EXTENDS Naturals

CONSTANTS
  Kinds,       \* the condition kinds, one controller each
  Conditions,  \* the condition resources that may exist in the cluster
  KindOf,      \* the kind of each resource
  Specs,       \* the values a resource's Spec may take
  NameOf,      \* the New Relic condition name (Spec.Name) of each spec
  SpecsFor,    \* the specs the users give to each resource
  Edits,       \* the pairs <<old, new>> of specs the users edit between
  Ids,         \* New Relic condition ids, a bound on how many are created
  None,        \* no resource, no id, no applied spec, no key
  FaultKinds,  \* the faults that may happen
  MaxFaults,   \* bound on the number of faults
  MaxUserOps   \* bound on the number of changes the users make

AllFaults == {"get", "search", "write", "lostWrite", "save", "delete",
              "lostDelete", "release", "crash", "outOfBand",
              "resync"}  \* counted where resyncs need a bound

(* A condition resource as Client.Get decodes it.  No CRD here has a       *)
(* status subresource: spec, status (id, applied) and metadata (deleting,  *)
(* finalizer) are written together by one Update.                          *)
Object == [spec      : Specs,
           deleting  : BOOLEAN,
           finalizer : BOOLEAN,
           id        : Ids \cup {None},
           applied   : Specs \cup {None}]

\* What of it matters to the abstract specification.
Shown == [spec : Specs, deleting : BOOLEAN, id : Ids \cup {None}]

ASSUME ConstantsAssumption ==
  /\ KindOf \in [Conditions -> Kinds]
  /\ DOMAIN NameOf = Specs
  /\ SpecsFor \in [Conditions -> SUBSET Specs]
  /\ Edits \subseteq Specs \X Specs
  /\ None \notin Conditions \cup Specs \cup Ids
  /\ None \notin Object \cup Shown
  /\ FaultKinds \subseteq AllFaults
  /\ MaxFaults \in Nat
  /\ MaxUserOps \in Nat

VARIABLES
  store,     \* API server: each resource, or None
  revision,  \* API server: number of writes of each resource (resourceVersion)
  cache,     \* the manager's informer cache: a copy and the revision it is of
  queue,     \* the resources in the controllers' work queues
  worker,    \* the worker of each kind: where it is, and its local copy
  nr,        \* New Relic: the spec each condition id holds, or None
  used,      \* New Relic: the ids given out so far
  faults,    \* number of faults so far
  userOps    \* number of changes the users made

vars == <<store, revision, cache, queue, worker, nr, used, faults, userOps>>
cluster  == <<store, revision>>
newRelic == <<nr, used>>

Steps == {"search", "write", "save", "delete", "release"}
Idle  == [pc |-> "idle", key |-> None, object |-> None, rev |-> 0]
Busy  == [pc : Steps, key : Conditions, object : Object, rev : Nat]

TypeOK ==
  /\ store    \in [Conditions -> Object \cup {None}]
  /\ revision \in [Conditions -> Nat]
  /\ cache    \in [Conditions -> [object : Object \cup {None}, rev : Nat]]
  /\ queue    \subseteq Conditions
  /\ worker   \in [Kinds -> Busy \cup {Idle}]
  /\ nr       \in [Ids -> Specs \cup {None}]
  /\ used     \subseteq Ids
  /\ faults   \in Nat
  /\ userOps  \in Nat

Init ==
  /\ store    = [c \in Conditions |-> None]
  /\ revision = [c \in Conditions |-> 0]
  /\ cache    = [c \in Conditions |-> [object |-> None, rev |-> 0]]
  /\ queue    = {}
  /\ worker   = [k \in Kinds |-> Idle]
  /\ nr       = [i \in Ids |-> None]
  /\ used     = {}
  /\ faults   = 0
  /\ userOps  = 0

-----------------------------------------------------------------------------
(* Faults and the API server.                                              *)

Fault(kind) ==
  /\ kind \in FaultKinds
  /\ faults < MaxFaults
  /\ faults' = faults + 1

\* A write that is accepted: the resource changes and gets a new revision.
Put(c, object) ==
  /\ store'    = [store EXCEPT ![c] = object]
  /\ revision' = [revision EXCEPT ![c] = @ + 1]

\* Mutant: the API server lets the last writer win.
MutantLastWriterWins(k) == FALSE

\* The API server refuses an Update made from an older revision.
Conflict(k) == revision[worker[k].key] # worker[k].rev

-----------------------------------------------------------------------------
(* The users of the cluster.                                               *)

UserOp ==
  /\ userOps < MaxUserOps
  /\ userOps' = userOps + 1
  /\ UNCHANGED <<cache, queue, worker, newRelic, faults>>

UserCreate(c) ==
  /\ store[c] = None
  /\ \E s \in SpecsFor[c] :
       Put(c, [spec |-> s, deleting |-> FALSE, finalizer |-> FALSE,
               id |-> None, applied |-> None])
  /\ UserOp

UserEdit(c) ==
  /\ store[c] # None
  /\ \E s \in SpecsFor[c] :
       /\ <<store[c].spec, s>> \in Edits
       /\ Put(c, [store[c] EXCEPT !.spec = s])
  /\ UserOp

\* kubectl delete: with a finalizer the resource stays until it is removed.
UserDelete(c) ==
  /\ store[c] # None
  /\ ~store[c].deleting
  /\ Put(c, IF store[c].finalizer THEN [store[c] EXCEPT !.deleting = TRUE]
                                  ELSE None)
  /\ UserOp

-----------------------------------------------------------------------------
(* The manager: informer, resync, crash.                                   *)

\* A watch event updates the cache and enqueues the resource.
InformerSync(c) ==
  /\ cache[c].rev # revision[c]
  /\ cache' = [cache EXCEPT ![c] = [object |-> store[c], rev |-> revision[c]]]
  /\ queue' = queue \cup {c}
  /\ UNCHANGED <<cluster, worker, newRelic, faults, userOps>>

\* The periodic resync (SyncPeriod's default) enqueues what the cache holds.
Resync(c) ==
  /\ cache[c].object # None
  /\ c \notin queue
  /\ queue' = queue \cup {c}
  /\ UNCHANGED <<cluster, cache, worker, newRelic, faults, userOps>>

\* The manager restarts: what it knew in memory is lost, and the informer's
\* first list enqueues every resource there is.
Crash ==
  /\ Fault("crash")
  /\ worker' = [k \in Kinds |-> Idle]
  /\ cache'  = [c \in Conditions |-> [object |-> store[c], rev |-> revision[c]]]
  /\ queue'  = {c \in Conditions : store[c] # None}
  /\ UNCHANGED <<cluster, newRelic, userOps>>

\* Somebody deletes a condition in New Relic itself.
OutOfBandDelete(i) ==
  /\ nr[i] # None
  /\ Fault("outOfBand")
  /\ nr' = [nr EXCEPT ![i] = None]
  /\ UNCHANGED <<cluster, cache, queue, worker, used, userOps>>

-----------------------------------------------------------------------------
(* Reconcile, up to its first call: Get, the API key, the finalizer in     *)
(* memory, and the branch on the deletion timestamp and on the spec.       *)

Ready(k, c) ==
  /\ worker[k].pc = "idle"
  /\ KindOf[c] = k
  /\ c \in queue

\* Mutant: a condition that has an id counts as reconciled.
MutantIdIsEnough(object) ==
  object # None =>
    IF object.deleting THEN ~object.finalizer ELSE object.id # None

NothingToDo(object) ==
  object # None =>
    IF object.deleting THEN ~object.finalizer ELSE object.spec = object.applied

\* Mutant: the cached copy is taken to be of the current revision.
MutantFresh(k, c, step, object) ==
  /\ worker' = [worker EXCEPT ![k] = [pc |-> step, key |-> c, object |-> object,
                                      rev |-> revision[c]]]
  /\ queue' = queue \ {c}
  /\ UNCHANGED <<cluster, cache, newRelic, faults, userOps>>

Begin(k, c, step, object) ==
  /\ worker' = [worker EXCEPT ![k] = [pc |-> step, key |-> c, object |-> object,
                                      rev |-> cache[c].rev]]
  /\ queue' = queue \ {c}
  /\ UNCHANGED <<cluster, cache, newRelic, faults, userOps>>

\* Get, the API key's secret or the client fails: the error requeues.
ReconcileFails(k, c) ==
  /\ Ready(k, c)
  /\ Fault("get")
  /\ UNCHANGED <<cluster, cache, queue, worker, newRelic, userOps>>

ReconcileNothing(k, c) ==
  /\ Ready(k, c)
  /\ NothingToDo(cache[c].object)
  /\ queue' = queue \ {c}
  /\ UNCHANGED <<cluster, cache, worker, newRelic, faults, userOps>>

\* Being deleted: without a ConditionID the finalizer is just removed.
ReconcileDeletion(k, c) ==
  LET object == cache[c].object IN
  /\ Ready(k, c)
  /\ ~NothingToDo(object)
  /\ object.deleting
  /\ IF object.id = None
     THEN Begin(k, c, "release", [object EXCEPT !.finalizer = FALSE])
     ELSE Begin(k, c, "delete", object)

\* Mutant: the status claims the spec before New Relic has accepted it.
MutantClaimEarly(object) ==
  [object EXCEPT !.finalizer = TRUE, !.applied = object.spec]

\* The finalizer is appended in memory only.
Prepared(object) == [object EXCEPT !.finalizer = TRUE]

\* checkForExistingCondition searches New Relic only when the status holds no
\* ConditionID.
ReconcileSpec(k, c) ==
  LET object == Prepared(cache[c].object) IN
  /\ Ready(k, c)
  /\ ~NothingToDo(cache[c].object)
  /\ ~object.deleting
  /\ Begin(k, c, IF object.id = None THEN "search" ELSE "write", object)

-----------------------------------------------------------------------------
(* The calls of a reconcile.                                               *)

\* The worker goes on to its next call with this local copy.
GoOn(k, step, object) ==
  worker' = [worker EXCEPT ![k].pc = step, ![k].object = object]

\* Reconcile returns nil: the resource is not requeued.
Return(k) == worker' = [worker EXCEPT ![k] = Idle] /\ queue' = queue

\* Reconcile returns an error: the resource is requeued.
Fail(k) ==
  /\ worker' = [worker EXCEPT ![k] = Idle]
  /\ queue'  = queue \cup {worker[k].key}

\* Mutant: any condition of the policy matches.
MutantAnyName(i, object) == nr[i] # None

SameName(i, object) == nr[i] # None /\ NameOf[nr[i]] = NameOf[object.spec]

\* Mutants: the condition found is not kept; it is kept instead of its id.
MutantForget(object, i)  == object
MutantKeepSpec(object, i) == [object EXCEPT !.id = nr[i]]

Adopt(object, i) == [object EXCEPT !.id = i]

\* An error of the search is only logged, and the worker goes on to create.
Search(k) ==
  LET object == worker[k].object
      found  == {i \in Ids : SameName(i, object)}
  IN  /\ worker[k].pc = "search"
      /\ \/ /\ \E i \in found : GoOn(k, "write", Adopt(object, i))
            /\ UNCHANGED faults
         \/ /\ found = {}
            /\ GoOn(k, "write", object)
            /\ UNCHANGED faults
         \/ /\ Fault("search")
            /\ GoOn(k, "write", object)
      /\ UNCHANGED <<cluster, cache, queue, newRelic, userOps>>

\* What the code records in memory after a write that New Relic accepted.
Applied(object, i) == [object EXCEPT !.applied = object.spec, !.id = i]

\* An error of the update is only logged, and the worker goes on to save.
UpdateCondition(k) ==
  LET object == worker[k].object
      i      == object.id
  IN  /\ worker[k].pc = "write"
      /\ i # None
      /\ \/ /\ nr[i] # None
            /\ nr' = [nr EXCEPT ![i] = object.spec]
            /\ GoOn(k, "save", Applied(object, i))
            /\ UNCHANGED faults
         \/ /\ nr[i] = None   \* New Relic answers that there is no such condition
            /\ GoOn(k, "save", object)
            /\ UNCHANGED <<nr, faults>>
         \/ /\ Fault("write")
            /\ GoOn(k, "save", object)
            /\ UNCHANGED nr
         \/ /\ Fault("lostWrite")   \* done by New Relic, but the answer is lost
            /\ nr[i] # None
            /\ nr' = [nr EXCEPT ![i] = object.spec]
            /\ GoOn(k, "save", object)
      /\ UNCHANGED <<cluster, cache, queue, used, userOps>>

\* New Relic gives out a new id; Ids bounds how many conditions are created.
FreshId == CHOOSE i \in Ids \ used : TRUE

NewCondition(spec) ==
  /\ nr'   = [nr EXCEPT ![FreshId] = spec]
  /\ used' = used \cup {FreshId}

CreateCondition(k) ==
  LET object == worker[k].object IN
  /\ worker[k].pc = "write"
  /\ object.id = None
  /\ \/ /\ Ids \ used # {}
        /\ NewCondition(object.spec)
        /\ GoOn(k, "save", Applied(object, FreshId))
        /\ UNCHANGED faults
     \/ /\ Fault("write")
        /\ GoOn(k, "save", object)
        /\ UNCHANGED newRelic
     \/ /\ Fault("lostWrite")
        /\ Ids \ used # {}
        /\ NewCondition(object.spec)
        /\ GoOn(k, "save", object)
  /\ UNCHANGED <<cluster, cache, queue, userOps>>

\* Client.Update after a write.  Its error is only logged: nothing requeues.
\* An Update that changes nothing is accepted without a new revision.
Save(k) ==
  LET c == worker[k].key
      object == worker[k].object
  IN  /\ worker[k].pc = "save"
      /\ Return(k)
      /\ \/ /\ ~Conflict(k)
            /\ IF object = store[c] THEN UNCHANGED cluster ELSE Put(c, object)
            /\ UNCHANGED faults
         \/ /\ Conflict(k)
            /\ UNCHANGED <<cluster, faults>>
         \/ /\ Fault("save")
            /\ UNCHANGED cluster
      /\ UNCHANGED <<cache, newRelic, userOps>>

\* Mutants: an error that should stop the deletion does not; one that should
\* not, does.
MutantTolerateAll  == {"ok", "resource not found", "error"}
MutantTolerateNone == {"ok"}

\* The answers after which Reconcile goes on to remove the finalizer.
Tolerated == {"ok", "resource not found"}

AfterDelete(k, answer) ==
  IF answer \in Tolerated
  THEN /\ GoOn(k, "release", [worker[k].object EXCEPT !.finalizer = FALSE])
       /\ UNCHANGED queue
  ELSE Fail(k)

DeleteCondition(k) ==
  LET i == worker[k].object.id IN
  /\ worker[k].pc = "delete"
  /\ \/ /\ nr[i] # None
        /\ nr' = [nr EXCEPT ![i] = None]
        /\ AfterDelete(k, "ok")
        /\ UNCHANGED faults
     \/ /\ nr[i] = None
        /\ AfterDelete(k, "resource not found")
        /\ UNCHANGED <<nr, faults>>
     \/ /\ Fault("delete")
        /\ AfterDelete(k, "error")
        /\ UNCHANGED nr
     \/ /\ Fault("lostDelete")   \* deleted, but the answer is lost
        /\ nr' = [nr EXCEPT ![i] = None]
        /\ AfterDelete(k, "error")
  /\ UNCHANGED <<cluster, cache, used, userOps>>

\* Client.Update without the finalizer: the API server drops the resource.
\* Its error is returned.
Release(k) ==
  /\ worker[k].pc = "release"
  /\ \/ /\ ~Conflict(k)
        /\ Put(worker[k].key, None)
        /\ Return(k)
        /\ UNCHANGED faults
     \/ /\ Conflict(k)
        /\ Fail(k)
        /\ UNCHANGED <<cluster, faults>>
     \/ /\ Fault("release")
        /\ Fail(k)
        /\ UNCHANGED cluster
  /\ UNCHANGED <<cache, newRelic, userOps>>

-----------------------------------------------------------------------------
User == \E c \in Conditions : UserCreate(c) \/ UserEdit(c) \/ UserDelete(c)

Informer == \E c \in Conditions : InformerSync(c) \/ Resync(c)

Reconcile(k, c) ==
  \/ ReconcileFails(k, c)
  \/ ReconcileNothing(k, c)
  \/ ReconcileDeletion(k, c)
  \/ ReconcileSpec(k, c)

Call(k) ==
  \/ Search(k)
  \/ UpdateCondition(k)
  \/ CreateCondition(k)
  \/ Save(k)
  \/ DeleteCondition(k)
  \/ Release(k)

Next ==
  \/ User
  \/ Informer
  \/ Crash
  \/ \E i \in Ids : OutOfBandDelete(i)
  \/ \E k \in Kinds : Call(k) \/ \E c \in Conditions : Reconcile(k, c)

(* Nothing is asked of the users, nor that faults happen.  A worker runs   *)
(* its calls to the end (they have timeouts), watch events and resyncs     *)
(* arrive, and the work queue, a FIFO, serves every resource in it.        *)
Fairness ==
  /\ \A k \in Kinds : WF_vars(Call(k))
  /\ \A c \in Conditions : /\ WF_vars(InformerSync(c))
                           /\ WF_vars(Resync(c))
                           /\ SF_vars(Reconcile(KindOf[c], c))

Spec     == Init /\ [][Next]_vars
FairSpec == Spec /\ Fairness

-----------------------------------------------------------------------------
(* Safety.                                                                 *)

\* A resource whose status records a condition id leaves the cluster only when
\* New Relic no longer holds that condition: the finalizer, the retries, the
\* tolerated "resource not found" and the revision check of the last Update
\* never add up to a recorded condition that outlives its resource.
NoRecordedLeak ==
  [][\A c \in Conditions :
       store[c] # None /\ store'[c] = None /\ store[c].id # None
         => nr[store[c].id] = None]_vars

\* No worker undoes what a user did: Update writes spec, status and metadata
\* together, and yet only a user's step changes a spec, brings a resource back
\* from deletion, or removes one that nobody asked to delete.
UserIntentSurvives ==
  [][userOps' = userOps =>
       \A c \in Conditions : store[c] # None =>
         IF store'[c] = None THEN store[c].deleting
         ELSE /\ store'[c].spec = store[c].spec
              /\ store'[c].deleting = store[c].deleting]_vars

\* Adoption by name never makes two resources own one condition, so that the
\* deletion of one never takes the other's condition away (for resources whose
\* specs never share a name).
DistinctNames ==
  \A c, d \in Conditions : c # d =>
    \A s \in SpecsFor[c], t \in SpecsFor[d] : NameOf[s] # NameOf[t]

ExclusiveOwnership ==
  \A c, d \in Conditions :
    c # d /\ store[c] # None /\ store[d] # None /\ store[c].id # None
      => store[c].id # store[d].id

\* A status that claims the current spec tells the truth: New Relic holds the
\* recorded condition with that spec, whatever writes, answers or saves were
\* lost (Reconcile returns at once on such a status, so nothing else would
\* ever repair it).
AppliedIsTrue ==
  \A c \in Conditions :
    store[c] # None /\ ~store[c].deleting /\ store[c].applied = store[c].spec
      => store[c].id # None /\ nr[store[c].id] = store[c].spec

\* The search before a create makes it idempotent: a create or a save whose
\* outcome was lost, or a crash between them, never ends in two conditions of
\* one name.
NoDuplicates ==
  \A i, j \in Ids :
    nr[i] # None /\ nr[j] # None /\ NameOf[nr[i]] = NameOf[nr[j]] => i = j

(* Liveness.                                                               *)

\* A resource being deleted is eventually gone: a deletion repeated after a
\* lost answer, a failed Update or a conflict gets through.
DeletionCompletes ==
  \A c \in Conditions :
    store[c] # None /\ store[c].deleting ~> store[c] = None

\* Once the users and the faults stop, every resource ends up in New Relic as
\* its spec says and stays so, though the errors of the writes and of the
\* saves are only logged.
EventuallyInSync ==
  <>[](\A c \in Conditions : store[c] # None /\ ~store[c].deleting
         => store[c].id # None /\ nr[store[c].id] = store[c].spec)

-----------------------------------------------------------------------------
(* The abstract specification.                                             *)

\* What a resource shows of itself: the finalizer, the applied spec and every
\* revision but the last are the reconcilers' own business.
Recorded ==
  [c \in Conditions |->
     IF store[c] = None THEN None
     ELSE [spec |-> store[c].spec, deleting |-> store[c].deleting,
           id |-> store[c].id]]

Lifecycle == INSTANCE ConditionLifecycle WITH resource <- Recorded

\* The reconcilers, with their caches, queues, retries, faults and crashes,
\* implement the lifecycle: an id is recorded once and never replaced, a
\* condition is changed only for the resource it was created for and removed
\* only by that resource's deletion, and it goes before the resource does (for
\* resources whose specs never share a name).
ImplementsLifecycle == Lifecycle!Spec

-----------------------------------------------------------------------------
(* The inductive invariant behind NoRecordedLeak and UserIntentSurvives.   *)

\* A copy is never newer than the resource, and one that is as new is equal.
CacheCoherent ==
  \A c \in Conditions :
    /\ cache[c].rev <= revision[c]
    /\ cache[c].rev = revision[c] => cache[c].object = store[c]

\* A worker whose Update would be accepted holds what the users last wrote,
\* and on its way to release also the recorded id.
WorkerCoherent ==
  \A k \in Kinds : worker[k].pc # "idle" =>
    LET w == worker[k] IN
    /\ w.rev <= revision[w.key]
    /\ w.rev = revision[w.key] =>
         /\ store[w.key] # None
         /\ store[w.key].spec = w.object.spec
         /\ store[w.key].deleting = w.object.deleting
         /\ w.pc \in {"delete", "release"} => store[w.key].id = w.object.id

\* Only deletions remove the finalizer, and only when New Relic no longer
\* holds the condition.
WorkerPhases ==
  \A k \in Kinds :
    LET w == worker[k] IN
    /\ w.pc \in {"search", "write", "save"} =>
         w.object.finalizer /\ ~w.object.deleting
    /\ w.pc \in {"delete", "release"} => w.object.deleting
    /\ w.pc = "delete" => w.object.id # None
    /\ w.pc = "release" /\ w.object.id # None => nr[w.object.id] = None

\* A recorded id comes with the finalizer.
FinalizerKept ==
  \A c \in Conditions :
    store[c] # None /\ store[c].id # None => store[c].finalizer

\* Ids are not given out twice, so a deleted condition stays deleted.
IdsUsed ==
  /\ \A i \in Ids : nr[i] # None => i \in used
  /\ \A c \in Conditions :
       /\ store[c] # None => store[c].id \in used \cup {None}
       /\ cache[c].object # None => cache[c].object.id \in used \cup {None}
  /\ \A k \in Kinds :
       worker[k].pc # "idle" => worker[k].object.id \in used \cup {None}

LeakInv ==
  CacheCoherent /\ WorkerCoherent /\ WorkerPhases /\ FinalizerKept /\ IdsUsed

-----------------------------------------------------------------------------
(* The inductive invariant behind ExclusiveOwnership and the refinement.   *)

\* The copies of a resource: the API server's, the informer's, a worker's.
Copies(c) ==
  {o \in {store[c], cache[c].object}
         \cup {worker[k].object : k \in {k \in Kinds : worker[k].key = c}} :
     o # None}

\* New Relic and the copies hold only what users gave to the resource, and the
\* conditions that a copy records were created for that resource only.
Ownership ==
  /\ \A i \in Ids : nr[i] # None => \E c \in Conditions : nr[i] \in SpecsFor[c]
  /\ \A c \in Conditions : \A o \in Copies(c) :
       /\ o.spec \in SpecsFor[c]
       /\ o.id # None =>
            /\ nr[o.id] # None => nr[o.id] \in SpecsFor[c]
            /\ \A d \in Conditions : d # c => \A p \in Copies(d) : p.id # o.id

\* A worker whose Update would be accepted replaces no recorded id, and only
\* one that knows of no condition searches for one.
IdsRecorded ==
  \A k \in Kinds :
    LET w == worker[k] IN
    /\ w.pc = "search" => w.object.id = None
    /\ w.pc # "idle" /\ ~Conflict(k) => store[w.key].id \in {None, w.object.id}

\* A condition that a copy is about to delete is one that the resource, which
\* is being deleted, still records, or is gone.
Doomed ==
  \A c \in Conditions : \A o \in Copies(c) :
    o.deleting /\ o.id # None =>
      \/ nr[o.id] = None
      \/ store[c] # None /\ store[c].deleting /\ store[c].id = o.id

LifecycleInv == Ownership /\ IdsRecorded /\ Doomed

-----------------------------------------------------------------------------
(* The inductive invariant behind AppliedIsTrue, for users who never edit  *)
(* back to a spec that came before: whose edits go forward in an order.    *)

Forward(order) ==
  /\ Edits \subseteq order
  /\ \A s \in Specs : <<s, s>> \notin order
  /\ \A s, t, u \in Specs :
       <<s, t>> \in order /\ <<t, u>> \in order => <<s, u>> \in order

\* A reconcile is of its own kind's resource and read a copy that the cache
\* has kept or replaced by a newer one.
OwnWorker ==
  \A k \in Kinds : worker[k].pc # "idle" =>
    /\ KindOf[worker[k].key] = k
    /\ worker[k].rev <= cache[worker[k].key].rev

\* What was applied is the spec or came before it: an edit makes the claim
\* void for good.
AppliedBefore(order) ==
  \A c \in Conditions : \A o \in Copies(c) :
    \/ o.applied \in {None, o.spec}
    \/ <<o.applied, o.spec>> \in order

\* New Relic holds the condition that a copy records, with its spec.
Held(object) == object.id # None /\ nr[object.id] = object.spec

\* A worker makes the claim only when New Relic has accepted the spec.
ClaimInHand(k) ==
  LET o == worker[k].object IN
  /\ worker[k].pc \in {"search", "write"} => o.applied # o.spec
  /\ worker[k].pc = "save" /\ o.applied = o.spec => Held(o)

ClaimsInHand == \A k \in Kinds : ClaimInHand(k)

Claims(object) ==
  object # None /\ ~object.deleting /\ object.applied = object.spec

\* While a status claims the spec, no stale copy of another spec is at hand.
ClaimsKnown ==
  \A c \in Conditions : Claims(store[c]) =>
    /\ cache[c].object # None
    /\ cache[c].object.spec = store[c].spec
    /\ \A k \in Kinds : worker[k].pc # "idle" /\ worker[k].key = c =>
         worker[k].object.spec = store[c].spec

ClaimInv(order) ==
  OwnWorker /\ AppliedBefore(order) /\ ClaimsInHand /\ ClaimsKnown
    /\ AppliedIsTrue

-----------------------------------------------------------------------------
(* The inductive invariant behind NoDuplicates, for users who never rename *)
(* a condition.                                                            *)

NeverRename == \A e \in Edits : NameOf[e[1]] = NameOf[e[2]]

\* The condition that a copy records has the copy's name.
RecordedName ==
  \A c \in Conditions : \A o \in Copies(c) :
    o.id # None /\ nr[o.id] # None => NameOf[nr[o.id]] = NameOf[o.spec]

\* From the search that found nothing to the create, nothing of the name
\* appears.
StillMissing ==
  \A k \in Kinds :
    worker[k].pc = "write" /\ worker[k].object.id = None =>
      \A i \in Ids : ~SameName(i, worker[k].object)

NameInv == RecordedName /\ StillMissing /\ NoDuplicates
=============================================================================
