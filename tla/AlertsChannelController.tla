----------------------- MODULE AlertsChannelController -----------------------
(***************************************************************************)
(* The reconciler of one AlertsChannel: the notification channel in New    *)
(* Relic, its links to policies, and its deletion.  New Relic does not     *)
(* change a channel, so the code looks for channels of the resource's name *)
(* at each reconcile and removes them before it makes its own.             *)
(*                                                                         *)
(* As in the other controllers, a step of the worker is one call that      *)
(* leaves the process.                                                     *)
(***************************************************************************)
EXTENDS Naturals, FiniteSets

CONSTANTS
  Names,       \* channel names (Spec.Name)
  Configs,     \* the type and configuration of a channel
  Policies,    \* the policies that channels are linked to
  Given,       \* the specs the users first apply
  Edits,       \* the pairs <<old, new>> of specs the users edit between
  Existing,    \* the channels New Relic may hold before
  Ids,         \* New Relic channel ids, a bound on those in use at one time
  None,        \* no resource, no channel, no id
  FaultKinds,  \* the faults that may happen
  MaxFaults,   \* bound on the number of faults, each kind of which happens once
  MaxUserOps   \* bound on the number of changes the users make

AllFaults == {"get", "list", "secret", "deleteExisting", "createChannel",
              "lostCreate", "link", "update", "delete", "crash"}

\* links: Links.PolicyIDs, PolicyNames and PolicyKubernetesObjects.
ChannelSpec == [name : Names, config : Configs, links : SUBSET Policies]
Channel     == ChannelSpec

\* The AppliedSpec that the webhook's Default puts in a new resource.
Nothing == [name |-> None, config |-> None, links |-> {}]

\* Status.AppliedPolicyIDs is written and never read, and left out.
Object == [spec : ChannelSpec, deleting : BOOLEAN, finalizer : BOOLEAN,
           id : Ids \cup {None}, applied : ChannelSpec \cup {Nothing}]

ASSUME ConstantsAssumption ==
  /\ Given \subseteq ChannelSpec
  /\ Edits \subseteq ChannelSpec \X ChannelSpec
  /\ Existing \subseteq Channel
  /\ Ids # {}
  /\ None \notin Names
  /\ None \notin Ids
  /\ None \notin Channel
  /\ None \notin Object
  /\ FaultKinds \subseteq AllFaults
  /\ MaxFaults \in Nat
  /\ MaxUserOps \in Nat

VARIABLES
  store,     \* API server: the channel resource, or None
  revision,  \* API server: number of writes of it (resourceVersion)
  cache,     \* the informer's copy of it and the revision that is of
  queued,    \* whether it is in the work queue
  worker,    \* where the worker is in a reconcile, and its local copy
  channels,  \* New Relic: each channel id's channel, or None
  ready,     \* the policies that exist, and whose resources have an id
  faults,    \* the kinds of faults that happened
  userOps    \* number of changes the users made

vars == <<store, revision, cache, queued, worker, channels, ready, faults, userOps>>
cluster == <<store, revision>>

Steps == {"list", "clear", "create", "policies", "unlink", "link", "delete",
          "release"}
Idle  == [pc |-> "idle", object |-> None, rev |-> 0, found |-> {}, remove |-> {},
          add |-> {}]

\* found: the listed channels still to look at.  remove, add: the links still to
\* take away and to make.
Busy  == [pc : Steps, object : Object, rev : Nat, found : SUBSET Ids,
          remove : SUBSET Policies, add : SUBSET Policies]

TypeOK ==
  /\ store    \in Object \cup {None}
  /\ revision \in Nat
  /\ cache    \in [object : Object \cup {None}, rev : Nat]
  /\ queued   \in BOOLEAN
  /\ worker   \in Busy \cup {Idle}
  /\ channels \in [Ids -> Channel \cup {None}]
  /\ ready    \subseteq Policies
  /\ faults   \subseteq FaultKinds
  /\ userOps  \in Nat

\* An id that nothing refers to any more stands for a new one.
Remembered ==
  {i \in Ids : channels[i] # None}
    \cup {o.id : o \in {store, cache.object, worker.object} \ {None}}

FreshId == CHOOSE i \in Ids \ Remembered : TRUE

\* New Relic may hold a channel that nobody here made, and policies may be there
\* already or be reconciled later.
Init ==
  /\ store    = None
  /\ revision = 0
  /\ cache    = [object |-> None, rev |-> 0]
  /\ queued   = FALSE
  /\ worker   = Idle
  /\ \E e \in Existing \cup {None} :
       channels = [i \in Ids |-> IF i = CHOOSE first \in Ids : TRUE THEN e ELSE None]
  /\ ready    \in SUBSET Policies
  /\ faults   = {}
  /\ userOps  = 0

-----------------------------------------------------------------------------
(* The API servers, the users and the other controllers.                   *)

Fault(kind) ==
  /\ kind \in FaultKinds \ faults
  /\ Cardinality(faults) < MaxFaults
  /\ faults' = faults \cup {kind}

Put(object) == store' = object /\ revision' = revision + 1

\* The API server refuses an Update made from an older revision.
Conflict == revision # worker.rev

UserOp ==
  /\ userOps < MaxUserOps
  /\ userOps' = userOps + 1
  /\ UNCHANGED <<cache, queued, worker, channels, ready, faults>>

\* One life of the resource.
UserCreate ==
  /\ store = None /\ revision = 0
  /\ \E s \in Given :
       Put([spec |-> s, deleting |-> FALSE, finalizer |-> FALSE, id |-> None,
            applied |-> Nothing])
  /\ UserOp

UserEdit ==
  /\ store # None
  /\ \E edit \in Edits :
       /\ edit[1] = store.spec
       /\ Put([store EXCEPT !.spec = edit[2]])
  /\ UserOp

UserDelete ==
  /\ store # None
  /\ ~store.deleting
  /\ Put(IF store.finalizer THEN [store EXCEPT !.deleting = TRUE] ELSE None)
  /\ UserOp

InformerSync ==
  /\ cache.rev # revision
  /\ cache' = [object |-> store, rev |-> revision]
  /\ queued' = TRUE
  /\ UNCHANGED <<cluster, worker, channels, ready, faults, userOps>>

Resync ==
  /\ cache.object # None
  /\ ~queued
  /\ queued' = TRUE
  /\ UNCHANGED <<cluster, cache, worker, channels, ready, faults, userOps>>

Crash ==
  /\ Fault("crash")
  /\ worker' = Idle
  /\ cache'  = [object |-> store, rev |-> revision]
  /\ queued' = (store # None)
  /\ UNCHANGED <<cluster, channels, ready, userOps>>

\* The AlertsPolicy that a channel refers to gets its PolicyID.
PolicyReady ==
  /\ \E p \in Policies \ ready : ready' = ready \cup {p}
  /\ UNCHANGED <<cluster, cache, queued, worker, channels, faults, userOps>>

-----------------------------------------------------------------------------
(* Reconcile, up to its first call.                                        *)

Ready == worker.pc = "idle" /\ queued

\* Mutant: a channel that has an id counts as reconciled.
MutantIdIsEnough(object) ==
  object # None => ~object.deleting /\ object.id # None

NothingToDo(object) ==
  object # None => ~object.deleting /\ object.spec = object.applied

\* The worker's state when it gets to a step.
At(step, object, rev) ==
  [pc |-> step, object |-> object, rev |-> rev, found |-> {}, remove |-> {},
   add |-> {}]

Go(step, object) == worker' = At(step, object, worker.rev)

\* Reconcile returns nil, or an error that requeues the channel.
Return == worker' = Idle /\ queued' = queued
Fail   == worker' = Idle /\ queued' = TRUE

\* Mutant: the cached copy is taken to be of the current revision.
MutantFresh(step, object) ==
  /\ worker' = At(step, object, revision)
  /\ queued' = FALSE
  /\ UNCHANGED <<cluster, cache, channels, ready, faults, userOps>>

Begin(step, object) ==
  /\ worker' = At(step, object, cache.rev)
  /\ queued' = FALSE
  /\ UNCHANGED <<cluster, cache, channels, ready, faults, userOps>>

ReconcileFails ==
  /\ Ready
  /\ Fault("get")
  /\ UNCHANGED <<cluster, cache, queued, worker, channels, ready, userOps>>

ReconcileNothing ==
  /\ Ready
  /\ NothingToDo(cache.object)
  /\ queued' = FALSE
  /\ UNCHANGED <<cluster, cache, worker, channels, ready, faults, userOps>>

\* Mutant: only a channel whose spec is applied is there to be deleted.
MutantAppliedOnly(object) == object.id # None /\ object.applied = object.spec

HasChannel(object) == object.id # None

\* deleteAlertsChannel, up to its first call.
ReconcileDeletion ==
  LET object == cache.object IN
  /\ Ready
  /\ ~NothingToDo(object)
  /\ object.deleting
  /\ Begin(IF HasChannel(object) THEN "delete" ELSE "release",
           [object EXCEPT !.finalizer = FALSE])

\* The finalizer is appended in memory only.
ReconcileSpec ==
  /\ Ready
  /\ ~NothingToDo(cache.object)
  /\ ~cache.object.deleting
  /\ Begin("list", [cache.object EXCEPT !.finalizer = TRUE])

-----------------------------------------------------------------------------
(* checkForExistingAlertsChannel.                                          *)

\* Mutant: only a channel that is like the spec is looked at.
MutantOnlySame(i, spec) ==
  channels[i] # None /\ channels[i] = [spec EXCEPT !.links = {}]

SameName(i, spec) == channels[i] # None /\ channels[i].name = spec.name

\* What the spec becomes for the API has no links: a listed channel that has any
\* is not equal to it.
SameChannel(i, spec) == channels[i] = [spec EXCEPT !.links = {}]

\* An error of the list is only logged.
ListChannels ==
  LET object == worker.object IN
  /\ worker.pc = "list"
  /\ \/ /\ worker' = [At("clear", object, worker.rev) EXCEPT
             !.found = {i \in Ids : SameName(i, object.spec)}]
        /\ UNCHANGED faults
     \/ /\ Fault("list")
        /\ Go("clear", object)
  /\ UNCHANGED <<cluster, cache, queued, channels, ready, userOps>>

\* Mutant: the id is read after it was set to 0 for the comparison.
MutantZeroId(object, i) == [object EXCEPT !.id = 0, !.applied = object.spec]

Adopt(object, i) == [object EXCEPT !.id = i, !.applied = object.spec]

\* A channel of this name is adopted if it is like the spec, and deleted in any
\* case.  An error skips the channel or is only logged.
ClearExisting ==
  /\ worker.pc = "clear"
  /\ \E i \in worker.found :
       LET seen == [worker EXCEPT !.found = @ \ {i}]
           adopted ==
             IF SameChannel(i, worker.object.spec)
             THEN [seen EXCEPT !.object = Adopt(@, i)]
             ELSE seen
       IN  \/ /\ channels' = [channels EXCEPT ![i] = None]
              /\ worker' = adopted
              /\ UNCHANGED faults
           \/ /\ Fault("deleteExisting")
              /\ worker' = adopted
              /\ UNCHANGED channels
           \/ /\ Fault("secret")
              /\ worker' = seen
              /\ UNCHANGED channels
  /\ UNCHANGED <<cluster, cache, queued, ready, userOps>>

EndExisting ==
  /\ worker.pc = "clear"
  /\ worker.found = {}
  /\ IF worker.object.id = None THEN Go("create", worker.object)
                                ELSE Go("policies", worker.object)
  /\ UNCHANGED <<cluster, cache, queued, channels, ready, faults, userOps>>

-----------------------------------------------------------------------------
(* createAlertsChannel, updateAlertsChannel.                               *)

NewChannel(spec) ==
  /\ Ids \ Remembered # {}
  /\ channels' = [channels EXCEPT ![FreshId] = [spec EXCEPT !.links = {}]]

CreateChannel ==
  LET object == worker.object IN
  /\ worker.pc = "create"
  /\ \/ /\ NewChannel(object.spec)
        /\ Go("policies", [object EXCEPT !.id = FreshId])
        /\ UNCHANGED <<queued, faults>>
     \/ /\ Fault("createChannel")   \* or the secret of a header is not there
        /\ Fail
        /\ UNCHANGED channels
     \/ /\ Fault("lostCreate")      \* created, but the answer is lost
        /\ NewChannel(object.spec)
        /\ Fail
  /\ UNCHANGED <<cluster, cache, ready, userOps>>

\* getAllPolicyIDs, of the applied and of the new spec: an error, or a policy
\* that has no id yet, ends the reconcile.  A new channel has the empty
\* AppliedSpec of the webhook.
GetAllPolicyIDs ==
  LET object == worker.object
      known  == object.applied.links \cup object.spec.links \subseteq ready
  IN  /\ worker.pc = "policies"
      /\ \/ /\ known
            /\ worker' = [worker EXCEPT
                 !.pc     = "unlink",
                 !.remove = object.applied.links \ object.spec.links,
                 !.add    = object.spec.links \ object.applied.links]
            /\ UNCHANGED <<queued, faults>>
         \/ /\ ~known
            /\ Fail
            /\ UNCHANGED faults
         \/ /\ Fault("get")
            /\ Fail
      /\ UNCHANGED <<cluster, cache, channels, ready, userOps>>

\* A call on one link; New Relic answers with an error when the channel is not
\* there.  Any error is only logged.
Relink(links) ==
  LET i == worker.object.id IN
  \/ /\ IF channels[i] = None THEN UNCHANGED channels
        ELSE channels' = [channels EXCEPT ![i].links = links]
     /\ UNCHANGED faults
  \/ /\ Fault("link")
     /\ UNCHANGED channels

Unlink ==
  /\ worker.pc = "unlink"
  /\ \E p \in worker.remove :
       /\ worker' = [worker EXCEPT !.remove = @ \ {p}]
       /\ Relink(channels[worker.object.id].links \ {p})
  /\ UNCHANGED <<cluster, cache, queued, ready, userOps>>

EndUnlink ==
  /\ worker.pc = "unlink"
  /\ worker.remove = {}
  /\ worker' = [worker EXCEPT !.pc = "link"]
  /\ UNCHANGED <<cluster, cache, queued, channels, ready, faults, userOps>>

Link ==
  /\ worker.pc = "link"
  /\ \E p \in worker.add :
       /\ worker' = [worker EXCEPT !.add = @ \ {p}]
       /\ Relink(channels[worker.object.id].links \cup {p})
  /\ UNCHANGED <<cluster, cache, queued, ready, userOps>>

Save ==
  LET spec == worker.object.spec IN
  /\ worker.pc = "link"
  /\ worker.add = {}
  /\ \/ /\ ~Conflict
        /\ Put([worker.object EXCEPT !.applied = spec])
        /\ Return
        /\ UNCHANGED faults
     \/ /\ Conflict
        /\ Fail
        /\ UNCHANGED <<cluster, faults>>
     \/ /\ Fault("update")
        /\ Fail
        /\ UNCHANGED cluster
  /\ UNCHANGED <<cache, channels, ready, userOps>>

-----------------------------------------------------------------------------
(* deleteAlertsChannel.                                                    *)

\* Mutant: an error of DeleteChannel is returned.
MutantTolerateNone == {"ok"}

\* The answers after which the finalizer goes: an error is only logged.
Tolerated == {"ok", "not there", "error"}

AfterDelete(answer) ==
  IF answer \in Tolerated THEN Go("release", worker.object) /\ UNCHANGED queued
                          ELSE Fail

DeleteChannel ==
  LET i == worker.object.id IN
  /\ worker.pc = "delete"
  /\ \/ /\ channels[i] # None
        /\ channels' = [channels EXCEPT ![i] = None]
        /\ AfterDelete("ok")
        /\ UNCHANGED faults
     \/ /\ channels[i] = None
        /\ AfterDelete("not there")
        /\ UNCHANGED <<channels, faults>>
     \/ /\ Fault("delete")
        /\ AfterDelete("error")
        /\ UNCHANGED channels
  /\ UNCHANGED <<cluster, cache, ready, userOps>>

\* Client.Update without the finalizer: the API server drops the resource.
Release ==
  /\ worker.pc = "release"
  /\ \/ /\ ~Conflict
        /\ Put(None)
        /\ Return
        /\ UNCHANGED faults
     \/ /\ Conflict
        /\ Fail
        /\ UNCHANGED <<cluster, faults>>
     \/ /\ Fault("update")
        /\ Fail
        /\ UNCHANGED cluster
  /\ UNCHANGED <<cache, channels, ready, userOps>>

-----------------------------------------------------------------------------
User == UserCreate \/ UserEdit \/ UserDelete

Reconcile ==
  ReconcileFails \/ ReconcileNothing \/ ReconcileDeletion \/ ReconcileSpec

Call ==
  \/ ListChannels
  \/ ClearExisting
  \/ EndExisting
  \/ CreateChannel
  \/ GetAllPolicyIDs
  \/ Unlink
  \/ EndUnlink
  \/ Link
  \/ Save
  \/ DeleteChannel
  \/ Release

Next ==
  User \/ InformerSync \/ Resync \/ Crash \/ PolicyReady \/ Reconcile \/ Call

(* As for the other controllers; and the policies that a channel refers to  *)
(* are all reconciled in the end.                                          *)
Fairness ==
  /\ WF_vars(InformerSync)
  /\ WF_vars(Resync)
  /\ WF_vars(Call)
  /\ WF_vars(PolicyReady)
  /\ SF_vars(Reconcile)

Spec     == Init /\ [][Next]_vars
FairSpec == Spec /\ Fairness

-----------------------------------------------------------------------------
(* Safety.                                                                 *)

\* No reconcile undoes what a user did, though Update writes the spec, the
\* status and the metadata it read before its calls to New Relic: only users
\* change a spec, and only a deletion that they asked for removes the resource.
UserIntentSurvives ==
  [][userOps' = userOps /\ store # None =>
       IF store' = None THEN store.deleting
       ELSE store'.spec = store.spec /\ store'.deleting = store.deleting]_vars

\* A resource that records a channel leaves the cluster only when New Relic no
\* longer holds that channel, whatever else fails, as long as DeleteChannel
\* itself never does (its error is dropped).
NoRecordedLeak ==
  [][store # None /\ store' = None /\ store.id # None /\ "delete" \notin faults
       => channels[store.id] = None]_vars

\* The list, the deletions and the creation, each repeated after a crash, a lost
\* answer or a save that was refused, and with renames in between, never leave
\* two channels of one name in New Relic, unless one of the errors happened that
\* checkForExistingAlertsChannel only logs.
NoDuplicates ==
  faults \cap {"list", "secret", "deleteExisting"} = {} =>
    \A i, j \in Ids :
      channels[i] # None /\ channels[j] # None /\ channels[i].name = channels[j].name
        => i = j

\* A resource whose spec is applied, and that nothing failed for, has the channel
\* it records in New Relic (checkForExistingAlertsChannel deletes only those that
\* are not like the spec).
ChannelExists ==
  faults = {} /\ store # None /\ ~store.deleting /\ store.applied = store.spec
    => channels[store.id] # None

(* Liveness.                                                               *)

\* A resource being deleted is eventually gone, though its channel may be gone
\* already and the Update be refused.
DeletionCompletes ==
  store # None /\ store.deleting ~> store = None

\* Once the users and the faults stop, the status claims the spec for good: the
\* retries, of which each second one deletes the channel that the one before it
\* created, end when the policies have their ids.
EventuallyApplied ==
  <>[](store # None /\ ~store.deleting => store.applied = store.spec)

-----------------------------------------------------------------------------
(* The inductive invariant behind UserIntentSurvives and NoRecordedLeak.   *)

\* The copy is never newer than the resource, and one that is as new is equal.
CacheCoherent ==
  cache.rev <= revision /\ (cache.rev = revision => cache.object = store)

\* A worker whose Update would be accepted holds what the users last wrote, and
\* one that deletes the channel also the id that the resource records.
WorkerCoherent ==
  worker.pc # "idle" =>
    /\ worker.rev <= revision
    /\ worker.rev = revision =>
         /\ store # None
         /\ store.spec = worker.object.spec
         /\ store.deleting = worker.object.deleting
         /\ worker.pc \in {"delete", "release"} => store.id = worker.object.id

\* Only deletions remove the finalizer, and only once the channel is gone.
WorkerPhases ==
  /\ worker.pc \notin {"idle", "delete", "release"} =>
       worker.object.finalizer /\ ~worker.object.deleting
  /\ worker.pc \in {"delete", "release"} => worker.object.deleting
  /\ worker.pc = "release" /\ worker.object.id # None /\ "delete" \notin faults
       => channels[worker.object.id] = None

\* A recorded id comes with the finalizer.
FinalizerKept == store # None /\ store.id # None => store.finalizer

LeakInv == CacheCoherent /\ WorkerCoherent /\ WorkerPhases /\ FinalizerKept

-----------------------------------------------------------------------------
(* The inductive invariant behind NoDuplicates.                            *)

\* What still has the spec's name is on the list, and nothing has when a channel
\* is created.
Cleared ==
  faults \cap {"list", "secret", "deleteExisting"} = {}
    /\ worker.pc \in {"clear", "create"} =>
       \A i \in Ids : SameName(i, worker.object.spec) =>
         worker.pc = "clear" /\ i \in worker.found

NameInv == Cleared /\ NoDuplicates
=============================================================================
