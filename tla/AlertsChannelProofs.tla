------------------------- MODULE AlertsChannelProofs -------------------------
(* What is proved about AlertsChannelController for every set of names,    *)
(* configurations, policies and ids and every choice of faults.            *)
EXTENDS AlertsChannelController, TLAPS

\* What the worker reads and what a user writes is a well-formed resource.
LEMMA ObjectFields ==
  ASSUME NEW o \in Object
  PROVE  /\ o # None
         /\ \A b \in BOOLEAN : [o EXCEPT !.finalizer = b] \in Object
         /\ [o EXCEPT !.deleting = TRUE] \in Object
         /\ \A s \in ChannelSpec : [o EXCEPT !.spec = s] \in Object
         /\ \A i \in Ids : [o EXCEPT !.id = i] \in Object
         /\ [o EXCEPT !.applied = o.spec] \in Object
         /\ \A i \in Ids : [o EXCEPT !.id = i, !.applied = o.spec] \in Object
BY ConstantsAssumption DEF Object

LEMMA WorkerBusy ==
  ASSUME TypeOK, worker.pc # "idle"
  PROVE  /\ worker \in Busy
         /\ worker.object \in Object
         /\ worker.object.spec \in ChannelSpec
         /\ worker.rev \in Nat
<1>1. worker \in Busy
  BY DEF TypeOK, Idle
<1>2. QED
  BY <1>1 DEF Busy, Object

LEMMA AtType ==
  ASSUME NEW step \in Steps, NEW o \in Object, NEW rev \in Nat
  PROVE  At(step, o, rev) \in Busy
BY DEF At, Busy

-----------------------------------------------------------------------------
(* Type correctness.                                                       *)

LEMMA InitType == Init => TypeOK
<1> SUFFICES ASSUME Init PROVE TypeOK
  OBVIOUS
<1>1. channels \in [Ids -> Channel \cup {None}]
  BY ConstantsAssumption DEF Init
<1>2. QED
  BY <1>1 DEF Init, TypeOK

LEMMA UserType ==
  ASSUME TypeOK, User PROVE TypeOK'
<1>1. ASSUME NEW o \in Object \cup {None}, Put(o), UserOp PROVE TypeOK'
  BY <1>1 DEF TypeOK, Put, UserOp
<1>2. CASE UserCreate
  <2>1. PICK s \in Given :
          Put([spec |-> s, deleting |-> FALSE, finalizer |-> FALSE, id |-> None,
               applied |-> Nothing])
    BY <1>2 DEF UserCreate
  <2>2. s \in ChannelSpec
    BY ConstantsAssumption
  <2>3. [spec |-> s, deleting |-> FALSE, finalizer |-> FALSE, id |-> None,
         applied |-> Nothing] \in Object
    BY <2>2 DEF Object
  <2>4. QED
    BY <1>1, <1>2, <2>1, <2>3 DEF UserCreate
<1>3. CASE UserEdit
  <2>1. PICK edit \in Edits : Put([store EXCEPT !.spec = edit[2]])
    BY <1>3 DEF UserEdit
  <2>2. edit[2] \in ChannelSpec
    BY ConstantsAssumption
  <2>3. store \in Object
    BY <1>3 DEF UserEdit, TypeOK
  <2>4. [store EXCEPT !.spec = edit[2]] \in Object
    BY <2>2, <2>3, ObjectFields
  <2>5. QED
    BY <1>1, <1>3, <2>1, <2>4 DEF UserEdit
<1>4. CASE UserDelete
  <2>1. store \in Object
    BY <1>4 DEF UserDelete, TypeOK
  <2>2. [store EXCEPT !.deleting = TRUE] \in Object
    BY <2>1, ObjectFields
  <2>3. PICK o \in Object \cup {None} : Put(o)
    BY <1>4, <2>2 DEF UserDelete
  <2>4. QED
    BY <1>1, <1>4, <2>3 DEF UserDelete
<1>5. QED
  BY <1>2, <1>3, <1>4 DEF User

LEMMA ManagerType ==
  ASSUME TypeOK, InformerSync \/ Resync \/ Crash \/ PolicyReady PROVE TypeOK'
<1>1. CASE InformerSync
  BY <1>1 DEF InformerSync, TypeOK, cluster
<1>2. CASE Resync
  BY <1>2 DEF Resync, TypeOK, cluster
<1>3. CASE Crash
  BY <1>3 DEF Crash, Fault, TypeOK, cluster
<1>4. CASE PolicyReady
  BY <1>4 DEF PolicyReady, TypeOK, cluster
<1>5. QED
  BY <1>1, <1>2, <1>3, <1>4

LEMMA ReconcileType ==
  ASSUME TypeOK, Reconcile PROVE TypeOK'
<1>1. CASE ReconcileFails
  BY <1>1 DEF ReconcileFails, Fault, TypeOK, cluster
<1>2. CASE ReconcileNothing
  BY <1>2 DEF ReconcileNothing, TypeOK, cluster
<1>3. ASSUME NEW step \in Steps, NEW o \in Object, Begin(step, o)
      PROVE  TypeOK'
  <2>1. At(step, o, cache.rev) \in Busy
    BY AtType DEF TypeOK
  <2>2. QED
    BY <1>3, <2>1 DEF Begin, TypeOK, cluster
<1>4. ASSUME ~NothingToDo(cache.object) PROVE cache.object \in Object
  BY <1>4 DEF NothingToDo, TypeOK
<1>5. CASE ReconcileDeletion
  <2>1. [cache.object EXCEPT !.finalizer = FALSE] \in Object
    BY <1>4, <1>5, ObjectFields DEF ReconcileDeletion
  <2>2. PICK step \in Steps :
          Begin(step, [cache.object EXCEPT !.finalizer = FALSE])
    BY <1>5 DEF ReconcileDeletion, Steps
  <2>3. QED
    BY <1>3, <2>1, <2>2
<1>6. CASE ReconcileSpec
  <2>1. [cache.object EXCEPT !.finalizer = TRUE] \in Object
    BY <1>4, <1>6, ObjectFields DEF ReconcileSpec
  <2>2. QED
    BY <1>3, <1>6, <2>1 DEF ReconcileSpec, Steps
<1>7. QED
  BY <1>1, <1>2, <1>5, <1>6 DEF Reconcile

\* A step of the worker that writes no resource.
LEMMA WorkerStepType ==
  ASSUME TypeOK, worker' \in Busy \cup {Idle},
         channels' \in [Ids -> Channel \cup {None}],
         queued' = queued \/ queued' = TRUE,
         faults' = faults \/ \E kind \in AllFaults : Fault(kind),
         UNCHANGED <<cluster, cache, ready, userOps>>
  PROVE  TypeOK'
BY DEF TypeOK, Fault, cluster

LEMMA ListType ==
  ASSUME TypeOK, ListChannels \/ ClearExisting \/ EndExisting PROVE TypeOK'
<1>1. worker \in Busy /\ worker.object \in Object /\ worker.rev \in Nat
  BY WorkerBusy DEF ListChannels, ClearExisting, EndExisting
<1>2. \A step \in Steps : At(step, worker.object, worker.rev) \in Busy
  BY <1>1, AtType
<1>3. CASE ListChannels
  <2>1. [At("clear", worker.object, worker.rev) EXCEPT
           !.found = {i \in Ids : SameName(i, worker.object.spec)}] \in Busy
    <3>1. At("clear", worker.object, worker.rev) \in Busy
      BY <1>2 DEF Steps
    <3>2. {i \in Ids : SameName(i, worker.object.spec)} \in SUBSET Ids
      OBVIOUS
    <3>3. QED
      BY <3>1, <3>2 DEF Busy
  <2>2. worker' \in Busy
    BY <1>2, <1>3, <2>1 DEF ListChannels, Go, Steps
  <2>3. faults' = faults \/ \E kind \in AllFaults : Fault(kind)
    BY <1>3 DEF ListChannels, AllFaults
  <2>4. QED
    BY <1>3, <2>2, <2>3, WorkerStepType DEF ListChannels, TypeOK
<1>4. CASE ClearExisting
  <2>1. PICK i \in worker.found :
          /\ \/ worker' = [worker EXCEPT !.found = @ \ {i}]
             \/ worker' = [[worker EXCEPT !.found = @ \ {i}]
                             EXCEPT !.object = Adopt(@, i)]
          /\ channels' = channels \/ channels' = [channels EXCEPT ![i] = None]
          /\ faults' = faults \/ Fault("deleteExisting") \/ Fault("secret")
    BY <1>4 DEF ClearExisting
  <2>2. i \in Ids
    BY <1>1 DEF Busy
  <2>3. Adopt(worker.object, i) \in Object
    BY <1>1, <2>2, ObjectFields DEF Adopt
  <2>4. [worker EXCEPT !.found = @ \ {i}] \in Busy
    BY <1>1 DEF Busy
  <2>5. [[worker EXCEPT !.found = @ \ {i}] EXCEPT !.object = Adopt(@, i)] \in Busy
    BY <1>1, <2>3, <2>4 DEF Busy
  <2>6. channels' \in [Ids -> Channel \cup {None}]
    BY <2>1 DEF TypeOK
  <2>7. faults' = faults \/ \E kind \in AllFaults : Fault(kind)
    BY <2>1 DEF AllFaults
  <2>8. QED
    BY <1>4, <2>1, <2>4, <2>5, <2>6, <2>7, WorkerStepType DEF ClearExisting
<1>5. CASE EndExisting
  BY <1>2, <1>5, WorkerStepType DEF EndExisting, Go, Steps, TypeOK
<1>6. QED
  BY <1>3, <1>4, <1>5

LEMMA FreshIdType ==
  ASSUME Ids \ Remembered # {}
  PROVE  /\ FreshId \in Ids
         /\ channels[FreshId] = None
BY DEF FreshId, Remembered

LEMMA CreateType ==
  ASSUME TypeOK, CreateChannel PROVE TypeOK'
<1>1. /\ worker \in Busy /\ worker.object \in Object /\ worker.rev \in Nat
      /\ worker.object.spec \in ChannelSpec
  BY WorkerBusy DEF CreateChannel
<1>2. [worker.object.spec EXCEPT !.links = {}] \in Channel
  BY <1>1 DEF Channel, ChannelSpec
<1>3. channels' \in [Ids -> Channel \cup {None}]
  BY <1>2 DEF CreateChannel, NewChannel, TypeOK
<1>4. worker' \in Busy \cup {Idle}
  <2>1. CASE Fail
    BY <2>1 DEF Fail
  <2>2. CASE /\ NewChannel(worker.object.spec)
             /\ Go("policies", [worker.object EXCEPT !.id = FreshId])
    <3>1. [worker.object EXCEPT !.id = FreshId] \in Object
      BY <1>1, <2>2, FreshIdType, ObjectFields DEF NewChannel
    <3>2. QED
      BY <1>1, <2>2, <3>1, AtType DEF Go, Steps
  <2>3. QED
    BY <2>1, <2>2 DEF CreateChannel
<1>5. faults' = faults \/ \E kind \in AllFaults : Fault(kind)
  BY DEF CreateChannel, AllFaults
<1>6. queued' = queued \/ queued' = TRUE
  BY DEF CreateChannel, Fail
<1>7. QED
  BY <1>3, <1>4, <1>5, <1>6, WorkerStepType DEF CreateChannel

LEMMA PoliciesType ==
  ASSUME TypeOK, GetAllPolicyIDs PROVE TypeOK'
<1> DEFINE object == worker.object
           next == [worker EXCEPT
                      !.pc     = "unlink",
                      !.remove = object.applied.links \ object.spec.links,
                      !.add    = object.spec.links \ object.applied.links]
<1>1. worker \in Busy /\ object \in Object
  BY WorkerBusy DEF GetAllPolicyIDs
<1>2. object.applied.links \subseteq Policies /\ object.spec.links \subseteq Policies
  BY <1>1 DEF Object, ChannelSpec, Nothing
<1>3. next \in Busy
  BY <1>1, <1>2 DEF Busy, Steps
<1>4. worker' = next \/ worker' = Idle
  BY DEF GetAllPolicyIDs, Fail
<1>5. /\ faults' = faults \/ \E kind \in AllFaults : Fault(kind)
      /\ queued' = queued \/ queued' = TRUE
      /\ channels' \in [Ids -> Channel \cup {None}]
      /\ UNCHANGED <<cluster, cache, ready, userOps>>
  BY DEF GetAllPolicyIDs, Fail, AllFaults, TypeOK
<1>6. QED
  BY <1>3, <1>4, <1>5, WorkerStepType

\* A call on the links changes nothing but the links of the worker's channel.
LEMMA RelinkType ==
  ASSUME TypeOK, worker.pc # "idle", NEW links,
         worker.object.id \in Ids /\ channels[worker.object.id] # None
           => links \subseteq Policies,
         Relink(links)
  PROVE  /\ channels' \in [Ids -> Channel \cup {None}]
         /\ \A i \in Ids : channels[i] = None => channels'[i] = None
         /\ faults' = faults \/ Fault("link")
<1> DEFINE i == worker.object.id
<1>1. i \in Ids \cup {None}
  BY WorkerBusy DEF Object
<1>2. CASE UNCHANGED channels
  BY <1>2 DEF TypeOK, Relink
<1>3. CASE i \in Ids /\ channels[i] # None
           /\ channels' = [channels EXCEPT ![i].links = links]
  <2>1. channels[i] \in Channel
    BY <1>3 DEF TypeOK
  <2>2. [channels[i] EXCEPT !.links = links] \in Channel
    BY <1>3, <2>1 DEF Channel, ChannelSpec
  <2>3. channels' = [channels EXCEPT ![i] = [channels[i] EXCEPT !.links = links]]
    BY <1>3
  <2>4. QED
    BY <1>3, <2>2, <2>3 DEF TypeOK, Relink
<1>4. CASE i \notin Ids /\ channels' = [channels EXCEPT ![i].links = links]
  <2>1. channels' = channels
    BY <1>4 DEF TypeOK
  <2>2. QED
    BY <1>2, <2>1
<1>5. QED
  BY <1>2, <1>3, <1>4 DEF Relink

LEMMA LinkType ==
  ASSUME TypeOK, Unlink \/ EndUnlink \/ Link PROVE TypeOK'
<1>1. /\ worker \in Busy /\ worker.pc # "idle"
      /\ worker.object.id \in Ids \cup {None}
  BY WorkerBusy DEF Unlink, EndUnlink, Link, Object
<1>2. CASE EndUnlink
  <2>1. [worker EXCEPT !.pc = "link"] \in Busy
    BY <1>1 DEF Busy, Steps
  <2>2. QED
    BY <1>2, <2>1, WorkerStepType DEF EndUnlink, TypeOK
<1>3. ASSUME NEW links,
             worker.object.id \in Ids /\ channels[worker.object.id] # None
               => links \subseteq Policies,
             Relink(links), worker' \in Busy,
             UNCHANGED <<cluster, cache, queued, ready, userOps>>
      PROVE  TypeOK'
  BY <1>1, <1>3, RelinkType, WorkerStepType DEF AllFaults
<1>4. ASSUME worker.object.id \in Ids, channels[worker.object.id] # None
      PROVE  channels[worker.object.id].links \subseteq Policies
  BY <1>4 DEF TypeOK, Channel, ChannelSpec
<1>5. CASE Unlink
  <2>1. PICK p \in worker.remove :
          /\ worker' = [worker EXCEPT !.remove = @ \ {p}]
          /\ Relink(channels[worker.object.id].links \ {p})
    BY <1>5 DEF Unlink
  <2>2. [worker EXCEPT !.remove = @ \ {p}] \in Busy
    BY <1>1 DEF Busy
  <2>3. QED
    BY <1>3, <1>4, <1>5, <2>1, <2>2 DEF Unlink
<1>6. CASE Link
  <2>1. PICK p \in worker.add :
          /\ worker' = [worker EXCEPT !.add = @ \ {p}]
          /\ Relink(channels[worker.object.id].links \cup {p})
    BY <1>6 DEF Link
  <2>2. p \in Policies /\ [worker EXCEPT !.add = @ \ {p}] \in Busy
    BY <1>1 DEF Busy
  <2>3. QED
    BY <1>3, <1>4, <1>6, <2>1, <2>2 DEF Link
<1>7. QED
  BY <1>2, <1>5, <1>6

LEMMA SaveType ==
  ASSUME TypeOK, Save \/ Release PROVE TypeOK'
<1>1. worker.object \in Object
  BY WorkerBusy DEF Save, Release
<1>2. [worker.object EXCEPT !.applied = worker.object.spec] \in Object
  BY <1>1, ObjectFields
<1>3. store' \in Object \cup {None} /\ revision' \in Nat
  BY <1>2 DEF Save, Release, Put, TypeOK, cluster
<1>4. faults' \subseteq FaultKinds
  BY DEF Save, Release, Fault, TypeOK
<1>5. worker' = Idle /\ queued' \in BOOLEAN
  BY DEF Save, Release, Return, Fail, TypeOK
<1>6. QED
  BY <1>3, <1>4, <1>5 DEF Save, Release, TypeOK

LEMMA DeleteType ==
  ASSUME TypeOK, DeleteChannel PROVE TypeOK'
<1>1. worker.object \in Object /\ worker.rev \in Nat
  BY WorkerBusy DEF DeleteChannel
<1>2. At("release", worker.object, worker.rev) \in Busy
  BY <1>1, AtType DEF Steps
<1>3. worker' \in Busy \cup {Idle} /\ (queued' = queued \/ queued' = TRUE)
  BY <1>2 DEF DeleteChannel, AfterDelete, Go, Fail
<1>4. channels' \in [Ids -> Channel \cup {None}]
  BY DEF DeleteChannel, TypeOK
<1>5. faults' = faults \/ \E kind \in AllFaults : Fault(kind)
  BY DEF DeleteChannel, AllFaults
<1>6. QED
  BY <1>3, <1>4, <1>5, WorkerStepType DEF DeleteChannel

LEMMA StepType ==
  ASSUME TypeOK, [Next]_vars PROVE TypeOK'
<1>1. CASE UNCHANGED vars
  BY <1>1 DEF TypeOK, vars
<1>2. QED
  BY <1>1, UserType, ManagerType, ReconcileType, ListType, CreateType,
     PoliciesType, LinkType, SaveType, DeleteType DEF Next, Call

\* Every variable of the channel reconciler stays in its type.
THEOREM TypeCorrect == Spec => []TypeOK
BY InitType, StepType, PTL DEF Spec

-----------------------------------------------------------------------------
(* The inductive invariant.                                                *)

LEMMA InitLeak == Init => LeakInv
BY DEF Init, LeakInv, CacheCoherent, WorkerCoherent, WorkerPhases,
       FinalizerKept, Idle

\* Edits and deletions give the resource a new revision, and keep its id.
LEMMA UserLeak ==
  ASSUME TypeOK, LeakInv, User PROVE LeakInv'
<1>1. /\ revision' = revision + 1
      /\ UNCHANGED <<cache, worker, channels, faults>>
  BY DEF User, UserCreate, UserEdit, UserDelete, UserOp, Put
<1>2. revision \in Nat /\ cache.rev \in Nat
  BY DEF TypeOK
<1>3. CacheCoherent'
  BY <1>1, <1>2 DEF LeakInv, CacheCoherent
<1>4. WorkerCoherent'
  <2>1. ASSUME worker.pc # "idle" PROVE worker.rev \in Nat
    BY <2>1, WorkerBusy
  <2>2. QED
    BY <1>1, <1>2, <2>1 DEF LeakInv, WorkerCoherent
<1>5. WorkerPhases'
  BY <1>1 DEF LeakInv, WorkerPhases
<1>6. FinalizerKept'
  <2>1. CASE UserCreate
    BY <2>1 DEF UserCreate, Put, FinalizerKept
  <2>2. ASSUME store # None
        PROVE  /\ \A s : /\ [store EXCEPT !.spec = s].id = store.id
                         /\ [store EXCEPT !.spec = s].finalizer = store.finalizer
               /\ [store EXCEPT !.deleting = TRUE].id = store.id
               /\ [store EXCEPT !.deleting = TRUE].finalizer = store.finalizer
    BY <2>2 DEF TypeOK, Object
  <2>3. CASE UserEdit
    <3>1. PICK s : store' = [store EXCEPT !.spec = s]
      BY <2>3 DEF UserEdit, Put
    <3>2. QED
      BY <2>2, <2>3, <3>1 DEF UserEdit, LeakInv, FinalizerKept
  <2>4. CASE UserDelete
    BY <2>2, <2>4 DEF UserDelete, Put, LeakInv, FinalizerKept
  <2>5. QED
    BY <2>1, <2>3, <2>4 DEF User
<1>7. QED
  BY <1>3, <1>4, <1>5, <1>6 DEF LeakInv

LEMMA ManagerLeak ==
  ASSUME TypeOK, LeakInv, InformerSync \/ Resync \/ Crash \/ PolicyReady
  PROVE  LeakInv'
<1>1. UNCHANGED <<store, revision, channels>> /\ revision \in Nat
  BY DEF InformerSync, Resync, Crash, PolicyReady, cluster, TypeOK
<1>2. CacheCoherent'
  BY <1>1 DEF InformerSync, Resync, Crash, PolicyReady, LeakInv, CacheCoherent
<1>3. CASE worker' = worker /\ faults' = faults
  BY <1>1, <1>2, <1>3
  DEF LeakInv, WorkerCoherent, WorkerPhases, FinalizerKept
<1>4. CASE worker' = Idle
  BY <1>1, <1>2, <1>4
  DEF LeakInv, WorkerCoherent, WorkerPhases, FinalizerKept, Idle
<1>5. QED
  BY <1>3, <1>4 DEF InformerSync, Resync, Crash, PolicyReady

\* A reconcile begins from a copy that is the resource, or one too old to save.
LEMMA ReconcileLeak ==
  ASSUME TypeOK, LeakInv, Reconcile PROVE LeakInv'
<1>1. UNCHANGED <<store, revision, cache, channels>>
  BY DEF Reconcile, ReconcileFails, ReconcileNothing, ReconcileDeletion,
         ReconcileSpec, Begin, cluster
<1>2. CASE worker' = worker /\ worker.pc = "idle"
  BY <1>1, <1>2
  DEF LeakInv, CacheCoherent, WorkerCoherent, WorkerPhases, FinalizerKept
<1>3. ASSUME ~NothingToDo(cache.object), NEW b \in BOOLEAN
      PROVE  /\ cache.object # None
             /\ [cache.object EXCEPT !.finalizer = b].spec = cache.object.spec
             /\ [cache.object EXCEPT !.finalizer = b].deleting = cache.object.deleting
             /\ [cache.object EXCEPT !.finalizer = b].id = cache.object.id
             /\ [cache.object EXCEPT !.finalizer = b].finalizer = b
  BY <1>3 DEF NothingToDo, TypeOK, Object
<1>4. ASSUME ReconcileDeletion \/ ReconcileSpec
      PROVE  /\ worker'.pc \in {"list", "delete", "release"}
             /\ worker'.rev = cache.rev
             /\ worker'.object.spec = cache.object.spec
             /\ worker'.object.deleting = cache.object.deleting
             /\ worker'.object.id = cache.object.id
             /\ cache.object # None
             /\ worker'.pc \in {"delete", "release"} => cache.object.deleting
             /\ worker'.pc = "release" => cache.object.id = None
             /\ worker'.pc = "list" =>
                  worker'.object.finalizer /\ ~cache.object.deleting
  <2>1. CASE ReconcileDeletion
    BY <1>3, <2>1 DEF ReconcileDeletion, Begin, At, HasChannel
  <2>2. CASE ReconcileSpec
    BY <1>3, <2>2 DEF ReconcileSpec, Begin, At
  <2>3. QED
    BY <1>4, <2>1, <2>2
<1>5. CASE ReconcileDeletion \/ ReconcileSpec
  <2>1. CacheCoherent' /\ FinalizerKept'
    BY <1>1 DEF LeakInv, CacheCoherent, FinalizerKept
  <2>2. WorkerCoherent'
    BY <1>1, <1>4, <1>5 DEF LeakInv, CacheCoherent, WorkerCoherent
  <2>3. WorkerPhases'
    BY <1>4, <1>5 DEF WorkerPhases
  <2>4. QED
    BY <2>1, <2>2, <2>3 DEF LeakInv
<1>6. QED
  BY <1>2, <1>5 DEF Reconcile, ReconcileFails, ReconcileNothing, Ready

Making == {"list", "clear", "create", "policies", "unlink", "link"}

\* A step of a reconcile that deletes nothing: the local copy's spec and
\* metadata stay.
LEMMA MakingLeak ==
  ASSUME LeakInv, worker.pc \in Making, UNCHANGED <<cluster, cache>>,
         \/ worker' = Idle
         \/ /\ worker'.pc \in Making
            /\ worker'.rev = worker.rev
            /\ worker'.object.spec = worker.object.spec
            /\ worker'.object.deleting = worker.object.deleting
            /\ worker'.object.finalizer = worker.object.finalizer
  PROVE  LeakInv'
BY DEF LeakInv, CacheCoherent, WorkerCoherent, WorkerPhases, FinalizerKept,
       Idle, Making, cluster

LEMMA MakingCalls ==
  ASSUME TypeOK, LeakInv,
         \/ ListChannels \/ ClearExisting \/ EndExisting \/ CreateChannel
         \/ GetAllPolicyIDs \/ Unlink \/ EndUnlink \/ Link
  PROVE  LeakInv'
<1>1. /\ worker \in Busy /\ worker.object \in Object
      /\ worker.pc \in Making
      /\ UNCHANGED <<cluster, cache>>
  BY WorkerBusy
  DEF Making, ListChannels, ClearExisting, EndExisting, CreateChannel,
      GetAllPolicyIDs, Unlink, EndUnlink, Link
<1>2. \A i \in Ids :
        /\ [worker.object EXCEPT !.id = i].spec = worker.object.spec
        /\ [worker.object EXCEPT !.id = i].deleting = worker.object.deleting
        /\ [worker.object EXCEPT !.id = i].finalizer = worker.object.finalizer
        /\ Adopt(worker.object, i).spec = worker.object.spec
        /\ Adopt(worker.object, i).deleting = worker.object.deleting
        /\ Adopt(worker.object, i).finalizer = worker.object.finalizer
  BY <1>1 DEF Object, Adopt
<1>3. ASSUME ListChannels \/ EndExisting
      PROVE  /\ worker'.pc \in Making
             /\ worker'.rev = worker.rev
             /\ worker'.object = worker.object
  BY <1>3 DEF ListChannels, EndExisting, Go, At, Making
<1>4. ASSUME ClearExisting
      PROVE  /\ worker'.pc = worker.pc
             /\ worker'.rev = worker.rev
             /\ \/ worker'.object = worker.object
                \/ \E i \in Ids : worker'.object = Adopt(worker.object, i)
  <2>1. PICK i \in worker.found :
          \/ worker' = [worker EXCEPT !.found = @ \ {i}]
          \/ worker' = [[worker EXCEPT !.found = @ \ {i}]
                          EXCEPT !.object = Adopt(@, i)]
    BY <1>4 DEF ClearExisting
  <2>2. QED
    BY <1>1, <2>1 DEF Busy
<1>5. ASSUME CreateChannel
      PROVE  \/ worker' = Idle
             \/ /\ worker'.pc = "policies"
                /\ worker'.rev = worker.rev
                /\ \E i \in Ids : worker'.object = [worker.object EXCEPT !.id = i]
  BY <1>5, FreshIdType DEF CreateChannel, NewChannel, Fail, Go, At
<1>6. ASSUME GetAllPolicyIDs \/ Unlink \/ EndUnlink \/ Link
      PROVE  \/ worker' = Idle
             \/ /\ worker'.pc \in Making
                /\ worker'.rev = worker.rev
                /\ worker'.object = worker.object
  BY <1>1, <1>6
  DEF GetAllPolicyIDs, Unlink, EndUnlink, Link, Fail, Busy, Making
<1>7. QED
  BY <1>1, <1>2, <1>3, <1>4, <1>5, <1>6, MakingLeak DEF Making

\* DeleteChannel: the finalizer goes when the channel is gone, or when the call
\* failed.
LEMMA DeleteLeak ==
  ASSUME TypeOK, LeakInv, DeleteChannel PROVE LeakInv'
<1> DEFINE i == worker.object.id
<1>1. /\ worker.pc = "delete"
      /\ i \in Ids \cup {None}
      /\ UNCHANGED <<store, revision, cache>>
  BY WorkerBusy DEF DeleteChannel, cluster, Object
<1>2. CASE worker' = Idle
  BY <1>1, <1>2
  DEF LeakInv, CacheCoherent, WorkerCoherent, WorkerPhases, FinalizerKept, Idle
<1>3. CASE Go("release", worker.object)
  <2>1. /\ worker'.pc = "release"
        /\ worker'.rev = worker.rev
        /\ worker'.object = worker.object
    BY <1>3 DEF Go, At
  <2>2. i # None /\ "delete" \notin faults' => channels'[i] = None
    BY <1>1 DEF DeleteChannel, Fault, TypeOK
  <2>3. QED
    BY <1>1, <2>1, <2>2
    DEF LeakInv, CacheCoherent, WorkerCoherent, WorkerPhases, FinalizerKept
<1>4. QED
  BY <1>2, <1>3 DEF DeleteChannel, AfterDelete, Fail

LEMMA WriteLeak ==
  ASSUME TypeOK, LeakInv, Save \/ Release PROVE LeakInv'
<1>1. worker' = Idle /\ UNCHANGED <<cache, channels>>
  BY DEF Save, Release, Return, Fail
<1>2. WorkerCoherent' /\ WorkerPhases'
  BY <1>1 DEF WorkerCoherent, WorkerPhases, Idle
<1>3. CASE UNCHANGED cluster
  BY <1>1, <1>2, <1>3 DEF LeakInv, CacheCoherent, FinalizerKept, cluster
<1>4. ASSUME revision' = revision + 1 PROVE CacheCoherent'
  BY <1>1, <1>4 DEF LeakInv, CacheCoherent, TypeOK
<1>5. CASE Save /\ Put([worker.object EXCEPT !.applied = worker.object.spec])
  <2>1. worker.object \in Object /\ worker.object.finalizer
    BY <1>5, WorkerBusy DEF Save, LeakInv, WorkerPhases
  <2>2. [worker.object EXCEPT !.applied = worker.object.spec].finalizer
    BY <2>1 DEF Object
  <2>3. FinalizerKept'
    BY <1>5, <2>2 DEF Put, FinalizerKept
  <2>4. QED
    BY <1>2, <1>4, <1>5, <2>3 DEF Put, LeakInv
<1>6. CASE Release /\ Put(None)
  BY <1>2, <1>4, <1>6 DEF Put, LeakInv, FinalizerKept
<1>7. QED
  BY <1>3, <1>5, <1>6 DEF Save, Release

LEMMA StepLeak ==
  ASSUME TypeOK, LeakInv, [Next]_vars PROVE LeakInv'
<1>1. CASE UNCHANGED vars
  BY <1>1 DEF vars, LeakInv, CacheCoherent, WorkerCoherent, WorkerPhases,
              FinalizerKept
<1>2. QED
  BY <1>1, UserLeak, ManagerLeak, ReconcileLeak, MakingCalls, DeleteLeak,
     WriteLeak DEF Next, Call

\* The resource, its cached copy, the worker's copy and New Relic stay related
\* as LeakInv says, in every interleaving of users, informer, worker, faults
\* and crashes.
THEOREM LeakInvariant == Spec => []LeakInv
BY InitLeak, StepLeak, TypeCorrect, PTL DEF Spec

-----------------------------------------------------------------------------
(* What follows from it.                                                   *)

\* Who writes the resource.
LEMMA Writers ==
  ASSUME [Next]_vars
  PROVE  \/ UNCHANGED store
         \/ User
         \/ /\ Save /\ ~Conflict
            /\ store' = [worker.object EXCEPT !.applied = worker.object.spec]
         \/ /\ Release /\ ~Conflict /\ store' = None
            /\ UNCHANGED <<channels, faults>>
BY DEF Next, vars, InformerSync, Resync, Crash, PolicyReady, Reconcile,
       ReconcileFails, ReconcileNothing, ReconcileDeletion, ReconcileSpec,
       Begin, Call, ListChannels, ClearExisting, EndExisting, CreateChannel,
       GetAllPolicyIDs, Unlink, EndUnlink, Link, Save, DeleteChannel, Release,
       Put, cluster

\* Save and Release write what the users last wrote.
LEMMA StepIntent ==
  ASSUME TypeOK, LeakInv, [Next]_vars, userOps' = userOps, store # None
  PROVE  IF store' = None THEN store.deleting
         ELSE store'.spec = store.spec /\ store'.deleting = store.deleting
<1>1. ~User
  BY DEF User, UserCreate, UserEdit, UserDelete, UserOp, TypeOK
<1>2. CASE UNCHANGED store
  BY <1>2
<1>3. CASE /\ Save /\ ~Conflict
           /\ store' = [worker.object EXCEPT !.applied = worker.object.spec]
  <2>1. /\ worker.object \in Object
        /\ store.spec = worker.object.spec
        /\ store.deleting = worker.object.deleting
    BY <1>3, WorkerBusy DEF Save, Conflict, LeakInv, WorkerCoherent
  <2>2. /\ [worker.object EXCEPT !.applied = worker.object.spec] # None
        /\ [worker.object EXCEPT !.applied = worker.object.spec].spec
             = worker.object.spec
        /\ [worker.object EXCEPT !.applied = worker.object.spec].deleting
             = worker.object.deleting
    <3>1. [worker.object EXCEPT !.applied = worker.object.spec] \in Object
      BY <2>1, ObjectFields
    <3>2. QED
      BY <2>1, <3>1, ObjectFields DEF Object
  <2>3. QED
    BY <1>3, <2>1, <2>2
<1>4. CASE Release /\ ~Conflict /\ store' = None
  BY <1>4 DEF Release, Conflict, LeakInv, WorkerCoherent, WorkerPhases
<1>5. QED
  BY <1>1, <1>2, <1>3, <1>4, Writers

\* Whatever the worker read before a user changed the resource, it never undoes
\* what the user did.
THEOREM IntentSurvives == Spec => UserIntentSurvives
<1>1. TypeOK /\ LeakInv /\ [Next]_vars
        => [userOps' = userOps /\ store # None =>
              IF store' = None THEN store.deleting
              ELSE store'.spec = store.spec /\ store'.deleting = store.deleting]_vars
  BY StepIntent
<1>2. QED
  BY <1>1, TypeCorrect, LeakInvariant, PTL DEF Spec, UserIntentSurvives

\* Whoever removes the resource leaves no channel that it records.
LEMMA StepNoLeak ==
  ASSUME TypeOK, LeakInv, [Next]_vars, store # None, store' = None,
         store.id # None, "delete" \notin faults
  PROVE  channels[store.id] = None
<1>1. CASE User
  <2>1. store.finalizer /\ store \in Object
    BY DEF LeakInv, FinalizerKept, TypeOK
  <2>2. [store EXCEPT !.deleting = TRUE] # None
    <3>1. [store EXCEPT !.deleting = TRUE] \in Object
      BY <2>1, ObjectFields
    <3>2. QED
      BY <3>1, ConstantsAssumption
  <2>3. \A edit \in Edits : [store EXCEPT !.spec = edit[2]] # None
    <3>1. ASSUME NEW edit \in Edits
          PROVE  [store EXCEPT !.spec = edit[2]] \in Object
      BY <2>1, ObjectFields, ConstantsAssumption
    <3>2. QED
      BY <3>1, ConstantsAssumption
  <2>4. QED
    BY <1>1, <2>1, <2>2, <2>3 DEF User, UserCreate, UserEdit, UserDelete, Put
<1>2. CASE Release /\ ~Conflict
  BY <1>2 DEF Release, Conflict, LeakInv, WorkerCoherent, WorkerPhases
<1>3. CASE /\ Save /\ ~Conflict
           /\ store' = [worker.object EXCEPT !.applied = worker.object.spec]
  BY <1>3, WorkerBusy, ObjectFields DEF Save
<1>4. QED
  BY <1>1, <1>2, <1>3, Writers

\* A channel that a resource records never outlives it, in any interleaving and
\* with any faults but a failure of the deletion call itself.
THEOREM NoLeak == Spec => NoRecordedLeak
<1>1. TypeOK /\ LeakInv /\ [Next]_vars
        => [store # None /\ store' = None /\ store.id # None
              /\ "delete" \notin faults => channels[store.id] = None]_vars
  BY StepNoLeak
<1>2. QED
  BY <1>1, TypeCorrect, LeakInvariant, PTL DEF Spec, NoRecordedLeak

-----------------------------------------------------------------------------
(* One channel of each name.                                               *)

\* A channel keeps its name, and faults are not forgotten.
NamesKept ==
  /\ faults \subseteq faults'
  /\ \A i \in Ids : channels'[i] # None =>
       channels[i] # None /\ channels'[i].name = channels[i].name

\* A step that creates no channel and is not between the list and the creation.
LEMMA OutsideNames ==
  ASSUME NameInv, NamesKept, worker'.pc \notin {"clear", "create"}
  PROVE  NameInv'
<1>1. NoDuplicates'
  BY DEF NameInv, NoDuplicates, NamesKept
<1>2. QED
  BY <1>1 DEF NameInv, Cleared

\* One that leaves the worker and New Relic alone.
LEMMA AsideNames ==
  ASSUME NameInv, UNCHANGED <<worker, channels>>, faults \subseteq faults'
  PROVE  NameInv'
BY DEF NameInv, Cleared, NoDuplicates, SameName

LEMMA FaultGrows ==
  ASSUME NEW kind, Fault(kind)
  PROVE  faults \subseteq faults' /\ kind \in faults'
BY DEF Fault

LEMMA ListNames ==
  ASSUME TypeOK, NameInv, ListChannels PROVE NameInv'
<1>1. faults \subseteq faults' /\ UNCHANGED channels
  BY FaultGrows DEF ListChannels
<1>2. CASE Fault("list")
  BY <1>1, <1>2, FaultGrows DEF NameInv, Cleared, NoDuplicates
<1>3. CASE worker' = [At("clear", worker.object, worker.rev) EXCEPT
                        !.found = {i \in Ids : SameName(i, worker.object.spec)}]
  <2>1. /\ worker'.pc = "clear"
        /\ worker'.object = worker.object
        /\ worker'.found = {i \in Ids : SameName(i, worker.object.spec)}
    BY <1>3 DEF At
  <2>2. QED
    BY <1>1, <2>1 DEF NameInv, Cleared, NoDuplicates, SameName
<1>4. QED
  BY <1>2, <1>3 DEF ListChannels

\* What leaves the list is deleted, or an error happened.
LEMMA ClearNames ==
  ASSUME TypeOK, NameInv, ClearExisting PROVE NameInv'
<1>1. worker \in Busy /\ worker.object \in Object /\ worker.pc = "clear"
  BY WorkerBusy DEF ClearExisting
<1>2. PICK i \in worker.found :
        /\ \/ worker' = [worker EXCEPT !.found = @ \ {i}]
           \/ worker' = [[worker EXCEPT !.found = @ \ {i}]
                           EXCEPT !.object = Adopt(@, i)]
        /\ \/ /\ channels' = [channels EXCEPT ![i] = None]
              /\ UNCHANGED faults
           \/ Fault("deleteExisting") /\ UNCHANGED channels
           \/ Fault("secret") /\ UNCHANGED channels
  BY DEF ClearExisting
<1>3. /\ worker'.pc = "clear"
      /\ worker'.object.spec = worker.object.spec
      /\ worker'.found = worker.found \ {i}
  <2>1. Adopt(worker.object, i).spec = worker.object.spec
    BY <1>1 DEF Object, Adopt
  <2>2. QED
    BY <1>1, <1>2, <2>1 DEF Busy
<1>4. i \in Ids /\ channels \in [Ids -> Channel \cup {None}]
  BY <1>1, <1>2 DEF Busy, TypeOK
<1>5. NamesKept
  BY <1>2, <1>4, FaultGrows DEF NamesKept
<1>6. NoDuplicates'
  BY <1>5 DEF NameInv, NoDuplicates, NamesKept
<1>7. Cleared'
  <2>1. CASE channels' = [channels EXCEPT ![i] = None] /\ UNCHANGED faults
    BY <1>1, <1>3, <1>4, <2>1 DEF NameInv, Cleared, SameName
  <2>2. CASE Fault("deleteExisting") \/ Fault("secret")
    BY <2>2, FaultGrows DEF Cleared
  <2>3. QED
    BY <1>2, <2>1, <2>2
<1>8. QED
  BY <1>6, <1>7 DEF NameInv

LEMMA EndNames ==
  ASSUME TypeOK, NameInv, EndExisting PROVE NameInv'
<1>1. /\ worker'.pc \in {"create", "policies"}
      /\ worker'.object = worker.object
      /\ UNCHANGED <<channels, faults>>
  BY DEF EndExisting, Go, At
<1>2. worker.pc = "clear" /\ worker.found = {}
  BY DEF EndExisting
<1>3. QED
  BY <1>1, <1>2 DEF NameInv, Cleared, NoDuplicates, SameName

LEMMA CreateNames ==
  ASSUME TypeOK, NameInv, CreateChannel PROVE NameInv'
<1> DEFINE spec == worker.object.spec
<1>1. worker.pc = "create" /\ spec \in ChannelSpec
  BY WorkerBusy DEF CreateChannel
<1>2. worker'.pc \notin {"clear", "create"} /\ faults \subseteq faults'
  BY FaultGrows DEF CreateChannel, Go, At, Fail, Idle
<1>3. CASE UNCHANGED channels
  BY <1>2, <1>3, OutsideNames DEF NamesKept
<1>4. CASE NewChannel(spec)
  <2>1. [spec EXCEPT !.links = {}].name = spec.name
    BY <1>1 DEF ChannelSpec
  <2>2. \A i \in Ids : i # FreshId => channels'[i] = channels[i]
    BY <1>4, FreshIdType DEF NewChannel, TypeOK
  <2>3. channels'[FreshId] = [spec EXCEPT !.links = {}]
    BY <1>4, FreshIdType DEF NewChannel, TypeOK
  <2>4. faults' \cap {"list", "secret", "deleteExisting"} = {} =>
          \A i \in Ids : channels[i] # None => channels[i].name # spec.name
    BY <1>1, <1>2 DEF NameInv, Cleared, SameName
  <2>5. NoDuplicates'
    BY <1>2, <2>1, <2>2, <2>3, <2>4 DEF NameInv, NoDuplicates
  <2>6. QED
    BY <1>2, <2>5 DEF NameInv, Cleared
<1>5. QED
  BY <1>3, <1>4 DEF CreateChannel

LEMMA RelinkNames ==
  ASSUME TypeOK, NEW links, Relink(links)
  PROVE  NamesKept
<1> DEFINE i == worker.object.id
<1>1. CASE UNCHANGED channels
  BY <1>1, FaultGrows DEF Relink, NamesKept
<1>2. CASE channels[i] # None /\ channels' = [channels EXCEPT ![i].links = links]
  <2>1. \A j \in Ids : channels[j] # None =>
          [channels[j] EXCEPT !.links = links].name = channels[j].name
    BY DEF TypeOK, Channel, ChannelSpec
  <2>2. \A j \in Ids : channels'[j] # channels[j] =>
          j = i /\ channels'[j] = [channels[j] EXCEPT !.links = links]
    BY <1>2 DEF TypeOK
  <2>3. faults \subseteq faults'
    BY FaultGrows DEF Relink
  <2>4. QED
    BY <1>2, <2>1, <2>2, <2>3 DEF NamesKept
<1>3. QED
  BY <1>1, <1>2 DEF Relink

\* The steps after the creation.
LEMMA LaterNames ==
  ASSUME TypeOK, NameInv,
         \/ GetAllPolicyIDs \/ Unlink \/ EndUnlink \/ Link \/ Save
         \/ DeleteChannel \/ Release
  PROVE  NameInv'
<1>1. worker'.pc \notin {"clear", "create"}
  <2>1. Idle.pc = "idle"
    BY DEF Idle
  <2>2. CASE GetAllPolicyIDs
    BY <2>1, <2>2, WorkerBusy DEF GetAllPolicyIDs, Fail, Busy
  <2>3. CASE Unlink \/ EndUnlink \/ Link
    BY <2>3, WorkerBusy DEF Unlink, EndUnlink, Link, Busy
  <2>4. CASE Save \/ Release
    BY <2>1, <2>4 DEF Save, Release, Return, Fail
  <2>5. CASE DeleteChannel
    <3>1. Fail \/ Go("release", worker.object)
      BY <2>5 DEF DeleteChannel, AfterDelete
    <3>2. At("release", worker.object, worker.rev).pc = "release"
      BY DEF At
    <3>3. QED
      BY <2>1, <3>1, <3>2 DEF Fail, Go
  <2>6. QED
    BY <2>2, <2>3, <2>4, <2>5
<1>2. NamesKept
  <2>1. CASE Unlink \/ Link
    BY <2>1, RelinkNames DEF Unlink, Link
  <2>2. CASE GetAllPolicyIDs \/ EndUnlink \/ Save \/ Release
    BY <2>2, FaultGrows DEF GetAllPolicyIDs, EndUnlink, Save, Release, NamesKept
  <2>3. CASE DeleteChannel
    BY <2>3, FaultGrows DEF DeleteChannel, NamesKept, TypeOK
  <2>4. QED
    BY <2>1, <2>2, <2>3
<1>3. QED
  BY <1>1, <1>2, OutsideNames

LEMMA StepNames ==
  ASSUME TypeOK, NameInv, [Next]_vars PROVE NameInv'
<1>1. CASE UNCHANGED vars
  BY <1>1, AsideNames DEF vars
<1>2. CASE User \/ InformerSync \/ Resync \/ PolicyReady
  BY <1>2, AsideNames
  DEF User, UserCreate, UserEdit, UserDelete, UserOp, InformerSync, Resync,
      PolicyReady
<1>3. CASE Crash
  BY <1>3, OutsideNames, FaultGrows DEF Crash, Idle, NamesKept
<1>4. CASE Reconcile
  <2>1. CASE ReconcileFails \/ ReconcileNothing
    BY <2>1, AsideNames, FaultGrows DEF ReconcileFails, ReconcileNothing
  <2>2. CASE ReconcileDeletion \/ ReconcileSpec
    BY <2>2, OutsideNames
    DEF ReconcileDeletion, ReconcileSpec, Begin, At, NamesKept
  <2>3. QED
    BY <1>4, <2>1, <2>2 DEF Reconcile
<1>5. QED
  BY <1>1, <1>2, <1>3, <1>4, ListNames, ClearNames, EndNames, CreateNames,
     LaterNames DEF Next, Call

LEMMA InitNames == Init => NameInv
<1> SUFFICES ASSUME Init PROVE NameInv
  OBVIOUS
<1>1. PICK e \in Existing \cup {None} :
        channels = [i \in Ids |-> IF i = CHOOSE first \in Ids : TRUE THEN e ELSE None]
  BY DEF Init
<1>2. NoDuplicates
  BY <1>1 DEF NoDuplicates
<1>3. Cleared
  BY DEF Init, Cleared, Idle
<1>4. QED
  BY <1>2, <1>3 DEF NameInv

\* Unless one of the errors happened that checkForExistingAlertsChannel only
\* logs, New Relic never holds two channels of one name: what the list found is
\* deleted before the creation, and no other step names a channel.
THEOREM NoneTwice == Spec => []NoDuplicates
<1>1. NameInv => NoDuplicates
  BY DEF NameInv
<1>2. QED
  BY <1>1, InitNames, StepNames, TypeCorrect, PTL DEF Spec
=============================================================================
