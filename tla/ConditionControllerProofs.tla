--------------------- MODULE ConditionControllerProofs ---------------------
(* What is proved about ConditionController for every set of kinds,        *)
(* resources, specs and ids and every choice of faults.                    *)
EXTENDS ConditionController, TLAPS

LEMMA BusyFields ==
  ASSUME NEW w \in Busy \cup {Idle}, w.pc # "idle"
  PROVE  w \in Busy
BY DEF Idle

\* What a worker reads and what a user writes is a well-formed resource.
LEMMA ObjectFields ==
  ASSUME NEW o \in Object
  PROVE  /\ o # None
         /\ [o EXCEPT !.finalizer = TRUE] \in Object
         /\ [o EXCEPT !.finalizer = FALSE] \in Object
         /\ [o EXCEPT !.deleting = TRUE] \in Object
         /\ \A s \in Specs : [o EXCEPT !.spec = s] \in Object
         /\ \A i \in Ids : [o EXCEPT !.id = i] \in Object
         /\ \A i \in Ids : [o EXCEPT !.applied = o.spec, !.id = i] \in Object
BY ConstantsAssumption DEF Object

-----------------------------------------------------------------------------
(* Type correctness.                                                       *)

LEMMA PutType ==
  ASSUME TypeOK, NEW c \in Conditions, NEW object \in Object \cup {None},
         Put(c, object), UNCHANGED <<cache, queue, worker, nr, used>>,
         faults' \in Nat, userOps' \in Nat
  PROVE  TypeOK'
<1>1. store' \in [Conditions -> Object \cup {None}]
  BY DEF TypeOK, Put
<1>2. revision' \in [Conditions -> Nat]
  BY DEF TypeOK, Put
<1>3. QED
  BY <1>1, <1>2 DEF TypeOK

LEMMA UserPutType ==
  ASSUME TypeOK, NEW c \in Conditions, NEW object \in Object \cup {None},
         Put(c, object), UserOp
  PROVE  TypeOK'
BY PutType DEF TypeOK, UserOp, newRelic

LEMMA UserType ==
  ASSUME TypeOK, User PROVE TypeOK'
<1>1. PICK c \in Conditions : UserCreate(c) \/ UserEdit(c) \/ UserDelete(c)
  BY DEF User
<1>2. SpecsFor[c] \subseteq Specs
  BY ConstantsAssumption
<1>3. CASE UserCreate(c)
  <2>1. PICK s \in SpecsFor[c] :
          Put(c, [spec |-> s, deleting |-> FALSE, finalizer |-> FALSE,
                  id |-> None, applied |-> None])
    BY <1>3 DEF UserCreate
  <2>2. [spec |-> s, deleting |-> FALSE, finalizer |-> FALSE,
         id |-> None, applied |-> None] \in Object
    BY <1>2 DEF Object
  <2>3. UserOp
    BY <1>3 DEF UserCreate
  <2>4. QED
    BY <2>1, <2>2, <2>3, UserPutType
<1>4. ASSUME store[c] # None PROVE store[c] \in Object
  BY <1>4 DEF TypeOK
<1>5. CASE UserEdit(c)
  <2>1. PICK s \in SpecsFor[c] : Put(c, [store[c] EXCEPT !.spec = s])
    BY <1>5 DEF UserEdit
  <2>2. [store[c] EXCEPT !.spec = s] \in Object
    BY <1>2, <1>4, <1>5, ObjectFields DEF UserEdit
  <2>3. UserOp
    BY <1>5 DEF UserEdit
  <2>4. QED
    BY <2>1, <2>2, <2>3, UserPutType
<1>6. CASE UserDelete(c)
  <2>1. (IF store[c].finalizer THEN [store[c] EXCEPT !.deleting = TRUE]
                               ELSE None) \in Object \cup {None}
    BY <1>4, <1>6, ObjectFields DEF UserDelete
  <2>2. QED
    BY <1>6, <2>1, UserPutType DEF UserDelete
<1>7. QED
  BY <1>1, <1>3, <1>5, <1>6

LEMMA ManagerType ==
  ASSUME TypeOK, Informer \/ Crash \/ \E i \in Ids : OutOfBandDelete(i)
  PROVE  TypeOK'
<1>1. CASE Informer
  BY <1>1
  DEF Informer, InformerSync, Resync, TypeOK, cluster, newRelic
<1>2. CASE Crash
  BY <1>2 DEF Crash, Fault, TypeOK, cluster, newRelic
<1>3. CASE \E i \in Ids : OutOfBandDelete(i)
  BY <1>3 DEF OutOfBandDelete, Fault, TypeOK, cluster, newRelic
<1>4. QED
  BY <1>1, <1>2, <1>3

LEMMA ReconcileType ==
  ASSUME TypeOK, NEW k \in Kinds, NEW c \in Conditions, Reconcile(k, c)
  PROVE  TypeOK'
<1>1. CASE ReconcileFails(k, c)
  BY <1>1 DEF ReconcileFails, Fault, TypeOK, cluster, newRelic
<1>2. CASE ReconcileNothing(k, c)
  BY <1>2 DEF ReconcileNothing, TypeOK, cluster, newRelic
<1>3. ASSUME NEW step \in Steps, NEW object \in Object,
             Begin(k, c, step, object)
      PROVE  TypeOK'
  BY <1>3 DEF Begin, TypeOK, Busy, cluster, newRelic
<1>4. ASSUME ~NothingToDo(cache[c].object) PROVE cache[c].object \in Object
  BY <1>4 DEF NothingToDo, TypeOK
<1>5. CASE ReconcileDeletion(k, c)
  BY <1>3, <1>4, <1>5, ObjectFields DEF ReconcileDeletion, Steps
<1>6. CASE ReconcileSpec(k, c)
  BY <1>3, <1>4, <1>6, ObjectFields DEF ReconcileSpec, Prepared, Steps
<1>7. QED
  BY <1>1, <1>2, <1>5, <1>6 DEF Reconcile

\* The calls move a worker that is busy, on to another step or to Idle.
LEMMA GoOnType ==
  ASSUME TypeOK, NEW k \in Kinds, worker[k].pc # "idle", NEW step \in Steps,
         NEW object \in Object, GoOn(k, step, object)
  PROVE  worker' \in [Kinds -> Busy \cup {Idle}]
<1>1. worker[k] \in Busy
  BY BusyFields DEF TypeOK
<1>2. [worker[k] EXCEPT !.pc = step, !.object = object] \in Busy
  BY <1>1 DEF Busy
<1>3. worker' = [worker EXCEPT ![k] =
                   [worker[k] EXCEPT !.pc = step, !.object = object]]
  BY DEF GoOn
<1>4. QED
  BY <1>2, <1>3 DEF TypeOK

LEMMA StopType ==
  ASSUME TypeOK, NEW k \in Kinds, worker[k].pc # "idle", Return(k) \/ Fail(k)
  PROVE  /\ worker' \in [Kinds -> Busy \cup {Idle}]
         /\ queue' \subseteq Conditions
<1>1. worker[k] \in Busy
  BY BusyFields DEF TypeOK
<1>2. QED
  BY <1>1 DEF Return, Fail, TypeOK, Busy

LEMMA FreshIdType ==
  ASSUME Ids \ used # {} PROVE FreshId \in Ids \ used
BY DEF FreshId

LEMMA CallType ==
  ASSUME TypeOK, NEW k \in Kinds, Call(k) PROVE TypeOK'
<1> DEFINE object == worker[k].object
           c      == worker[k].key
<1>1. worker[k].pc # "idle"
  BY DEF Call, Search, UpdateCondition, CreateCondition, Save,
         DeleteCondition, Release
<1>2. worker[k] \in Busy /\ object \in Object /\ c \in Conditions
  <2>1. worker[k] \in Busy
    BY <1>1, BusyFields DEF TypeOK
  <2>2. QED
    BY <2>1 DEF Busy
<1> HIDE DEF object, c
<1>3. CASE Search(k)
  <2>1. \E o \in Object : GoOn(k, "write", o)
    BY <1>2, <1>3, ObjectFields DEF Search, Adopt, object
  <2>2. worker' \in [Kinds -> Busy \cup {Idle}]
    BY <1>1, <2>1, GoOnType DEF Steps
  <2>3. QED
    BY <1>3, <2>2 DEF Search, Fault, TypeOK, cluster, newRelic
<1>4. CASE UpdateCondition(k)
  <2>1. object.id \in Ids /\ object.spec \in Specs
    BY <1>2, <1>4 DEF UpdateCondition, Object, object
  <2>2. \E o \in Object : GoOn(k, "save", o)
    BY <1>2, <1>4, <2>1, ObjectFields DEF UpdateCondition, Applied, object
  <2>3. worker' \in [Kinds -> Busy \cup {Idle}]
    BY <1>1, <2>2, GoOnType DEF Steps
  <2>4. nr' \in [Ids -> Specs \cup {None}]
    BY <1>4, <2>1 DEF UpdateCondition, TypeOK, object
  <2>5. QED
    BY <1>4, <2>3, <2>4 DEF UpdateCondition, Fault, TypeOK, cluster
<1>5. CASE CreateCondition(k)
  <2>1. object.spec \in Specs
    BY <1>2 DEF Object
  <2>2. \E o \in Object : GoOn(k, "save", o)
    BY <1>2, <1>5, ObjectFields, FreshIdType
    DEF CreateCondition, Applied, object
  <2>3. worker' \in [Kinds -> Busy \cup {Idle}]
    BY <1>1, <2>2, GoOnType DEF Steps
  <2>4. nr' \in [Ids -> Specs \cup {None}] /\ used' \subseteq Ids
    BY <1>5, <2>1, FreshIdType
    DEF CreateCondition, NewCondition, TypeOK, newRelic, object
  <2>5. QED
    BY <1>5, <2>3, <2>4 DEF CreateCondition, Fault, TypeOK, cluster
<1>6. CASE Save(k)
  <2>1. worker' \in [Kinds -> Busy \cup {Idle}] /\ queue' \subseteq Conditions
    BY <1>1, <1>6, StopType DEF Save
  <2>2. store' \in [Conditions -> Object \cup {None}]
    BY <1>2, <1>6 DEF Save, Put, cluster, TypeOK, object, c
  <2>3. revision' \in [Conditions -> Nat]
    BY <1>2, <1>6 DEF Save, Put, cluster, TypeOK, object, c
  <2>4. QED
    BY <1>6, <2>1, <2>2, <2>3 DEF Save, Fault, TypeOK, newRelic
<1>7. CASE DeleteCondition(k)
  <2>1. \/ GoOn(k, "release", [object EXCEPT !.finalizer = FALSE])
           /\ UNCHANGED queue
        \/ Fail(k)
    BY <1>7 DEF DeleteCondition, AfterDelete, object
  <2>2. worker' \in [Kinds -> Busy \cup {Idle}] /\ queue' \subseteq Conditions
    <3>1. CASE GoOn(k, "release", [object EXCEPT !.finalizer = FALSE])
               /\ UNCHANGED queue
      BY <1>1, <1>2, <3>1, GoOnType, ObjectFields DEF Steps, TypeOK
    <3>2. CASE Fail(k)
      BY <1>1, <3>2, StopType
    <3>3. QED
      BY <2>1, <3>1, <3>2
  <2>3. nr' \in [Ids -> Specs \cup {None}]
    <3>1. nr' = nr \/ nr' = [nr EXCEPT ![object.id] = None]
      BY <1>7 DEF DeleteCondition, object
    <3>2. QED
      BY <3>1 DEF TypeOK
  <2>4. UNCHANGED <<cluster, cache, used, userOps>>
    BY <1>7 DEF DeleteCondition
  <2>5. faults' \in Nat
    <3>1. faults' = faults \/ faults' = faults + 1
      BY <1>7 DEF DeleteCondition, Fault
    <3>2. QED
      BY <3>1 DEF TypeOK
  <2>6. QED
    BY <2>2, <2>3, <2>4, <2>5 DEF TypeOK, cluster
<1>8. CASE Release(k)
  <2>1. worker' \in [Kinds -> Busy \cup {Idle}] /\ queue' \subseteq Conditions
    BY <1>1, <1>8, StopType DEF Release
  <2>2. /\ store' \in [Conditions -> Object \cup {None}]
        /\ revision' \in [Conditions -> Nat]
    BY <1>2, <1>8 DEF Release, Put, cluster, TypeOK, c
  <2>3. QED
    BY <1>8, <2>1, <2>2 DEF Release, Fault, TypeOK, newRelic
<1>9. QED
  BY <1>3, <1>4, <1>5, <1>6, <1>7, <1>8 DEF Call

LEMMA InitType == Init => TypeOK
BY DEF Init, TypeOK

LEMMA StepType ==
  ASSUME TypeOK, [Next]_vars PROVE TypeOK'
<1>1. CASE UNCHANGED vars
  BY <1>1 DEF TypeOK, vars
<1>2. QED
  BY <1>1, UserType, ManagerType, ReconcileType, CallType DEF Next

\* Every reachable state has well-formed resources, copies, workers and New
\* Relic conditions.
THEOREM TypeCorrect == Spec => []TypeOK
<1>1. TypeOK /\ [Next]_vars => TypeOK'
  BY StepType
<1>2. QED
  BY <1>1, InitType, PTL DEF Spec

-----------------------------------------------------------------------------
(* The inductive invariant LeakInv.                                        *)

\* What a busy worker is made of.
LEMMA BusyType ==
  ASSUME TypeOK, NEW k \in Kinds, worker[k].pc # "idle"
  PROVE  /\ worker[k] \in Busy
         /\ worker[k].pc \in Steps
         /\ worker[k].key \in Conditions
         /\ worker[k].object \in Object
         /\ worker[k].rev \in Nat
<1>1. worker[k] \in Busy
  BY BusyFields DEF TypeOK
<1>2. QED
  BY <1>1 DEF Busy

\* A write makes every copy of the resource older than it.
LEMMA PutCoherent ==
  ASSUME TypeOK, CacheCoherent, WorkerCoherent,
         NEW c \in Conditions, NEW object, Put(c, object), cache' = cache,
         \A k \in Kinds : worker'[k] = worker[k] \/ worker'[k].pc = "idle"
  PROVE  CacheCoherent' /\ WorkerCoherent'
<1>1. revision[c] \in Nat /\ revision'[c] = revision[c] + 1
  BY DEF TypeOK, Put
<1>2. \A d \in Conditions : d # c => store'[d] = store[d] /\ revision'[d] = revision[d]
  BY DEF TypeOK, Put
<1>3. \A d \in Conditions : cache[d].rev \in Nat /\ revision[d] \in Nat
  BY DEF TypeOK
<1>4. CacheCoherent'
  BY <1>1, <1>2, <1>3 DEF CacheCoherent
<1>5. ASSUME NEW k \in Kinds, worker'[k].pc # "idle"
      PROVE  LET w == worker'[k] IN
             /\ w.rev <= revision'[w.key]
             /\ w.rev = revision'[w.key] =>
                  /\ store'[w.key] # None
                  /\ store'[w.key].spec = w.object.spec
                  /\ store'[w.key].deleting = w.object.deleting
                  /\ w.pc \in {"delete", "release"} => store'[w.key].id = w.object.id
  <2>1. worker'[k] = worker[k] /\ worker[k].key \in Conditions /\ worker[k].rev \in Nat
    BY <1>5, BusyType
  <2>2. CASE worker[k].key = c
    BY <1>1, <1>5, <2>1, <2>2 DEF WorkerCoherent
  <2>3. CASE worker[k].key # c
    BY <1>2, <1>5, <2>1, <2>3 DEF WorkerCoherent
  <2>4. QED
    BY <2>2, <2>3
<1>6. QED
  BY <1>4, <1>5 DEF WorkerCoherent

\* A write by somebody who keeps the recorded id and the finalizer.
LEMMA PutLeak ==
  ASSUME TypeOK, LeakInv, NEW c \in Conditions, NEW object \in Object \cup {None},
         Put(c, object), UNCHANGED <<cache, worker, nr, used>>,
         object # None =>
           \/ object.id = None
           \/ /\ store[c] # None
              /\ object.id = store[c].id
              /\ object.finalizer = store[c].finalizer
  PROVE  LeakInv'
<1>1. CacheCoherent' /\ WorkerCoherent'
  BY PutCoherent DEF LeakInv
<1>2. WorkerPhases'
  BY DEF LeakInv, WorkerPhases
<1>3. store' = [store EXCEPT ![c] = object]
  BY DEF Put
<1>4. FinalizerKept'
  BY <1>3 DEF LeakInv, FinalizerKept, TypeOK
<1>5. IdsUsed'
  <2>1. \A d \in Conditions : store'[d] # None => store'[d].id \in used \cup {None}
    BY <1>3 DEF LeakInv, IdsUsed, TypeOK
  <2>2. QED
    BY <2>1 DEF LeakInv, IdsUsed
<1>6. QED
  BY <1>1, <1>2, <1>4, <1>5 DEF LeakInv

LEMMA UserLeak ==
  ASSUME TypeOK, LeakInv, User PROVE LeakInv'
<1>1. PICK c \in Conditions : UserCreate(c) \/ UserEdit(c) \/ UserDelete(c)
  BY DEF User
<1>2. UNCHANGED <<cache, worker, nr, used>>
  BY <1>1 DEF UserCreate, UserEdit, UserDelete, UserOp, newRelic
<1>3. PICK object \in Object \cup {None} :
        /\ Put(c, object)
        /\ object # None =>
             \/ object.id = None
             \/ /\ store[c] # None
                /\ object.id = store[c].id
                /\ object.finalizer = store[c].finalizer
  <2>1. ASSUME store[c] # None PROVE store[c] \in Object
    BY <2>1 DEF TypeOK
  <2>2. SpecsFor[c] \subseteq Specs
    BY ConstantsAssumption
  <2>3. CASE UserCreate(c)
    <3>1. PICK s \in SpecsFor[c] :
            Put(c, [spec |-> s, deleting |-> FALSE, finalizer |-> FALSE,
                    id |-> None, applied |-> None])
      BY <2>3 DEF UserCreate
    <3>2. [spec |-> s, deleting |-> FALSE, finalizer |-> FALSE,
           id |-> None, applied |-> None] \in Object
      BY <2>2 DEF Object
    <3>3. QED
      BY <3>1, <3>2
  <2>4. CASE UserEdit(c)
    <3>1. PICK s \in SpecsFor[c] : Put(c, [store[c] EXCEPT !.spec = s])
      BY <2>4 DEF UserEdit
    <3>2. /\ [store[c] EXCEPT !.spec = s] \in Object
          /\ [store[c] EXCEPT !.spec = s].id = store[c].id
          /\ [store[c] EXCEPT !.spec = s].finalizer = store[c].finalizer
      BY <2>1, <2>2, <2>4 DEF UserEdit, Object
    <3>3. QED
      BY <2>4, <3>1, <3>2 DEF UserEdit
  <2>5. CASE UserDelete(c)
    <3>1. /\ [store[c] EXCEPT !.deleting = TRUE] \in Object
          /\ [store[c] EXCEPT !.deleting = TRUE].id = store[c].id
          /\ [store[c] EXCEPT !.deleting = TRUE].finalizer = store[c].finalizer
      BY <2>1, <2>5 DEF UserDelete, Object
    <3>2. QED
      BY <2>5, <3>1 DEF UserDelete
  <2>6. QED
    BY <1>1, <2>3, <2>4, <2>5
<1>4. QED
  BY <1>2, <1>3, PutLeak

LEMMA ManagerLeak ==
  ASSUME TypeOK, LeakInv, Informer \/ Crash \/ \E i \in Ids : OutOfBandDelete(i)
  PROVE  LeakInv'
<1>0. \A d \in Conditions : revision[d] \in Nat
  BY DEF TypeOK
<1>1. CASE Informer
  <2>1. UNCHANGED <<store, revision, worker, nr, used>>
    BY <1>1 DEF Informer, InformerSync, Resync, cluster, newRelic
  <2>2. \A d \in Conditions :
          \/ cache'[d] = cache[d]
          \/ cache'[d].object = store[d] /\ cache'[d].rev = revision[d]
    BY <1>1 DEF Informer, InformerSync, Resync, TypeOK
  <2>3. CacheCoherent' /\ IdsUsed'
    <3>1. CacheCoherent'
      BY <1>0, <2>1, <2>2 DEF LeakInv, CacheCoherent
    <3>2. IdsUsed'
      BY <2>1, <2>2 DEF LeakInv, IdsUsed
    <3>3. QED
      BY <3>1, <3>2
  <2>4. QED
    BY <2>1, <2>3 DEF LeakInv, WorkerCoherent, WorkerPhases, FinalizerKept
<1>2. CASE Crash
  <2>1. UNCHANGED <<store, revision, nr, used>>
    BY <1>2 DEF Crash, cluster, newRelic
  <2>2. /\ \A d \in Conditions :
             cache'[d].object = store[d] /\ cache'[d].rev = revision[d]
        /\ \A k \in Kinds : worker'[k] = Idle
    BY <1>2 DEF Crash
  <2>3. CacheCoherent' /\ IdsUsed'
    <3>1. CacheCoherent'
      BY <1>0, <2>1, <2>2 DEF CacheCoherent
    <3>2. IdsUsed'
      BY <2>1, <2>2 DEF LeakInv, IdsUsed, Idle
    <3>3. QED
      BY <3>1, <3>2
  <2>4. WorkerCoherent' /\ WorkerPhases'
    BY <2>2 DEF WorkerCoherent, WorkerPhases, Idle
  <2>5. QED
    BY <2>1, <2>3, <2>4 DEF LeakInv, FinalizerKept
<1>3. CASE \E i \in Ids : OutOfBandDelete(i)
  <2>1. UNCHANGED <<store, revision, cache, worker, used>>
    BY <1>3 DEF OutOfBandDelete, cluster
  <2>2. \A i \in Ids : nr'[i] = nr[i] \/ nr'[i] = None
    BY <1>3 DEF OutOfBandDelete, TypeOK
  <2>3. WorkerPhases'
    <3>1. ASSUME NEW k \in Kinds, worker[k].pc = "release", worker[k].object.id # None
          PROVE  nr'[worker[k].object.id] = None
      <4>1. worker[k].object.id \in Ids
        BY <3>1, BusyType DEF Object
      <4>2. QED
        BY <2>2, <3>1, <4>1 DEF LeakInv, WorkerPhases
    <3>2. QED
      BY <2>1, <3>1 DEF LeakInv, WorkerPhases
  <2>4. IdsUsed'
    BY <2>1, <2>2 DEF LeakInv, IdsUsed
  <2>5. QED
    BY <2>1, <2>3, <2>4 DEF LeakInv, CacheCoherent, WorkerCoherent, FinalizerKept
<1>4. QED
  BY <1>1, <1>2, <1>3

LEMMA UnchangedLeak ==
  ASSUME LeakInv, UNCHANGED <<store, revision, cache, worker, nr, used>>
  PROVE  LeakInv'
BY DEF LeakInv, CacheCoherent, WorkerCoherent, WorkerPhases, FinalizerKept, IdsUsed

\* A reconcile begins from the cached copy, which may be stale.
LEMMA BeginLeak ==
  ASSUME TypeOK, LeakInv, NEW k \in Kinds, NEW c \in Conditions,
         NEW step \in Steps, NEW object \in Object, Begin(k, c, step, object),
         cache[c].object # None,
         object.spec = cache[c].object.spec,
         object.deleting = cache[c].object.deleting,
         object.id = cache[c].object.id,
         step \in {"search", "write", "save"} => object.finalizer /\ ~object.deleting,
         step \in {"delete", "release"} => object.deleting,
         step = "delete" => object.id # None,
         step = "release" => object.id = None
  PROVE  LeakInv'
<1> DEFINE w == [pc |-> step, key |-> c, object |-> object, rev |-> cache[c].rev]
<1>1. UNCHANGED <<store, revision, cache, nr, used>>
  BY DEF Begin, cluster, newRelic
<1>2. /\ worker'[k] = w
      /\ \A j \in Kinds : j # k => worker'[j] = worker[j]
  BY DEF Begin, TypeOK
<1>3. w.rev <= revision[c] /\ (w.rev = revision[c] => cache[c].object = store[c])
  BY DEF LeakInv, CacheCoherent
<1>4. WorkerCoherent'
  <2>1. ASSUME NEW j \in Kinds, j # k, worker'[j].pc # "idle"
        PROVE  LET v == worker'[j] IN
               /\ v.rev <= revision'[v.key]
               /\ v.rev = revision'[v.key] =>
                    /\ store'[v.key] # None
                    /\ store'[v.key].spec = v.object.spec
                    /\ store'[v.key].deleting = v.object.deleting
                    /\ v.pc \in {"delete", "release"} => store'[v.key].id = v.object.id
    BY <1>1, <1>2, <2>1 DEF LeakInv, WorkerCoherent
  <2>2. QED
    BY <1>1, <1>2, <1>3, <2>1 DEF WorkerCoherent
<1>5. WorkerPhases'
  BY <1>1, <1>2 DEF LeakInv, WorkerPhases
<1>6. IdsUsed'
  BY <1>1, <1>2 DEF LeakInv, IdsUsed
<1>7. QED
  BY <1>1, <1>4, <1>5, <1>6 DEF LeakInv, CacheCoherent, FinalizerKept

LEMMA ReconcileLeak ==
  ASSUME TypeOK, LeakInv, NEW k \in Kinds, NEW c \in Conditions, Reconcile(k, c)
  PROVE  LeakInv'
<1>1. CASE ReconcileFails(k, c) \/ ReconcileNothing(k, c)
  BY <1>1, UnchangedLeak DEF ReconcileFails, ReconcileNothing, cluster, newRelic
<1>2. ASSUME ~NothingToDo(cache[c].object)
      PROVE  cache[c].object \in Object /\ cache[c].object # None
  BY <1>2 DEF NothingToDo, TypeOK
<1>3. CASE ReconcileDeletion(k, c)
  <2> DEFINE o == cache[c].object
  <2>1. o \in Object /\ o # None /\ o.deleting
    BY <1>2, <1>3 DEF ReconcileDeletion
  <2>2. CASE o.id = None
    <3>1. Begin(k, c, "release", [o EXCEPT !.finalizer = FALSE])
      BY <1>3, <2>2 DEF ReconcileDeletion
    <3>2. /\ [o EXCEPT !.finalizer = FALSE] \in Object
          /\ [o EXCEPT !.finalizer = FALSE].spec = o.spec
          /\ [o EXCEPT !.finalizer = FALSE].deleting = o.deleting
          /\ [o EXCEPT !.finalizer = FALSE].id = o.id
      BY <2>1 DEF Object
    <3>3. QED
      BY <2>1, <2>2, <3>1, <3>2, BeginLeak DEF Steps
  <2>3. CASE o.id # None
    <3>1. Begin(k, c, "delete", o)
      BY <1>3, <2>3 DEF ReconcileDeletion
    <3>2. QED
      BY <2>1, <2>3, <3>1, BeginLeak DEF Steps
  <2>4. QED
    BY <2>2, <2>3
<1>4. CASE ReconcileSpec(k, c)
  <2> DEFINE o == Prepared(cache[c].object)
  <2>1. cache[c].object \in Object /\ cache[c].object # None
    BY <1>2, <1>4 DEF ReconcileSpec
  <2>2. /\ o \in Object
        /\ o.spec = cache[c].object.spec
        /\ o.deleting = cache[c].object.deleting
        /\ o.id = cache[c].object.id
        /\ o.finalizer
    BY <2>1 DEF Object, Prepared
  <2>3. ~o.deleting /\ \E step \in {"search", "write"} : Begin(k, c, step, o)
    BY <1>4 DEF ReconcileSpec
  <2> HIDE DEF o
  <2>4. QED
    BY <2>1, <2>2, <2>3, BeginLeak DEF Steps
<1>5. QED
  BY <1>1, <1>3, <1>4 DEF Reconcile

\* A worker that goes on keeps its key, its revision and what the users wrote.
LEMMA GoOnCoherent ==
  ASSUME TypeOK, WorkerCoherent, NEW k \in Kinds, worker[k].pc # "idle",
         NEW step \in Steps, NEW object \in Object, GoOn(k, step, object),
         UNCHANGED cluster,
         object.spec = worker[k].object.spec,
         object.deleting = worker[k].object.deleting,
         step \in {"delete", "release"} =>
           worker[k].pc = "delete" /\ object.id = worker[k].object.id
  PROVE  /\ WorkerCoherent'
         /\ worker'[k].pc = step
         /\ worker'[k].object = object
         /\ \A j \in Kinds : j # k => worker'[j] = worker[j]
<1>1. worker[k] \in Busy
  BY BusyType
<1>2. /\ worker'[k] = [worker[k] EXCEPT !.pc = step, !.object = object]
      /\ \A j \in Kinds : j # k => worker'[j] = worker[j]
  BY DEF GoOn, TypeOK
<1>3. /\ worker'[k].pc = step
      /\ worker'[k].object = object
      /\ worker'[k].key = worker[k].key
      /\ worker'[k].rev = worker[k].rev
  BY <1>1, <1>2 DEF Busy
<1>4. UNCHANGED <<store, revision>>
  BY DEF cluster
<1>5. WorkerCoherent'
  <2>1. ASSUME NEW j \in Kinds, worker'[j].pc # "idle"
        PROVE  LET w == worker'[j] IN
               /\ w.rev <= revision'[w.key]
               /\ w.rev = revision'[w.key] =>
                    /\ store'[w.key] # None
                    /\ store'[w.key].spec = w.object.spec
                    /\ store'[w.key].deleting = w.object.deleting
                    /\ w.pc \in {"delete", "release"} => store'[w.key].id = w.object.id
    <3>1. CASE j = k
      BY <1>3, <1>4, <3>1 DEF WorkerCoherent
    <3>2. CASE j # k
      BY <1>2, <1>4, <2>1, <3>2 DEF WorkerCoherent
    <3>3. QED
      BY <3>1, <3>2
  <2>2. QED
    BY <2>1 DEF WorkerCoherent
<1>6. QED
  BY <1>2, <1>3, <1>5

\* The calls to New Relic: no condition that was deleted comes back.
LEMMA NewRelicLeak ==
  ASSUME TypeOK, LeakInv, NEW k \in Kinds,
         Search(k) \/ UpdateCondition(k) \/ CreateCondition(k)
  PROVE  LeakInv'
<1> DEFINE object == worker[k].object
<1>1. /\ worker[k].pc \in {"search", "write"}
      /\ worker[k].pc # "idle"
      /\ UNCHANGED <<cluster, cache, queue, userOps>>
  BY DEF Search, UpdateCondition, CreateCondition, newRelic
<1>2. object \in Object /\ object.spec \in Specs /\ object.finalizer /\ ~object.deleting
  BY <1>1, BusyType DEF Object, LeakInv, WorkerPhases
<1>3. /\ used \subseteq used'
      /\ \A i \in Ids : nr'[i] # None => i \in used'
      /\ \A i \in Ids : nr[i] = None /\ nr'[i] # None => i \notin used
      /\ \E o \in Object, step \in {"write", "save"} :
           /\ GoOn(k, step, o)
           /\ o.spec = object.spec
           /\ o.deleting = object.deleting
           /\ o.finalizer = object.finalizer
           /\ o.id \in used' \cup {None}
  <2>1. object.id \in used \cup {None} /\ \A i \in Ids : nr[i] # None => i \in used
    BY <1>1 DEF LeakInv, IdsUsed
  <2>2. ASSUME NEW i \in Ids
        PROVE  /\ [object EXCEPT !.id = i] \in Object
               /\ [object EXCEPT !.id = i].spec = object.spec
               /\ [object EXCEPT !.id = i].deleting = object.deleting
               /\ [object EXCEPT !.id = i].finalizer = object.finalizer
               /\ [object EXCEPT !.id = i].id = i
               /\ Applied(object, i) \in Object
               /\ Applied(object, i).spec = object.spec
               /\ Applied(object, i).deleting = object.deleting
               /\ Applied(object, i).finalizer = object.finalizer
               /\ Applied(object, i).id = i
    BY <1>2 DEF Object, Applied
  <2> HIDE DEF object
  <2>3. CASE Search(k)
    <3>1. UNCHANGED <<nr, used>>
      BY <2>3 DEF Search, newRelic
    <3>2. GoOn(k, "write", object) \/ \E i \in Ids : nr[i] # None /\ GoOn(k, "write", [object EXCEPT !.id = i])
      BY <2>3 DEF Search, SameName, Adopt, object
    <3>3. \E o \in Object : /\ GoOn(k, "write", o)
                            /\ o.spec = object.spec
                            /\ o.deleting = object.deleting
                            /\ o.finalizer = object.finalizer
                            /\ o.id \in used \cup {None}
      <4>1. CASE GoOn(k, "write", object)
        BY <1>2, <2>1, <4>1
      <4>2. ASSUME NEW i \in Ids, nr[i] # None,
                   GoOn(k, "write", [object EXCEPT !.id = i])
            PROVE  \E o \in Object : /\ GoOn(k, "write", o)
                                     /\ o.spec = object.spec
                                     /\ o.deleting = object.deleting
                                     /\ o.finalizer = object.finalizer
                                     /\ o.id \in used \cup {None}
        <5>1. i \in used
          BY <2>1, <4>2
        <5>2. QED
          BY <2>2, <4>2, <5>1
      <4>3. QED
        BY <3>2, <4>1, <4>2
    <3>4. QED
      BY <2>1, <3>1, <3>3
  <2>4. CASE UpdateCondition(k)
    <3>1. object.id \in Ids /\ UNCHANGED used
      BY <1>2, <2>4 DEF UpdateCondition, Object, object
    <3>2. GoOn(k, "save", object) \/ GoOn(k, "save", Applied(object, object.id))
      BY <2>4 DEF UpdateCondition, object
    <3>3. nr' = nr \/ (nr[object.id] # None /\ nr' = [nr EXCEPT ![object.id] = object.spec])
      BY <2>4 DEF UpdateCondition, object
    <3>4. \A i \in Ids : nr'[i] # None => nr[i] # None
      BY <3>1, <3>3 DEF TypeOK
    <3>5. \E o \in Object : /\ GoOn(k, "save", o)
                            /\ o.spec = object.spec
                            /\ o.deleting = object.deleting
                            /\ o.finalizer = object.finalizer
                            /\ o.id = object.id
      BY <1>2, <2>2, <3>1, <3>2
    <3>6. QED
      BY <2>1, <3>1, <3>4, <3>5
  <2>5. CASE CreateCondition(k)
    <3>1. \/ UNCHANGED newRelic /\ GoOn(k, "save", object)
          \/ /\ Ids \ used # {}
             /\ NewCondition(object.spec)
             /\ GoOn(k, "save", object) \/ GoOn(k, "save", Applied(object, FreshId))
      BY <2>5 DEF CreateCondition, object
    <3>2. CASE UNCHANGED newRelic /\ GoOn(k, "save", object)
      BY <1>2, <2>1, <3>2 DEF newRelic
    <3>3. CASE /\ Ids \ used # {}
               /\ NewCondition(object.spec)
               /\ GoOn(k, "save", object) \/ GoOn(k, "save", Applied(object, FreshId))
      <4>1. FreshId \in Ids /\ FreshId \notin used
        BY <3>3, FreshIdType
      <4>2. /\ used' = used \cup {FreshId}
            /\ \A i \in Ids : i # FreshId => nr'[i] = nr[i]
        BY <3>3 DEF NewCondition, TypeOK
      <4>3. \E o \in Object : /\ GoOn(k, "save", o)
                              /\ o.spec = object.spec
                              /\ o.deleting = object.deleting
                              /\ o.finalizer = object.finalizer
                              /\ o.id \in {object.id, FreshId}
        BY <1>2, <2>2, <3>3, <4>1
      <4>4. QED
        BY <2>1, <4>1, <4>2, <4>3
    <3>4. QED
      BY <3>1, <3>2, <3>3
  <2>6. QED
    BY <2>3, <2>4, <2>5
<1>4. PICK o \in Object, step \in {"write", "save"} :
           /\ GoOn(k, step, o)
           /\ o.spec = object.spec
           /\ o.deleting = object.deleting
           /\ o.finalizer = object.finalizer
           /\ o.id \in used' \cup {None}
  BY <1>3
<1>5. /\ WorkerCoherent'
      /\ worker'[k].pc = step
      /\ worker'[k].object = o
      /\ \A j \in Kinds : j # k => worker'[j] = worker[j]
  BY <1>1, <1>4, GoOnCoherent DEF Steps, LeakInv
<1>6. WorkerPhases'
  <2>1. ASSUME NEW j \in Kinds, j # k, worker[j].pc = "release", worker[j].object.id # None
        PROVE  nr'[worker[j].object.id] = None
    <3>1. worker[j].object.id \in Ids \cap used /\ nr[worker[j].object.id] = None
      BY <2>1, BusyType DEF Object, LeakInv, WorkerPhases, IdsUsed
    <3>2. QED
      BY <1>3, <3>1
  <2>2. QED
    BY <1>2, <1>4, <1>5, <2>1 DEF LeakInv, WorkerPhases
<1>7. IdsUsed'
  BY <1>1, <1>3, <1>4, <1>5 DEF LeakInv, IdsUsed, cluster
<1>8. QED
  BY <1>1, <1>5, <1>6, <1>7 DEF LeakInv, CacheCoherent, FinalizerKept, cluster

\* A worker that stops leaves the other workers as they are.
LEMMA StopFields ==
  ASSUME TypeOK, NEW k \in Kinds, Return(k) \/ Fail(k)
  PROVE  /\ worker'[k] = Idle
         /\ \A j \in Kinds : j # k => worker'[j] = worker[j]
BY DEF Return, Fail, TypeOK

\* When a worker stops, and the resource is as it was or was written anew,
\* everything but what concerns the resource itself is kept.
LEMMA StopLeak ==
  ASSUME TypeOK, LeakInv, NEW k \in Kinds, worker[k].pc # "idle",
         Return(k) \/ Fail(k), UNCHANGED <<cache, nr, used>>,
         UNCHANGED cluster \/
         \E object \in Object \cup {None} :
           /\ Put(worker[k].key, object)
           /\ object # None => object.finalizer /\ object.id \in used \cup {None}
  PROVE  LeakInv'
<1>1. /\ worker'[k] = Idle
      /\ \A j \in Kinds : j # k => worker'[j] = worker[j]
  BY StopFields
<1>2. WorkerPhases'
  BY <1>1 DEF LeakInv, WorkerPhases, Idle
<1>3. CASE UNCHANGED cluster
  <2>1. WorkerCoherent'
    BY <1>1, <1>3 DEF LeakInv, WorkerCoherent, Idle, cluster
  <2>2. IdsUsed'
    BY <1>1, <1>3 DEF LeakInv, IdsUsed, Idle, cluster
  <2>3. QED
    BY <1>2, <1>3, <2>1, <2>2 DEF LeakInv, CacheCoherent, FinalizerKept, cluster
<1>4. ASSUME NEW object \in Object \cup {None},
             Put(worker[k].key, object),
             object # None => object.finalizer /\ object.id \in used \cup {None}
      PROVE  LeakInv'
  <2>1. worker[k].key \in Conditions
    BY BusyType
  <2>2. CacheCoherent' /\ WorkerCoherent'
    BY <1>1, <1>4, <2>1, PutCoherent DEF LeakInv, Idle
  <2>3. store' = [store EXCEPT ![worker[k].key] = object]
    BY <1>4 DEF Put
  <2>4. FinalizerKept'
    BY <1>4, <2>1, <2>3 DEF LeakInv, FinalizerKept, TypeOK
  <2>5. \A d \in Conditions : store'[d] # None => store'[d].id \in used \cup {None}
    BY <1>4, <2>1, <2>3 DEF LeakInv, IdsUsed, TypeOK
  <2>6. IdsUsed'
    BY <1>1, <2>5 DEF LeakInv, IdsUsed, Idle
  <2>7. QED
    BY <1>2, <2>2, <2>4, <2>6 DEF LeakInv
<1>5. QED
  BY <1>3, <1>4

\* The writes to the API server that end a reconcile.
LEMMA WriteBackLeak ==
  ASSUME TypeOK, LeakInv, NEW k \in Kinds, Save(k) \/ Release(k)
  PROVE  LeakInv'
<1>1. worker[k].pc \in {"save", "release"} /\ worker[k].pc # "idle"
  BY DEF Save, Release
<1>2. /\ worker[k].object \in Object
      /\ worker[k].object.id \in used \cup {None}
      /\ worker[k].pc = "save" => worker[k].object.finalizer
  BY <1>1, BusyType DEF LeakInv, IdsUsed, WorkerPhases
<1>3. Return(k) \/ Fail(k)
  BY DEF Save, Release
<1>4. UNCHANGED <<cache, nr, used>>
  BY DEF Save, Release, newRelic
<1>5. CASE Save(k)
  <2>1. UNCHANGED cluster \/ Put(worker[k].key, worker[k].object)
    BY <1>5 DEF Save
  <2>2. worker[k].object.finalizer
    BY <1>2, <1>5 DEF Save
  <2>3. QED
    BY <1>1, <1>2, <1>3, <1>4, <2>1, <2>2, StopLeak
<1>6. CASE Release(k)
  <2>1. UNCHANGED cluster \/ Put(worker[k].key, None)
    BY <1>6 DEF Release
  <2>2. QED
    BY <1>1, <1>3, <1>4, <2>1, StopLeak
<1>7. QED
  BY <1>5, <1>6

LEMMA DeleteLeak ==
  ASSUME TypeOK, LeakInv, NEW k \in Kinds, DeleteCondition(k)
  PROVE  LeakInv'
<1> DEFINE object   == worker[k].object
           released == [object EXCEPT !.finalizer = FALSE]
<1>1. worker[k].pc = "delete" /\ worker[k].pc # "idle"
  BY DEF DeleteCondition
<1>2. object \in Object /\ object.id \in Ids /\ object.deleting
  BY <1>1, BusyType DEF Object, LeakInv, WorkerPhases
<1>3. object.id \in used
  <2>1. object.id \in used \cup {None} /\ object.id # None
    BY <1>1 DEF LeakInv, IdsUsed, WorkerPhases
  <2>2. QED
    BY <2>1
<1>4. /\ released \in Object
      /\ released.spec = object.spec
      /\ released.deleting = object.deleting
      /\ released.id = object.id
  BY <1>2 DEF Object
<1>5. UNCHANGED <<cluster, cache, used>>
  BY DEF DeleteCondition
<1>6. \/ nr' = [nr EXCEPT ![object.id] = None]
      \/ nr' = nr
  BY DEF DeleteCondition
<1>7. \A i \in Ids : nr'[i] = nr[i] \/ nr'[i] = None
  BY <1>6 DEF TypeOK
<1>8. \/ Fail(k)
      \/ GoOn(k, "release", released) /\ nr'[object.id] = None
  <2>1. CASE nr[object.id] # None /\ nr' = [nr EXCEPT ![object.id] = None] /\ AfterDelete(k, "ok")
    BY <1>2, <2>1 DEF AfterDelete, TypeOK
  <2>2. CASE nr[object.id] = None /\ nr' = nr /\ AfterDelete(k, "resource not found")
    BY <2>2 DEF AfterDelete
  <2>3. CASE AfterDelete(k, "error")
    BY <2>3 DEF AfterDelete, Tolerated
  <2>4. QED
    BY <2>1, <2>2, <2>3 DEF DeleteCondition
<1> HIDE DEF object, released
<1>9. CASE Fail(k)
  <2>1. worker'[k] = Idle /\ \A j \in Kinds : j # k => worker'[j] = worker[j]
    BY <1>9, StopFields
  <2>2. WorkerCoherent' /\ WorkerPhases'
    <3>1. WorkerCoherent'
      BY <1>5, <2>1 DEF LeakInv, WorkerCoherent, Idle, cluster
    <3>2. ASSUME NEW j \in Kinds, j # k, worker[j].pc = "release",
                 worker[j].object.id # None
          PROVE  nr'[worker[j].object.id] = None
      <4>1. worker[j].object.id \in Ids /\ nr[worker[j].object.id] = None
        BY <3>2, BusyType DEF Object, LeakInv, WorkerPhases
      <4>2. QED
        BY <1>7, <4>1
    <3>3. WorkerPhases'
      BY <2>1, <3>2 DEF LeakInv, WorkerPhases, Idle
    <3>4. QED
      BY <3>1, <3>3
  <2>3. IdsUsed'
    BY <1>5, <1>7, <2>1 DEF LeakInv, IdsUsed, Idle, cluster
  <2>4. QED
    BY <1>5, <2>2, <2>3 DEF LeakInv, CacheCoherent, FinalizerKept, cluster
<1>10. CASE GoOn(k, "release", released) /\ nr'[object.id] = None
  <2>1. /\ WorkerCoherent'
        /\ worker'[k].pc = "release"
        /\ worker'[k].object = released
        /\ \A j \in Kinds : j # k => worker'[j] = worker[j]
    BY <1>1, <1>4, <1>5, <1>10, GoOnCoherent DEF Steps, LeakInv, object
  <2>2. ASSUME NEW j \in Kinds, j # k, worker[j].pc = "release",
               worker[j].object.id # None
        PROVE  nr'[worker[j].object.id] = None
    <3>1. worker[j].object.id \in Ids /\ nr[worker[j].object.id] = None
      BY <2>2, BusyType DEF Object, LeakInv, WorkerPhases
    <3>2. QED
      BY <1>7, <3>1
  <2>3. WorkerPhases'
    BY <1>2, <1>4, <1>10, <2>1, <2>2 DEF LeakInv, WorkerPhases
  <2>4. IdsUsed'
    BY <1>3, <1>4, <1>5, <1>7, <2>1 DEF LeakInv, IdsUsed, cluster
  <2>5. QED
    BY <1>5, <2>1, <2>3, <2>4 DEF LeakInv, CacheCoherent, FinalizerKept, cluster
<1>11. QED
  BY <1>8, <1>9, <1>10

LEMMA InitLeak == Init => LeakInv
BY DEF Init, LeakInv, CacheCoherent, WorkerCoherent, WorkerPhases,
       FinalizerKept, IdsUsed, Idle

LEMMA StepLeak ==
  ASSUME TypeOK, LeakInv, [Next]_vars PROVE LeakInv'
<1>1. CASE UNCHANGED vars
  BY <1>1, UnchangedLeak DEF vars
<1>2. CASE Next
  BY <1>2, UserLeak, ManagerLeak, ReconcileLeak, NewRelicLeak, WriteBackLeak,
     DeleteLeak DEF Next, Call
<1>3. QED
  BY <1>1, <1>2

\* Copies are never ahead of the cluster, a worker whose Update would be
\* accepted knows the recorded id, and a recorded id comes with the finalizer.
THEOREM LeakInvariant == Spec => []LeakInv
<1>1. TypeOK /\ LeakInv /\ [Next]_vars => LeakInv'
  BY StepLeak
<1>2. QED
  BY <1>1, InitLeak, TypeCorrect, PTL DEF Spec

-----------------------------------------------------------------------------
(* The action properties.                                                  *)

\* The steps that may change or remove a resource are few.
LEMMA Writers ==
  ASSUME TypeOK, [Next]_vars, NEW c \in Conditions, store'[c] # store[c]
  PROVE  \/ UserCreate(c) \/ UserEdit(c) \/ UserDelete(c)
         \/ \E k \in Kinds : /\ worker[k].key = c
                             /\ worker[k].pc # "idle"
                             /\ ~Conflict(k)
                             /\ UNCHANGED nr
                             /\ \/ Save(k) /\ store'[c] = worker[k].object
                                \/ Release(k) /\ store'[c] = None
<1>1. CASE User
  <2>1. PICK d \in Conditions : UserCreate(d) \/ UserEdit(d) \/ UserDelete(d)
    BY <1>1 DEF User
  <2>2. d = c
    BY <2>1 DEF UserCreate, UserEdit, UserDelete, Put, TypeOK
  <2>3. QED
    BY <2>1, <2>2
<1>2. ASSUME NEW k \in Kinds, Save(k) \/ Release(k)
      PROVE  /\ worker[k].key = c
             /\ worker[k].pc # "idle"
             /\ ~Conflict(k)
             /\ UNCHANGED nr
             /\ \/ Save(k) /\ store'[c] = worker[k].object
                \/ Release(k) /\ store'[c] = None
  <2>1. worker[k].pc # "idle" /\ worker[k].key \in Conditions
    BY <1>2, BusyType DEF Save, Release
  <2>2. QED
    BY <1>2, <2>1 DEF Save, Release, Put, TypeOK, cluster, newRelic
<1>3. QED
  BY <1>1, <1>2
  DEF Next, vars, cluster, newRelic, Informer, InformerSync, Resync, Crash,
      OutOfBandDelete, Reconcile, ReconcileFails, ReconcileNothing,
      ReconcileDeletion, ReconcileSpec, Begin, Call, Search, UpdateCondition,
      CreateCondition, DeleteCondition

LEMMA StepNoLeak ==
  ASSUME TypeOK, LeakInv, [Next]_vars, NEW c \in Conditions,
         store[c] # None, store'[c] = None, store[c].id # None
  PROVE  nr[store[c].id] = None
<1>1. store[c] \in Object /\ store[c].finalizer
  BY DEF TypeOK, LeakInv, FinalizerKept
<1>2. ~UserCreate(c) /\ ~UserEdit(c) /\ ~UserDelete(c)
  <2>1. ~UserCreate(c)
    BY DEF UserCreate
  <2>2. ~UserEdit(c)
    <3>1. ASSUME UserEdit(c) PROVE FALSE
      <4>1. PICK s \in SpecsFor[c] : Put(c, [store[c] EXCEPT !.spec = s])
        BY <3>1 DEF UserEdit
      <4>2. s \in Specs
        BY ConstantsAssumption
      <4>3. store'[c] = [store[c] EXCEPT !.spec = s]
        BY <4>1 DEF Put, TypeOK
      <4>4. QED
        BY <1>1, <4>2, <4>3, ObjectFields
    <3>2. QED
      BY <3>1
  <2>3. ~UserDelete(c)
    <3>1. UserDelete(c) => store'[c] = [store[c] EXCEPT !.deleting = TRUE]
      BY <1>1 DEF UserDelete, Put, TypeOK
    <3>2. QED
      BY <1>1, <3>1, ObjectFields
  <2>4. QED
    BY <2>1, <2>2, <2>3
<1>3. PICK k \in Kinds : /\ worker[k].key = c
                         /\ worker[k].pc # "idle"
                         /\ ~Conflict(k)
                         /\ \/ Save(k) /\ store'[c] = worker[k].object
                            \/ Release(k) /\ store'[c] = None
  BY <1>2, Writers
<1>4. Release(k)
  BY <1>3, BusyType, ObjectFields
<1>5. worker[k].pc = "release" /\ store[c].id = worker[k].object.id
  BY <1>3, <1>4 DEF Release, Conflict, LeakInv, WorkerCoherent
<1>6. QED
  BY <1>5 DEF LeakInv, WorkerPhases

\* A resource that records a condition leaves the cluster only when New Relic
\* no longer holds the condition.
THEOREM NoLeak == Spec => NoRecordedLeak
<1>1. TypeOK /\ LeakInv /\ [Next]_vars =>
        \A c \in Conditions :
          store[c] # None /\ store'[c] = None /\ store[c].id # None
            => nr[store[c].id] = None
  BY StepNoLeak
<1>2. QED
  BY <1>1, TypeCorrect, LeakInvariant, PTL DEF Spec, NoRecordedLeak

LEMMA StepIntent ==
  ASSUME TypeOK, LeakInv, [Next]_vars, userOps' = userOps,
         NEW c \in Conditions
  PROVE  /\ store[c] = None => store'[c] = None
         /\ store[c] # None =>
              IF store'[c] = None THEN store[c].deleting
              ELSE /\ store'[c].spec = store[c].spec
                   /\ store'[c].deleting = store[c].deleting
<1> SUFFICES ASSUME store'[c] # store[c]
             PROVE  /\ store[c] # None
                    /\ IF store'[c] = None THEN store[c].deleting
                       ELSE /\ store'[c].spec = store[c].spec
                            /\ store'[c].deleting = store[c].deleting
  OBVIOUS
<1>1. ~UserCreate(c) /\ ~UserEdit(c) /\ ~UserDelete(c)
  BY DEF UserCreate, UserEdit, UserDelete, UserOp, TypeOK
<1>2. PICK k \in Kinds : /\ worker[k].key = c
                         /\ worker[k].pc # "idle"
                         /\ ~Conflict(k)
                         /\ \/ Save(k) /\ store'[c] = worker[k].object
                            \/ Release(k) /\ store'[c] = None
  BY <1>1, Writers
<1>3. /\ store[c] # None
      /\ store[c].spec = worker[k].object.spec
      /\ store[c].deleting = worker[k].object.deleting
  BY <1>2 DEF Conflict, LeakInv, WorkerCoherent
<1>4. CASE Save(k) /\ store'[c] = worker[k].object
  BY <1>2, <1>3, <1>4, BusyType, ObjectFields
<1>5. CASE Release(k) /\ store'[c] = None
  BY <1>3, <1>5 DEF Release, LeakInv, WorkerPhases
<1>6. QED
  BY <1>2, <1>4, <1>5

\* Only the users change a spec, undo a deletion or ask for one.
THEOREM IntentSurvives == Spec => UserIntentSurvives
<1>1. TypeOK /\ LeakInv /\ [Next]_vars =>
        (userOps' = userOps =>
           \A c \in Conditions : store[c] # None =>
             IF store'[c] = None THEN store[c].deleting
             ELSE /\ store'[c].spec = store[c].spec
                  /\ store'[c].deleting = store[c].deleting)
  BY StepIntent
<1>2. QED
  BY <1>1, TypeCorrect, LeakInvariant, PTL DEF Spec, UserIntentSurvives

\* Each change of a resource gives it a new revision.
LEMMA Revisions ==
  ASSUME TypeOK, [Next]_vars, NEW c \in Conditions
  PROVE  \/ store'[c] = store[c] /\ revision'[c] = revision[c]
         \/ revision'[c] = revision[c] + 1
<1>1. UNCHANGED cluster \/ \E d, object : Put(d, object)
  BY DEF Next, vars, cluster, User, UserCreate, UserEdit, UserDelete, Informer,
         InformerSync, Resync, Crash, OutOfBandDelete, Reconcile, ReconcileFails,
         ReconcileNothing, ReconcileDeletion, ReconcileSpec, Begin, Call, Search,
         UpdateCondition, CreateCondition, Save, DeleteCondition, Release
<1>2. ASSUME NEW d, NEW object, Put(d, object)
      PROVE  \/ store'[c] = store[c] /\ revision'[c] = revision[c]
             \/ revision'[c] = revision[c] + 1
  BY <1>2 DEF Put, TypeOK
<1>3. QED
  BY <1>1, <1>2 DEF cluster

-----------------------------------------------------------------------------
(* Steps of those who compose the controllers with something else: nothing *)
(* is written in the cluster, a worker's call is refused, and New Relic    *)
(* lets conditions go.                                                     *)

Withheld ==
  /\ UNCHANGED <<store, revision, cache, used>>
  /\ queue' \subseteq Conditions /\ faults' \in Nat /\ userOps' \in Nat
  /\ worker' \in [Kinds -> Busy \cup {Idle}]
  /\ \A k \in Kinds :
       \/ worker'[k] = worker[k]
       \/ worker'[k] = Idle
       \/ /\ worker[k].pc = "write"
          /\ worker'[k] = [worker[k] EXCEPT !.pc = "save",
                                            !.object = worker[k].object]
  /\ nr' \in [Ids -> Specs \cup {None}]
  /\ \A i \in Ids : nr'[i] \in {nr[i], None}

\* A worker stops, or goes on as if its write had failed.
LEMMA Refusal ==
  ASSUME TypeOK, NEW k \in Kinds, worker[k].pc # "idle",
         \/ Return(k) \/ Fail(k)
         \/ /\ worker[k].pc = "write"
            /\ GoOn(k, "save", worker[k].object)
            /\ UNCHANGED queue,
         UNCHANGED <<cluster, cache, newRelic, userOps>>, faults' \in Nat
  PROVE  Withheld
<1>1. /\ worker[k] \in Busy
      /\ worker[k].key \in Conditions
      /\ worker[k].object \in Object
  BY BusyType
<1>2. CASE Return(k) \/ Fail(k)
  <2>1. /\ worker' = [worker EXCEPT ![k] = Idle]
        /\ queue' \subseteq Conditions
    BY <1>1, <1>2 DEF Return, Fail, TypeOK
  <2>2. worker' \in [Kinds -> Busy \cup {Idle}]
    BY <2>1 DEF TypeOK
  <2>3. QED
    BY <2>1, <2>2 DEF Withheld, TypeOK, cluster, newRelic
<1>3. CASE /\ worker[k].pc = "write"
           /\ GoOn(k, "save", worker[k].object)
           /\ UNCHANGED queue
  <2> DEFINE w == [worker[k] EXCEPT !.pc = "save", !.object = worker[k].object]
  <2>1. worker' = [worker EXCEPT ![k] = w]
    BY <1>3 DEF GoOn
  <2>2. w \in Busy
    BY <1>1 DEF Busy, Steps
  <2>3. \A j \in Kinds : worker'[j] = worker[j] \/ (j = k /\ worker'[j] = w)
    BY <2>1 DEF TypeOK
  <2>4. worker' \in [Kinds -> Busy \cup {Idle}]
    <3> HIDE DEF w
    <3>1. QED
      BY <2>1, <2>2 DEF TypeOK
  <2>5. QED
    BY <1>3, <2>3, <2>4 DEF Withheld, TypeOK, cluster, newRelic
<1>4. QED
  BY <1>2, <1>3

LEMMA WithheldType ==
  ASSUME TypeOK, Withheld PROVE TypeOK'
BY DEF TypeOK, Withheld

\* A worker that goes on through a step that is withheld does so as it is.
LEMMA WithheldWorker ==
  ASSUME TypeOK, Withheld, NEW k \in Kinds, worker'[k].pc # "idle"
  PROVE  /\ worker[k].pc # "idle"
         /\ worker'[k].key = worker[k].key
         /\ worker'[k].rev = worker[k].rev
         /\ worker'[k].object = worker[k].object
         /\ \/ worker'[k].pc = worker[k].pc
            \/ worker[k].pc = "write" /\ worker'[k].pc = "save"
<1>1. CASE worker'[k] = worker[k]
  BY <1>1
<1>2. CASE worker'[k] = Idle
  BY <1>2 DEF Idle
<1>3. CASE /\ worker[k].pc = "write"
           /\ worker'[k] = [worker[k] EXCEPT !.pc = "save",
                                             !.object = worker[k].object]
  <2>1. worker[k] \in Busy
    BY <1>3, BusyType
  <2>2. QED
    BY <1>3, <2>1 DEF Busy
<1>4. QED
  BY <1>1, <1>2, <1>3 DEF Withheld

LEMMA WithheldLeak ==
  ASSUME TypeOK, LeakInv, Withheld PROVE LeakInv'
<1>1. CacheCoherent' /\ FinalizerKept'
  BY DEF LeakInv, CacheCoherent, FinalizerKept, Withheld
<1>2. WorkerCoherent'
  <2> SUFFICES ASSUME NEW k \in Kinds, worker'[k].pc # "idle"
               PROVE  LET w == worker'[k] IN
                      /\ w.rev <= revision'[w.key]
                      /\ w.rev = revision'[w.key] =>
                           /\ store'[w.key] # None
                           /\ store'[w.key].spec = w.object.spec
                           /\ store'[w.key].deleting = w.object.deleting
                           /\ w.pc \in {"delete", "release"} =>
                                store'[w.key].id = w.object.id
    BY DEF WorkerCoherent
  <2>1. /\ worker[k].pc # "idle"
        /\ worker'[k].key = worker[k].key
        /\ worker'[k].rev = worker[k].rev
        /\ worker'[k].object = worker[k].object
        /\ worker'[k].pc \in {"delete", "release"} => worker'[k].pc = worker[k].pc
    BY WithheldWorker
  <2>2. store' = store /\ revision' = revision
    BY DEF Withheld
  <2>3. QED
    BY <2>1, <2>2 DEF LeakInv, WorkerCoherent
<1>3. WorkerPhases'
  <2> SUFFICES ASSUME NEW k \in Kinds, worker'[k].pc # "idle"
               PROVE  LET w == worker'[k] IN
                      /\ w.pc \in {"search", "write", "save"} =>
                           w.object.finalizer /\ ~w.object.deleting
                      /\ w.pc \in {"delete", "release"} => w.object.deleting
                      /\ w.pc = "delete" => w.object.id # None
                      /\ w.pc = "release" /\ w.object.id # None =>
                           nr'[w.object.id] = None
    BY DEF WorkerPhases
  <2>1. /\ worker[k].pc # "idle"
        /\ worker'[k].object = worker[k].object
        /\ \/ worker'[k].pc = worker[k].pc
           \/ worker[k].pc = "write" /\ worker'[k].pc = "save"
    BY WithheldWorker
  <2>2. worker[k].object \in Object
    BY <2>1, BusyType
  <2>3. worker[k].object.id # None => worker[k].object.id \in Ids
    BY <2>2 DEF Object
  <2>4. \A i \in Ids : nr[i] = None => nr'[i] = None
    BY DEF Withheld
  <2>5. QED
    BY <2>1, <2>3, <2>4 DEF LeakInv, WorkerPhases
<1>4. IdsUsed'
  <2>1. \A i \in Ids : nr'[i] # None => i \in used'
    BY DEF LeakInv, IdsUsed, Withheld
  <2>2. \A k \in Kinds : worker'[k].pc # "idle" =>
          worker'[k].object.id \in used' \cup {None}
    BY WithheldWorker DEF LeakInv, IdsUsed, Withheld
  <2>3. QED
    BY <2>1, <2>2 DEF LeakInv, IdsUsed, Withheld
<1>5. QED
  BY <1>1, <1>2, <1>3, <1>4 DEF LeakInv
=============================================================================
