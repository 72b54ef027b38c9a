------------------------ MODULE ConditionClaimsProofs ------------------------
(* A status that claims the current spec tells the truth, and New Relic    *)
(* never holds two conditions of one name, for every set of kinds,         *)
(* resources, specs and ids, when the resources do not share names: the    *)
(* first for users who never edit back and faults that delete nothing in   *)
(* New Relic itself, the second for users who never rename a condition and *)
(* searches that do not fail.                                              *)
EXTENDS ConditionLifecycleProofs

\* How a worker came to be where it is.
LEMMA WorkerMoves ==
  ASSUME TypeOK, [Next]_vars, NEW k \in Kinds, worker'[k].pc # "idle"
  PROVE  \/ worker'[k] = worker[k]
         \/ \E c \in Conditions : ReconcileDeletion(k, c) \/ ReconcileSpec(k, c)
         \/ Search(k) \/ UpdateCondition(k) \/ CreateCondition(k)
         \/ DeleteCondition(k)
<1>1. CASE UNCHANGED worker
  BY <1>1
<1>2. CASE Crash
  BY <1>2 DEF Crash, Idle
<1>3. ASSUME NEW j \in Kinds, NEW c \in Conditions, Reconcile(j, c), j # k
      PROVE  worker'[k] = worker[k]
  BY <1>3 DEF Reconcile, ReconcileFails, ReconcileNothing, ReconcileDeletion,
              ReconcileSpec, Begin, TypeOK
<1>4. ASSUME NEW j \in Kinds, Call(j), j # k
      PROVE  worker'[k] = worker[k]
  <2>1. \/ \E step, o : GoOn(j, step, o)
        \/ Return(j) \/ Fail(j)
    BY <1>4 DEF Call, Search, UpdateCondition, CreateCondition, Save,
                DeleteCondition, AfterDelete, Release
  <2>2. QED
    BY <1>4, <2>1, StopFields DEF GoOn, TypeOK
<1>5. ASSUME Save(k) \/ Release(k) PROVE FALSE
  BY <1>5, StopFields DEF Save, Release, Idle
<1>6. QED
  BY <1>1, <1>2, <1>3, <1>4, <1>5
  DEF Next, vars, User, UserCreate, UserEdit, UserDelete, UserOp, Informer,
      InformerSync, Resync, OutOfBandDelete, Call, Reconcile, ReconcileFails,
      ReconcileNothing

\* A worker that begins has read the cached copy.
LEMMA BeginFields ==
  ASSUME TypeOK, NEW k \in Kinds, NEW c \in Conditions,
         ReconcileDeletion(k, c) \/ ReconcileSpec(k, c)
  PROVE  LET o == cache[c].object
             w == worker'[k]
         IN  /\ KindOf[c] = k
             /\ o \in Object /\ o \in Copies(c)
             /\ w.key = c /\ w.rev = cache[c].rev
             /\ w.object \in Object
             /\ w.object.spec = o.spec /\ w.object.applied = o.applied
             /\ w.object.id = o.id /\ w.object.deleting = o.deleting
             /\ w.pc \in {"search", "write", "save"} =>
                  o.applied # o.spec
             /\ w.pc = "write" => o.id # None
             /\ w.pc # "save"
             /\ UNCHANGED <<store, revision, cache, nr, used>>
             /\ \A j \in Kinds : j # k => worker'[j] = worker[j]
<1> DEFINE o == cache[c].object
<1>1. o # None /\ KindOf[c] = k
  BY DEF ReconcileDeletion, ReconcileSpec, NothingToDo, Ready
<1>2. o \in Object /\ o \in Copies(c)
  BY <1>1, CopiesAre DEF TypeOK
<1>3. \A step, p : Begin(k, c, step, p) =>
        /\ worker'[k].pc = step /\ worker'[k].key = c
        /\ worker'[k].object = p /\ worker'[k].rev = cache[c].rev
        /\ UNCHANGED <<store, revision, cache, nr, used>>
        /\ \A j \in Kinds : j # k => worker'[j] = worker[j]
  BY DEF Begin, TypeOK, cluster, newRelic
<1>4. CASE ReconcileDeletion(k, c)
  <2> DEFINE p == [o EXCEPT !.finalizer = FALSE]
  <2>1. /\ p \in Object /\ p.spec = o.spec /\ p.applied = o.applied
        /\ p.id = o.id /\ p.deleting = o.deleting
    BY <1>2 DEF Object
  <2>2. \/ Begin(k, c, "release", p)
        \/ Begin(k, c, "delete", o)
    BY <1>4 DEF ReconcileDeletion
  <2>3. CASE Begin(k, c, "release", p)
    <3> HIDE DEF o, p
    <3>1. QED
      BY <1>1, <1>2, <1>3, <2>1, <2>3 DEF o
  <2>4. CASE Begin(k, c, "delete", o)
    <3> HIDE DEF o
    <3>1. QED
      BY <1>1, <1>2, <1>3, <2>4 DEF o
  <2>5. QED
    BY <2>2, <2>3, <2>4
<1>5. CASE ReconcileSpec(k, c)
  <2>1. LET p == Prepared(o) IN
        /\ p \in Object /\ p.spec = o.spec /\ p.applied = o.applied
        /\ p.id = o.id /\ p.deleting = o.deleting
    BY <1>2 DEF Object, Prepared
  <2>2. /\ Begin(k, c, IF Prepared(o).id = None THEN "search" ELSE "write",
                 Prepared(o))
        /\ ~Prepared(o).deleting /\ ~NothingToDo(o)
    BY <1>5 DEF ReconcileSpec
  <2>3. o.applied # o.spec
    BY <2>1, <2>2 DEF NothingToDo
  <2> HIDE DEF o
  <2>4. QED
    BY <1>1, <1>2, <1>3, <2>1, <2>2, <2>3 DEF o
<1>6. QED
  BY <1>4, <1>5

\* A worker that goes on keeps its key and its revision.
LEMMA GoOnFields ==
  ASSUME TypeOK, NEW k \in Kinds, worker[k].pc # "idle", NEW step, NEW o,
         GoOn(k, step, o)
  PROVE  /\ worker'[k].pc = step
         /\ worker'[k].object = o
         /\ worker'[k].key = worker[k].key
         /\ worker'[k].rev = worker[k].rev
         /\ \A j \in Kinds : j # k => worker'[j] = worker[j]
<1>1. worker[k] \in Busy
  BY BusyType
<1>2. worker'[k] = [worker[k] EXCEPT !.pc = step, !.object = o]
  BY DEF GoOn, TypeOK
<1>3. QED
  BY <1>1, <1>2 DEF Busy, GoOn, TypeOK

\* What a call changes of its worker's copy: the id only when there is none,
\* and the applied spec only together with what New Relic took.
LEMMA CallFields ==
  ASSUME TypeOK, LeakInv, NEW k \in Kinds, worker'[k].pc # "idle",
         Search(k) \/ UpdateCondition(k) \/ CreateCondition(k)
           \/ DeleteCondition(k)
  PROVE  LET o == worker[k].object
             p == worker'[k].object
         IN  /\ worker[k].pc # "idle"
             /\ worker'[k].key = worker[k].key
             /\ worker'[k].rev = worker[k].rev
             /\ o \in Object /\ p \in Object
             /\ p.spec = o.spec
             /\ p.deleting = o.deleting
             /\ \/ p.applied = o.applied
                \/ /\ worker'[k].pc = "save"
                   /\ p.applied = p.spec
                   /\ p.id \in Ids /\ nr'[p.id] = p.spec
             /\ \/ p.id = o.id
                \/ Search(k) /\ p.id \in Ids /\ SameName(p.id, o)
                \/ /\ CreateCondition(k)
                   /\ p.id \in Ids \ used /\ nr'[p.id] = p.spec
             /\ UNCHANGED <<store, revision, cache>>
             /\ \A j \in Kinds : j # k => worker'[j] = worker[j]
<1> DEFINE o == worker[k].object
<1>1. worker[k].pc # "idle" /\ o \in Object /\ o.spec \in Specs
  BY BusyType DEF Object, Search, UpdateCondition, CreateCondition, DeleteCondition
<1>2. UNCHANGED <<store, revision, cache>>
  BY DEF Search, UpdateCondition, CreateCondition, DeleteCondition, cluster
<1>3. ASSUME NEW i \in Ids
      PROVE  /\ Adopt(o, i) \in Object
             /\ Adopt(o, i).spec = o.spec
             /\ Adopt(o, i).deleting = o.deleting
             /\ Adopt(o, i).applied = o.applied
             /\ Adopt(o, i).id = i
             /\ Applied(o, i) \in Object
             /\ Applied(o, i).spec = o.spec
             /\ Applied(o, i).deleting = o.deleting
             /\ Applied(o, i).applied = o.spec
             /\ Applied(o, i).id = i
  BY <1>1 DEF Object, Adopt, Applied
<1>4. LET p == [o EXCEPT !.finalizer = FALSE] IN
      /\ p \in Object /\ p.spec = o.spec /\ p.deleting = o.deleting
      /\ p.applied = o.applied /\ p.id = o.id
  BY <1>1 DEF Object
<1>5. \E step, p : /\ GoOn(k, step, p)
                   /\ p \in Object
                   /\ p.spec = o.spec
                   /\ p.deleting = o.deleting
                   /\ \/ p.applied = o.applied
                      \/ /\ step = "save"
                         /\ p.applied = p.spec
                         /\ p.id \in Ids /\ nr'[p.id] = p.spec
                   /\ \/ p.id = o.id
                      \/ Search(k) /\ p.id \in Ids /\ SameName(p.id, o)
                      \/ /\ CreateCondition(k)
                         /\ p.id \in Ids \ used /\ nr'[p.id] = p.spec
  <2> HIDE DEF o
  <2>1. CASE Search(k)
    <3>1. \/ GoOn(k, "write", o)
          \/ \E i \in Ids : SameName(i, o) /\ GoOn(k, "write", Adopt(o, i))
      BY <2>1 DEF Search, o
    <3>2. QED
      BY <1>1, <1>3, <2>1, <3>1
  <2>2. CASE UpdateCondition(k)
    <3>1. o.id \in Ids
      BY <1>1, <2>2 DEF UpdateCondition, Object, o
    <3>2. \/ GoOn(k, "save", o)
          \/ /\ GoOn(k, "save", Applied(o, o.id))
             /\ nr' = [nr EXCEPT ![o.id] = o.spec]
      BY <2>2 DEF UpdateCondition, o
    <3>3. nr' = [nr EXCEPT ![o.id] = o.spec] => nr'[o.id] = o.spec
      BY <3>1 DEF TypeOK
    <3>4. QED
      BY <1>1, <1>3, <3>1, <3>2, <3>3
  <2>3. CASE CreateCondition(k)
    <3>1. \/ GoOn(k, "save", o)
          \/ /\ GoOn(k, "save", Applied(o, FreshId))
             /\ Ids \ used # {}
             /\ NewCondition(o.spec)
      BY <2>3 DEF CreateCondition, o
    <3>2. CASE GoOn(k, "save", o)
      BY <1>1, <3>2
    <3>3. CASE /\ GoOn(k, "save", Applied(o, FreshId))
               /\ Ids \ used # {}
               /\ NewCondition(o.spec)
      <4>1. FreshId \in Ids \ used
        BY <3>3, FreshIdType
      <4>2. nr'[FreshId] = o.spec
        BY <3>3, <4>1 DEF NewCondition, TypeOK
      <4>3. QED
        BY <1>3, <2>3, <3>3, <4>1, <4>2
    <3>4. QED
      BY <3>1, <3>2, <3>3
  <2>4. CASE DeleteCondition(k)
    <3>1. ~Fail(k)
      BY StopFields DEF Idle
    <3>2. GoOn(k, "release", [o EXCEPT !.finalizer = FALSE])
      BY <2>4, <3>1, DeleteFacts DEF o
    <3>3. QED
      BY <1>4, <3>2
  <2>5. QED
    BY <2>1, <2>2, <2>3, <2>4
<1>6. PICK step, p : /\ GoOn(k, step, p)
                   /\ p \in Object
                   /\ p.spec = o.spec
                   /\ p.deleting = o.deleting
                   /\ \/ p.applied = o.applied
                      \/ /\ step = "save"
                         /\ p.applied = p.spec
                         /\ p.id \in Ids /\ nr'[p.id] = p.spec
                   /\ \/ p.id = o.id
                      \/ Search(k) /\ p.id \in Ids /\ SameName(p.id, o)
                      \/ /\ CreateCondition(k)
                         /\ p.id \in Ids \ used /\ nr'[p.id] = p.spec
  BY <1>5
<1>7. /\ worker'[k].pc = step
      /\ worker'[k].object = p
      /\ worker'[k].key = worker[k].key
      /\ worker'[k].rev = worker[k].rev
      /\ \A j \in Kinds : j # k => worker'[j] = worker[j]
  BY <1>1, <1>6, GoOnFields
<1> HIDE DEF o
<1>8. QED
  BY <1>1, <1>2, <1>6, <1>7 DEF o

\* The steps that may change a condition that a copy records are few.
LEMMA NewRelicWriters ==
  ASSUME TypeOK, LeakInv, Ownership, [Next]_vars,
         NEW c \in Conditions, NEW o \in Copies(c), o.id # None,
         nr'[o.id] # nr[o.id]
  PROVE  \/ OutOfBandDelete(o.id)
         \/ \E k \in Kinds :
              /\ worker[k].pc # "idle"
              /\ worker[k].key = c
              /\ worker[k].object.id = o.id
              /\ \/ UpdateCondition(k) /\ nr'[o.id] = worker[k].object.spec
                 \/ /\ DeleteCondition(k)
                    /\ worker[k].object.deleting
                    /\ nr'[o.id] = None
<1>1. o \in Object /\ o.id \in Ids /\ o.id \in used
  BY CopiesAre, CopiesUsed DEF Object, LeakInv
<1>2. ASSUME NEW k \in Kinds, worker[k].pc # "idle", worker[k].object.id = o.id
      PROVE  worker[k].key = c
  <2>1. /\ worker[k].key \in Conditions
        /\ worker[k].object \in Copies(worker[k].key)
    BY <1>2, WorkerCopy
  <2>2. QED
    BY <1>2, <2>1 DEF Ownership
<1>3. ASSUME NEW i \in Ids, OutOfBandDelete(i) PROVE i = o.id
  BY <1>1, <1>3 DEF OutOfBandDelete, TypeOK
<1>4. ASSUME NEW k \in Kinds, UpdateCondition(k)
      PROVE  /\ worker[k].pc # "idle"
             /\ worker[k].object.id = o.id
             /\ nr'[o.id] = worker[k].object.spec
  BY <1>1, <1>4 DEF UpdateCondition, TypeOK
<1>5. ASSUME NEW k \in Kinds, DeleteCondition(k)
      PROVE  /\ worker[k].pc # "idle"
             /\ worker[k].object.id = o.id
             /\ worker[k].object.deleting
             /\ nr'[o.id] = None
  BY <1>1, <1>5, DeleteFacts DEF TypeOK
<1>6. ASSUME NEW k \in Kinds, CreateCondition(k) PROVE FALSE
  BY <1>1, <1>6, FreshIdType
  DEF CreateCondition, NewCondition, newRelic, TypeOK
<1>7. \/ \E i \in Ids : OutOfBandDelete(i)
      \/ \E k \in Kinds :
           UpdateCondition(k) \/ CreateCondition(k) \/ DeleteCondition(k)
  BY DEF Next, vars, newRelic, User, UserCreate, UserEdit, UserDelete, UserOp,
         Informer, InformerSync, Resync, Crash, Reconcile, ReconcileFails,
         ReconcileNothing, ReconcileDeletion, ReconcileSpec, Begin, Call,
         Search, Save, Release
<1>8. QED
  BY <1>2, <1>3, <1>4, <1>5, <1>6, <1>7

-----------------------------------------------------------------------------
(* AppliedIsTrue.                                                          *)

\* A step either leaves the cached copy or brings it up to date.
LEMMA CacheMoves ==
  ASSUME TypeOK, [Next]_vars, NEW c \in Conditions
  PROVE  \/ cache'[c] = cache[c]
         \/ /\ cache'[c].object = store[c] /\ cache'[c].rev = revision[c]
            /\ UNCHANGED <<store, revision>>
            /\ UNCHANGED worker \/ \A k \in Kinds : worker'[k].pc = "idle"
<1>1. CASE UNCHANGED cache
  BY <1>1
<1>2. CASE Crash
  BY <1>2 DEF Crash, cluster, Idle
<1>3. ASSUME NEW d \in Conditions, InformerSync(d)
      PROVE  \/ cache'[c] = cache[c]
             \/ /\ cache'[c].object = store[c] /\ cache'[c].rev = revision[c]
                /\ UNCHANGED <<store, revision, worker>>
  BY <1>3 DEF InformerSync, cluster, TypeOK
<1>4. \/ UNCHANGED cache
      \/ Crash
      \/ \E d \in Conditions : InformerSync(d)
  BY DEF Next, vars, User, UserCreate, UserEdit, UserDelete, UserOp, Informer,
         Resync, OutOfBandDelete, Reconcile, ReconcileFails, ReconcileNothing,
         ReconcileDeletion, ReconcileSpec, Begin, Call, Search,
         UpdateCondition, CreateCondition, Save, DeleteCondition, Release
<1>5. QED
  BY <1>1, <1>2, <1>3, <1>4

LEMMA OwnWorkerKept ==
  ASSUME TypeOK, LeakInv, OwnWorker, [Next]_vars
  PROVE  OwnWorker'
<1> SUFFICES ASSUME NEW k \in Kinds, worker'[k].pc # "idle"
             PROVE  /\ KindOf[worker'[k].key] = k
                    /\ worker'[k].rev <= cache'[worker'[k].key].rev
  BY DEF OwnWorker
<1>1. \/ \E c \in Conditions : ReconcileDeletion(k, c) \/ ReconcileSpec(k, c)
      \/ /\ worker[k].pc # "idle"
         /\ worker'[k].key = worker[k].key
         /\ worker'[k].rev = worker[k].rev
  BY WorkerMoves, CallFields
<1>2. ASSUME NEW c \in Conditions, ReconcileDeletion(k, c) \/ ReconcileSpec(k, c)
      PROVE  /\ KindOf[worker'[k].key] = k
             /\ worker'[k].rev <= cache'[worker'[k].key].rev
  <2>1. /\ worker'[k].key = c /\ worker'[k].rev = cache[c].rev
        /\ cache' = cache /\ KindOf[c] = k
    BY <1>2, BeginFields
  <2>2. cache[c].rev \in Nat
    BY DEF TypeOK
  <2>3. QED
    BY <2>1, <2>2
<1>3. CASE /\ worker[k].pc # "idle"
           /\ worker'[k].key = worker[k].key
           /\ worker'[k].rev = worker[k].rev
  <2> DEFINE c == worker[k].key
  <2>1. c \in Conditions /\ KindOf[c] = k /\ worker[k].rev <= cache[c].rev
    BY <1>3, BusyType DEF OwnWorker
  <2>2. worker[k].rev <= revision[c]
    BY <1>3 DEF LeakInv, WorkerCoherent
  <2>3. cache'[c] = cache[c] \/ cache'[c].rev = revision[c]
    BY <2>1, CacheMoves
  <2>4. QED
    BY <1>3, <2>1, <2>2, <2>3
<1>4. QED
  BY <1>1, <1>2, <1>3

\* A step of a user or of a worker makes at most one new copy, and one whose
\* applied spec is not new only by an edit.
LEMMA StepCopied ==
  ASSUME TypeOK, TypeOK', LeakInv, [Next]_vars,
         NEW d \in Conditions, NEW p \in Copies(d)'
  PROVE  \/ \E o \in Copies(d) :
              /\ p.spec = o.spec
              /\ p.applied = o.applied
         \/ p.applied \in {None, p.spec}
         \/ \E o \in Copies(d) :
              /\ <<o.spec, p.spec>> \in Edits
              /\ p.applied = o.applied
<1>1. d # None /\ p # None /\ p \in Object
  BY ConstantsAssumption, CopiesAreNext
<1>2. store[d] # None => store[d] \in Object /\ store[d] \in Copies(d)
  BY CopiesAre DEF TypeOK
<1>3. CASE p \in Copies(d)
  BY <1>3
<1>4. CASE p = store'[d] /\ store'[d] # store[d]
  <2>1. CASE UserCreate(d)
    <3>1. \E s \in SpecsFor[d] :
            store'[d] = [spec |-> s, deleting |-> FALSE, finalizer |-> FALSE,
                         id |-> None, applied |-> None]
      BY <2>1 DEF UserCreate, Put, TypeOK
    <3>2. QED
      BY <1>4, <3>1
  <2>2. CASE UserEdit(d)
    <3>1. PICK s \in SpecsFor[d] : /\ <<store[d].spec, s>> \in Edits
                                   /\ store'[d] = [store[d] EXCEPT !.spec = s]
      BY <2>2 DEF UserEdit, Put, TypeOK
    <3>2. store[d] # None
      BY <2>2 DEF UserEdit
    <3>3. store'[d].spec = s /\ store'[d].applied = store[d].applied
      BY <1>2, <3>1, <3>2 DEF Object
    <3>4. QED
      BY <1>2, <1>4, <3>1, <3>2, <3>3
  <2>3. CASE UserDelete(d)
    <3>1. store[d] # None
      BY <2>3 DEF UserDelete
    <3>2. store'[d] = [store[d] EXCEPT !.deleting = TRUE]
      BY <1>1, <1>4, <2>3 DEF UserDelete, Put, TypeOK
    <3>3. store'[d].spec = store[d].spec /\ store'[d].applied = store[d].applied
      BY <1>2, <3>1, <3>2 DEF Object
    <3>4. QED
      BY <1>2, <1>4, <3>1, <3>3
  <2>4. ASSUME NEW k \in Kinds, worker[k].key = d, worker[k].pc # "idle",
               store'[d] = worker[k].object
        PROVE  p \in Copies(d)
    BY <1>1, <1>4, <2>4, CopiesAre
  <2>5. QED
    BY <1>1, <1>3, <1>4, <2>1, <2>2, <2>3, <2>4, Writers
<1>5. CASE p = cache'[d].object
  <2>1. p = cache[d].object \/ p = store[d]
    BY <1>5, CacheMoves
  <2>2. QED
    BY <1>1, <1>3, <2>1, CopiesAre
<1>6. ASSUME NEW k \in Kinds, worker'[k].key = d, worker'[k].object = p,
             worker'[k] # worker[k]
      PROVE  \/ \E o \in Copies(d) :
                  p.spec = o.spec /\ p.applied = o.applied
             \/ p.applied \in {None, p.spec}
  <2>1. worker'[k].pc # "idle"
    <3>1. worker'[k] \in Busy \cup {Idle}
      BY DEF TypeOK
    <3>2. QED
      BY <1>1, <1>6, <3>1 DEF Idle, Busy, Steps
  <2>2. ASSUME NEW c \in Conditions, ReconcileDeletion(k, c) \/ ReconcileSpec(k, c)
        PROVE  \E o \in Copies(d) : p.spec = o.spec /\ p.applied = o.applied
    BY <1>6, <2>2, BeginFields
  <2>3. CASE Search(k) \/ UpdateCondition(k) \/ CreateCondition(k)
             \/ DeleteCondition(k)
    <3>1. /\ worker[k].pc # "idle" /\ worker[k].key = d
          /\ worker[k].object \in Object
          /\ p.spec = worker[k].object.spec
          /\ p.applied = worker[k].object.applied \/ p.applied = p.spec
      BY <1>6, <2>1, <2>3, CallFields
    <3>2. worker[k].object \in Copies(d)
      BY <3>1, CopiesAre, ObjectFields
    <3>3. QED
      BY <3>1, <3>2
  <2>4. QED
    BY <1>6, <2>1, <2>2, <2>3, WorkerMoves
<1>7. ASSUME NEW k \in Kinds, worker'[k].key = d, worker'[k].object = p,
             worker'[k] = worker[k]
      PROVE  p \in Copies(d)
  BY <1>1, <1>7, CopiesAre
<1>8. p = store'[d] /\ store'[d] = store[d] => p \in Copies(d)
  BY <1>1, CopiesAre
<1>9. QED
  BY <1>3, <1>4, <1>5, <1>6, <1>7, <1>8, CopiesAreNext

LEMMA AppliedBeforeKept ==
  ASSUME NEW order, Forward(order),
         TypeOK, TypeOK', LeakInv, AppliedBefore(order), [Next]_vars
  PROVE  AppliedBefore(order)'
<1> SUFFICES ASSUME NEW d \in Conditions, NEW p \in Copies(d)'
             PROVE  \/ p.applied \in {None, p.spec}
                    \/ <<p.applied, p.spec>> \in order
  BY DEF AppliedBefore
<1>1. p.spec \in Specs
  BY CopiesAreNext DEF Object
<1>2. ASSUME NEW o \in Copies(d)
      PROVE  /\ o.spec \in Specs /\ o.applied \in Specs \cup {None}
             /\ o.applied \in {None, o.spec} \/ <<o.applied, o.spec>> \in order
  BY CopiesAre DEF Object, AppliedBefore
<1>3. ASSUME NEW o \in Copies(d), <<o.spec, p.spec>> \in Edits,
             p.applied = o.applied
      PROVE  p.applied = None \/ <<p.applied, p.spec>> \in order
  <2>1. <<o.spec, p.spec>> \in order
    BY <1>3 DEF Forward
  <2>2. QED
    BY <1>1, <1>2, <1>3, <2>1 DEF Forward
<1>4. QED
  BY <1>2, <1>3, StepCopied

\* What a worker that has not yet claimed its spec may do.
LEMMA ClaimInHandKept ==
  ASSUME TypeOK, TypeOK', LeakInv, Ownership, OwnWorker,
         "outOfBand" \notin FaultKinds, [Next]_vars,
         NEW k \in Kinds, ClaimInHand(k)
  PROVE  ClaimInHand(k)'
<1> SUFFICES LET o == worker'[k].object IN
             /\ worker'[k].pc \in {"search", "write"} =>
                  o.applied # o.spec
             /\ worker'[k].pc = "save" /\ o.applied = o.spec =>
                  o.id # None /\ nr'[o.id] = o.spec
  BY DEF ClaimInHand, Held
<1> DEFINE o == worker'[k].object
<1>1. CASE worker'[k].pc \notin {"search", "write", "save"}
  BY <1>1
<1>2. CASE worker'[k] = worker[k] /\ worker[k].pc \in {"search", "write", "save"}
  <2>1. worker[k].pc # "idle"
    BY <1>2
  <2>2. /\ worker[k].key \in Conditions
        /\ worker[k].object \in Copies(worker[k].key)
    BY <2>1, WorkerCopy
  <2>3. ASSUME worker[k].pc = "save", o.id # None, nr'[o.id] # nr[o.id]
        PROVE  FALSE
    <3>1. PICK j \in Kinds : /\ worker[j].pc # "idle"
                             /\ worker[j].key = worker[k].key
                             /\ UpdateCondition(j) \/ DeleteCondition(j)
      BY <1>2, <2>2, <2>3, NewRelicWriters DEF OutOfBandDelete, Fault
    <3>2. j = k
      BY <2>1, <3>1 DEF OwnWorker
    <3>3. QED
      BY <2>3, <3>1, <3>2 DEF UpdateCondition, DeleteCondition
  <2>4. QED
    BY <1>2, <2>3 DEF ClaimInHand, Held
<1>3. ASSUME NEW c \in Conditions, ReconcileDeletion(k, c) \/ ReconcileSpec(k, c)
      PROVE  /\ worker'[k].pc # "save"
             /\ worker'[k].pc \in {"search", "write"} => o.applied # o.spec
  BY <1>3, BeginFields
<1>4. CASE /\ worker'[k].pc \in {"search", "write", "save"}
           /\ Search(k) \/ UpdateCondition(k) \/ CreateCondition(k)
  <2>1. worker[k].pc \in {"search", "write"}
    BY <1>4 DEF Search, UpdateCondition, CreateCondition
  <2>2. worker[k].object.applied # worker[k].object.spec
    BY <2>1 DEF ClaimInHand
  <2>3. /\ o.spec = worker[k].object.spec
        /\ \/ o.applied = worker[k].object.applied
           \/ /\ worker'[k].pc = "save"
              /\ o.applied = o.spec
              /\ o.id \in Ids /\ nr'[o.id] = o.spec
    BY <1>4, CallFields
  <2>4. None \notin Ids
    BY ConstantsAssumption
  <2>5. QED
    BY <1>4, <2>2, <2>3, <2>4
<1>5. CASE DeleteCondition(k)
  <2>1. worker'[k].pc \in {"idle", "release"}
    <3>1. worker[k].pc # "idle"
      BY <1>5 DEF DeleteCondition
    <3>2. Fail(k) \/ \E p : GoOn(k, "release", p)
      BY <1>5, DeleteFacts
    <3>3. QED
      BY <3>1, <3>2, StopFields, GoOnFields DEF Idle
  <2>2. QED
    BY <1>1, <2>1
<1>6. QED
  BY <1>1, <1>2, <1>3, <1>4, <1>5, WorkerMoves

\* A claim that was not there before is one that its worker has made.
LEMMA ClaimMade ==
  ASSUME NEW order, Forward(order),
         TypeOK, TypeOK', LeakInv, OwnWorker, AppliedBefore(order), [Next]_vars,
         NEW c \in Conditions, Claims(store'[c]), store'[c] # store[c]
  PROVE  \E k \in Kinds :
           /\ Save(k) /\ worker[k].key = c
           /\ store'[c] = worker[k].object
           /\ UNCHANGED <<nr, cache>>
           /\ cache[c].object = store[c]
           /\ store[c] # None
           /\ store[c].spec = worker[k].object.spec
<1>1. store'[c] # None /\ store'[c] \in Object
      /\ ~store'[c].deleting /\ store'[c].applied = store'[c].spec
  BY DEF Claims, TypeOK
<1>2. ~UserCreate(c)
  <2>1. SUFFICES ASSUME UserCreate(c) PROVE FALSE
    OBVIOUS
  <2>2. PICK s \in SpecsFor[c] :
          store'[c] = [spec |-> s, deleting |-> FALSE, finalizer |-> FALSE,
                       id |-> None, applied |-> None]
    BY <2>1 DEF UserCreate, Put, TypeOK
  <2>3. s = None /\ s \in Specs
    BY <1>1, <2>2, ConstantsAssumption
  <2>4. QED
    BY <2>3, ConstantsAssumption
<1>3. ~UserEdit(c)
  <2>1. SUFFICES ASSUME UserEdit(c) PROVE FALSE
    OBVIOUS
  <2>2. PICK s \in SpecsFor[c] : /\ <<store[c].spec, s>> \in Edits
                                 /\ store'[c] = [store[c] EXCEPT !.spec = s]
    BY <2>1 DEF UserEdit, Put, TypeOK
  <2>3. store[c] # None /\ store[c] \in Object /\ store[c] \in Copies(c)
    BY <2>1, CopiesAre DEF UserEdit, TypeOK
  <2>4. s \in Specs /\ store[c].applied = s
    BY <1>1, <2>2, <2>3, ConstantsAssumption DEF Object
  <2>5. <<store[c].spec, s>> \in order /\ <<s, s>> \notin order
    BY <2>2, <2>4 DEF Forward
  <2>6. s # None /\ store[c].spec \in Specs
    BY <2>3, <2>4, ConstantsAssumption DEF Object
  <2>7. s = store[c].spec \/ <<s, store[c].spec>> \in order
    BY <2>3, <2>4, <2>6 DEF AppliedBefore
  <2>8. QED
    BY <2>4, <2>5, <2>6, <2>7 DEF Forward
<1>4. ~UserDelete(c)
  <2>1. SUFFICES ASSUME UserDelete(c) PROVE FALSE
    OBVIOUS
  <2>2. store[c] # None /\ store[c] \in Object
    BY <2>1 DEF UserDelete, TypeOK
  <2>3. store'[c] = [store[c] EXCEPT !.deleting = TRUE]
    BY <1>1, <2>1 DEF UserDelete, Put, TypeOK
  <2>4. QED
    BY <1>1, <2>2, <2>3 DEF Object
<1>5. PICK k \in Kinds : /\ worker[k].key = c
                         /\ worker[k].pc # "idle"
                         /\ ~Conflict(k)
                         /\ UNCHANGED nr
                         /\ Save(k) /\ store'[c] = worker[k].object
  BY <1>1, <1>2, <1>3, <1>4, Writers
<1>6. worker[k].rev = revision[c] /\ worker[k].rev <= cache[c].rev
  BY <1>5 DEF Conflict, OwnWorker
<1>7. /\ cache[c].rev <= revision[c]
      /\ cache[c].rev = revision[c] => cache[c].object = store[c]
      /\ cache[c].rev \in Nat /\ revision[c] \in Nat
  BY DEF LeakInv, CacheCoherent, TypeOK
<1>8. cache[c].object = store[c]
  BY <1>6, <1>7
<1>9. store[c] # None /\ store[c].spec = worker[k].object.spec
  BY <1>5, <1>6 DEF LeakInv, WorkerCoherent
<1>10. UNCHANGED cache
  BY <1>5 DEF Save
<1>11. QED
  BY <1>5, <1>8, <1>9, <1>10

LEMMA ClaimsKnownKept ==
  ASSUME NEW order, Forward(order),
         TypeOK, TypeOK', LeakInv, OwnWorker, OwnWorker', AppliedBefore(order),
         ClaimsKnown, [Next]_vars
  PROVE  ClaimsKnown'
<1> SUFFICES ASSUME NEW c \in Conditions, Claims(store'[c])
             PROVE  /\ cache'[c].object # None
                    /\ cache'[c].object.spec = store'[c].spec
                    /\ \A k \in Kinds :
                         worker'[k].pc # "idle" /\ worker'[k].key = c =>
                           worker'[k].object.spec = store'[c].spec
  BY DEF ClaimsKnown, Claims
<1>1. CASE store'[c] # store[c]
  <2>1. PICK k \in Kinds : /\ Save(k) /\ worker[k].key = c
                           /\ store'[c] = worker[k].object
                           /\ UNCHANGED cache
                           /\ cache[c].object = store[c]
                           /\ store[c] # None
                           /\ store[c].spec = worker[k].object.spec
    BY <1>1, ClaimMade
  <2>2. \A j \in Kinds : j # k => worker'[j] = worker[j]
    BY <2>1, StopFields DEF Save
  <2>3. worker'[k].pc = "idle"
    BY <2>1, StopFields DEF Save, Idle
  <2>4. worker[k].pc # "idle" /\ KindOf[c] = k
    BY <2>1 DEF Save, OwnWorker
  <2>5. ASSUME NEW j \in Kinds, worker'[j].pc # "idle", worker'[j].key = c
        PROVE  FALSE
    BY <2>2, <2>3, <2>4, <2>5 DEF OwnWorker
  <2>6. QED
    BY <2>1, <2>5
<1>2. CASE store'[c] = store[c]
  <2>1. /\ store[c] # None
        /\ cache[c].object # None /\ cache[c].object.spec = store[c].spec
        /\ \A k \in Kinds : worker[k].pc # "idle" /\ worker[k].key = c =>
             worker[k].object.spec = store[c].spec
    BY <1>2 DEF ClaimsKnown, Claims
  <2>2. cache'[c].object # None /\ cache'[c].object.spec = store'[c].spec
    BY <1>2, <2>1, CacheMoves
  <2>3. ASSUME NEW k \in Kinds, worker'[k].pc # "idle", worker'[k].key = c
        PROVE  worker'[k].object.spec = store[c].spec
    <3>1. CASE worker'[k] = worker[k]
      BY <2>1, <2>3, <3>1
    <3>2. ASSUME NEW d \in Conditions, ReconcileDeletion(k, d) \/ ReconcileSpec(k, d)
          PROVE  worker'[k].object.spec = store[c].spec
      BY <2>1, <2>3, <3>2, BeginFields
    <3>3. CASE Search(k) \/ UpdateCondition(k) \/ CreateCondition(k)
               \/ DeleteCondition(k)
      BY <2>1, <2>3, <3>3, CallFields
    <3>4. QED
      BY <2>3, <3>1, <3>2, <3>3, WorkerMoves
  <2>4. QED
    BY <1>2, <2>2, <2>3
<1>3. QED
  BY <1>1, <1>2

\* A claim that is made is as true as the worker's copy, and one that stays
\* is kept by what the other copies know.
LEMMA AppliedKept ==
  ASSUME NEW order, Forward(order),
         TypeOK, TypeOK', LeakInv, Ownership, Doomed, OwnWorker, AppliedBefore(order),
         ClaimsKnown, "outOfBand" \notin FaultKinds, [Next]_vars,
         NEW c \in Conditions, Claims(store'[c]),
         \A k \in Kinds :
           worker[k].pc = "save" /\ worker[k].object = store'[c]
             => Held(worker[k].object),
         store'[c] = store[c] => Held(store[c])
  PROVE  store'[c].id # None /\ nr'[store'[c].id] = store'[c].spec
<1>1. CASE store'[c] # store[c]
  <2>1. PICK k \in Kinds : /\ Save(k) /\ store'[c] = worker[k].object
                           /\ UNCHANGED nr
    BY <1>1, ClaimMade
  <2>2. QED
    BY <2>1 DEF Save, Held
<1>2. CASE store'[c] = store[c]
  <2> DEFINE o == store[c]
  <2>1. o \in Copies(c) /\ o.id # None /\ nr[o.id] = o.spec /\ ~o.deleting
        /\ Claims(store[c]) /\ o.spec # None
    BY <1>2, CopiesAre, ConstantsAssumption DEF Claims, Held, Object
  <2>2. ASSUME nr'[o.id] # nr[o.id] PROVE nr'[o.id] = o.spec
    <3>1. PICK k \in Kinds : /\ worker[k].pc # "idle"
                             /\ worker[k].key = c
                             /\ worker[k].object.id = o.id
                             /\ \/ /\ UpdateCondition(k)
                                   /\ nr'[o.id] = worker[k].object.spec
                                \/ /\ DeleteCondition(k)
                                   /\ worker[k].object.deleting
      BY <2>1, <2>2, NewRelicWriters DEF OutOfBandDelete, Fault
    <3>2. worker[k].object.spec = o.spec
      BY <2>1, <3>1 DEF ClaimsKnown
    <3>3. worker[k].object \in Copies(c)
      BY <3>1, WorkerCopy
    <3>4. ~worker[k].object.deleting
      BY <2>1, <3>1, <3>3 DEF Doomed
    <3>5. QED
      BY <3>1, <3>2, <3>4
  <2>3. QED
    BY <1>2, <2>1, <2>2
<1>3. QED
  BY <1>1, <1>2

LEMMA StepClaims ==
  ASSUME NEW order, Forward(order),
         TypeOK, TypeOK', LeakInv, LifecycleInv, ClaimInv(order),
         "outOfBand" \notin FaultKinds, [Next]_vars
  PROVE  ClaimInv(order)'
<1>1. Ownership /\ Doomed
  BY DEF LifecycleInv
<1>2. OwnWorker'
  BY OwnWorkerKept DEF ClaimInv
<1>3. AppliedBefore(order)' /\ ClaimsInHand'
  BY <1>1, AppliedBeforeKept, ClaimInHandKept DEF ClaimInv, ClaimsInHand
<1>4. ClaimsKnown'
  BY <1>2, ClaimsKnownKept DEF ClaimInv
<1>5. AppliedIsTrue'
  <2> SUFFICES ASSUME NEW c \in Conditions, Claims(store'[c])
               PROVE  store'[c].id # None /\ nr'[store'[c].id] = store'[c].spec
    BY DEF AppliedIsTrue, Claims
  <2>1. store'[c] = store[c] => Held(store[c])
    BY DEF Claims, ClaimInv, AppliedIsTrue, Held
  <2>2. \A k \in Kinds : worker[k].pc = "save" /\ worker[k].object = store'[c]
          => Held(worker[k].object)
    BY DEF Claims, ClaimInv, ClaimsInHand, ClaimInHand
  <2>3. QED
    BY <1>1, <2>1, <2>2, AppliedKept DEF ClaimInv
<1>6. QED
  BY <1>2, <1>3, <1>4, <1>5 DEF ClaimInv

\* As long as no user edits back to an earlier spec and nobody deletes a
\* condition in New Relic itself, a status that claims the current spec is
\* true: Reconcile may return at once on it.
THEOREM AppliedTrue ==
  ASSUME NEW order, Forward(order), DistinctNames,
         "outOfBand" \notin FaultKinds
  PROVE  Spec => []AppliedIsTrue
<1>1. Init => ClaimInv(order)
  <2>1. ASSUME Init PROVE \A c \in Conditions : Copies(c) = {}
    BY <2>1, ConstantsAssumption DEF Init, Copies, Idle
  <2>2. QED
    BY <2>1 DEF Init, Idle, ClaimInv, OwnWorker, AppliedBefore, ClaimsInHand,
                ClaimInHand, ClaimsKnown, Claims, AppliedIsTrue
<1>2. TypeOK /\ TypeOK' /\ LeakInv /\ LifecycleInv /\ ClaimInv(order) /\ [Next]_vars
        => ClaimInv(order)'
  BY StepClaims
<1>3. ClaimInv(order) => AppliedIsTrue
  BY DEF ClaimInv
<1>4. QED
  BY <1>1, <1>2, <1>3, TypeCorrect, LeakInvariant, LifecycleInvariant, PTL
  DEF Spec

-----------------------------------------------------------------------------
(* NoDuplicates.                                                           *)

LEMMA OwnWorkerInvariant == Spec => []OwnWorker
<1>1. Init => OwnWorker
  BY DEF Init, Idle, OwnWorker
<1>2. TypeOK /\ LeakInv /\ OwnWorker /\ [Next]_vars => OwnWorker'
  BY OwnWorkerKept
<1>3. QED
  BY <1>1, <1>2, TypeCorrect, LeakInvariant, PTL DEF Spec

\* Only a worker's write gives New Relic a spec.
LEMMA NewRelicGains ==
  ASSUME TypeOK, LeakInv, [Next]_vars,
         NEW i \in Ids, nr'[i] # nr[i], nr'[i] # None
  PROVE  \E k \in Kinds :
           /\ worker[k].pc = "write"
           /\ worker[k].key \in Conditions
           /\ worker[k].object \in Copies(worker[k].key)
           /\ nr'[i] = worker[k].object.spec
           /\ \/ /\ UpdateCondition(k)
                 /\ worker[k].object.id = i /\ i # None /\ nr[i] # None
              \/ /\ CreateCondition(k)
                 /\ worker[k].object.id = None
                 /\ i = FreshId /\ nr[i] = None
<1>1. ASSUME NEW k \in Kinds, UpdateCondition(k) \/ CreateCondition(k)
      PROVE  /\ worker[k].pc = "write"
             /\ worker[k].key \in Conditions
             /\ worker[k].object \in Copies(worker[k].key)
  BY <1>1, BusyType, ObjectFields, CopiesAre DEF UpdateCondition, CreateCondition
<1>2. ASSUME NEW k \in Kinds, UpdateCondition(k)
      PROVE  /\ worker[k].object.id = i /\ i # None /\ nr[i] # None
             /\ nr'[i] = worker[k].object.spec
  BY <1>2 DEF UpdateCondition, TypeOK
<1>3. ASSUME NEW k \in Kinds, CreateCondition(k)
      PROVE  /\ worker[k].object.id = None
             /\ i = FreshId /\ nr[i] = None
             /\ nr'[i] = worker[k].object.spec
  <2>1. Ids \ used # {} /\ NewCondition(worker[k].object.spec)
    BY <1>3 DEF CreateCondition, newRelic
  <2>2. i = FreshId /\ nr'[i] = worker[k].object.spec
    BY <2>1 DEF NewCondition, TypeOK
  <2>3. nr[i] = None
    BY <2>1, <2>2, FreshIdType DEF LeakInv, IdsUsed
  <2>4. QED
    BY <1>3, <2>2, <2>3 DEF CreateCondition
<1>4. ASSUME NEW k \in Kinds, DeleteCondition(k) PROVE FALSE
  BY <1>4, DeleteFacts DEF TypeOK
<1>5. ASSUME NEW j \in Ids, OutOfBandDelete(j) PROVE FALSE
  BY <1>5 DEF OutOfBandDelete, TypeOK
<1>6. \/ \E j \in Ids : OutOfBandDelete(j)
      \/ \E k \in Kinds :
           UpdateCondition(k) \/ CreateCondition(k) \/ DeleteCondition(k)
  BY DEF Next, vars, newRelic, User, UserCreate, UserEdit, UserDelete, UserOp,
         Informer, InformerSync, Resync, Crash, Reconcile, ReconcileFails,
         ReconcileNothing, ReconcileDeletion, ReconcileSpec, Begin, Call,
         Search, Save, Release
<1>7. QED
  BY <1>1, <1>2, <1>3, <1>4, <1>5, <1>6

\* A new copy keeps the name and the id of an old one, or has no id, or the id
\* of a condition of its name.
LEMMA NamedCopies ==
  ASSUME TypeOK, TypeOK', LeakInv, NeverRename, [Next]_vars,
         NEW d \in Conditions, NEW p \in Copies(d)'
  PROVE  \/ \E o \in Copies(d) :
              NameOf[p.spec] = NameOf[o.spec] /\ p.id = o.id
         \/ p.id = None
         \/ nr'[p.id] # None /\ NameOf[nr'[p.id]] = NameOf[p.spec]
<1>1. d # None /\ p # None /\ p \in Object
  BY ConstantsAssumption, CopiesAreNext
<1>2. store[d] # None => store[d] \in Object /\ store[d] \in Copies(d)
  BY CopiesAre DEF TypeOK
<1>3. CASE p \in Copies(d)
  BY <1>3
<1>4. CASE p = store'[d] /\ store'[d] # store[d]
  <2>1. CASE UserCreate(d)
    <3>1. \E s \in SpecsFor[d] :
            store'[d] = [spec |-> s, deleting |-> FALSE, finalizer |-> FALSE,
                         id |-> None, applied |-> None]
      BY <2>1 DEF UserCreate, Put, TypeOK
    <3>2. QED
      BY <1>4, <3>1
  <2>2. CASE UserEdit(d)
    <3>1. PICK s \in SpecsFor[d] : /\ <<store[d].spec, s>> \in Edits
                                   /\ store'[d] = [store[d] EXCEPT !.spec = s]
      BY <2>2 DEF UserEdit, Put, TypeOK
    <3>2. store[d] # None
      BY <2>2 DEF UserEdit
    <3>3. store'[d].spec = s /\ store'[d].id = store[d].id
      BY <1>2, <3>1, <3>2 DEF Object
    <3>4. NameOf[store[d].spec] = NameOf[s]
      BY <3>1 DEF NeverRename
    <3>5. QED
      BY <1>2, <1>4, <3>2, <3>3, <3>4
  <2>3. CASE UserDelete(d)
    <3>1. store[d] # None
      BY <2>3 DEF UserDelete
    <3>2. store'[d] = [store[d] EXCEPT !.deleting = TRUE]
      BY <1>1, <1>4, <2>3 DEF UserDelete, Put, TypeOK
    <3>3. store'[d].spec = store[d].spec /\ store'[d].id = store[d].id
      BY <1>2, <3>1, <3>2 DEF Object
    <3>4. QED
      BY <1>2, <1>4, <3>1, <3>3
  <2>4. ASSUME NEW k \in Kinds, worker[k].key = d, worker[k].pc # "idle",
               store'[d] = worker[k].object
        PROVE  p \in Copies(d)
    BY <1>1, <1>4, <2>4, CopiesAre
  <2>5. QED
    BY <1>1, <1>3, <1>4, <2>1, <2>2, <2>3, <2>4, Writers
<1>5. CASE p = cache'[d].object
  <2>1. p = cache[d].object \/ p = store[d]
    BY <1>5, CacheMoves
  <2>2. QED
    BY <1>1, <1>3, <2>1, CopiesAre
<1>6. ASSUME NEW k \in Kinds, worker'[k].key = d, worker'[k].object = p,
             worker'[k] # worker[k]
      PROVE  \/ \E o \in Copies(d) : p.spec = o.spec /\ p.id = o.id
             \/ nr'[p.id] # None /\ NameOf[nr'[p.id]] = NameOf[p.spec]
  <2>1. worker'[k].pc # "idle"
    <3>1. worker'[k] \in Busy \cup {Idle}
      BY DEF TypeOK
    <3>2. QED
      BY <1>1, <1>6, <3>1 DEF Idle, Busy, Steps
  <2>2. ASSUME NEW c \in Conditions, ReconcileDeletion(k, c) \/ ReconcileSpec(k, c)
        PROVE  \E o \in Copies(d) : p.spec = o.spec /\ p.id = o.id
    BY <1>6, <2>2, BeginFields
  <2>3. CASE Search(k) \/ UpdateCondition(k) \/ CreateCondition(k)
             \/ DeleteCondition(k)
    <3> DEFINE o == worker[k].object
    <3>1. /\ worker[k].pc # "idle" /\ worker[k].key = d
          /\ o \in Object
          /\ p.spec = o.spec
          /\ \/ p.id = o.id
             \/ Search(k) /\ p.id \in Ids /\ SameName(p.id, o)
             \/ p.id \in Ids \ used /\ nr'[p.id] = p.spec
      BY <1>6, <2>1, <2>3, CallFields
    <3>2. o \in Copies(d)
      BY <3>1, CopiesAre, ObjectFields
    <3>3. CASE Search(k) /\ SameName(p.id, o)
      BY <3>1, <3>3 DEF Search, SameName, newRelic
    <3>4. p.spec # None
      BY <1>1, ConstantsAssumption DEF Object
    <3>5. QED
      BY <3>1, <3>2, <3>3, <3>4
  <2>4. QED
    BY <1>6, <2>1, <2>2, <2>3, WorkerMoves
<1>7. ASSUME NEW k \in Kinds, worker'[k].key = d, worker'[k].object = p,
             worker'[k] = worker[k]
      PROVE  p \in Copies(d)
  BY <1>1, <1>7, CopiesAre
<1>8. p = store'[d] /\ store'[d] = store[d] => p \in Copies(d)
  BY <1>1, CopiesAre
<1>9. QED
  BY <1>3, <1>4, <1>5, <1>6, <1>7, <1>8, CopiesAreNext

\* A condition keeps its name for as long as it is in New Relic.
LEMMA NameKept ==
  ASSUME TypeOK, LeakInv, RecordedName, [Next]_vars,
         NEW i \in Ids, nr[i] # None, nr'[i] # None
  PROVE  NameOf[nr'[i]] = NameOf[nr[i]]
<1>1. CASE nr'[i] # nr[i]
  <2>1. PICK k \in Kinds : /\ worker[k].key \in Conditions
                           /\ worker[k].object \in Copies(worker[k].key)
                           /\ nr'[i] = worker[k].object.spec
                           /\ worker[k].object.id = i /\ i # None
    BY <1>1, NewRelicGains
  <2>2. QED
    BY <2>1 DEF RecordedName
<1>2. QED
  BY <1>1

LEMMA RecordedNameKept ==
  ASSUME TypeOK, TypeOK', LeakInv, RecordedName, NeverRename, [Next]_vars
  PROVE  RecordedName'
<1> SUFFICES ASSUME NEW d \in Conditions, NEW p \in Copies(d)',
                    p.id # None, nr'[p.id] # None
             PROVE  NameOf[nr'[p.id]] = NameOf[p.spec]
  BY DEF RecordedName
<1>1. ASSUME NEW o \in Copies(d), NameOf[p.spec] = NameOf[o.spec], p.id = o.id
      PROVE  NameOf[nr'[p.id]] = NameOf[p.spec]
  <2>1. o.id \in Ids /\ o.id \in used
    BY <1>1, CopiesAre, CopiesUsed DEF Object, LeakInv
  <2>2. nr[o.id] # None
    BY <1>1, <2>1, NoRevival
  <2>3. NameOf[nr[o.id]] = NameOf[o.spec]
    BY <1>1, <2>2 DEF RecordedName
  <2>4. QED
    BY <1>1, <2>1, <2>2, <2>3, NameKept
<1>2. QED
  BY <1>1, NamedCopies

\* No two workers are about to write conditions of one name.
DistinctWriters ==
  \A j, k \in Kinds :
    /\ worker[j].pc = "write" /\ worker[k].pc = "write"
    /\ NameOf[worker[j].object.spec] = NameOf[worker[k].object.spec]
    => j = k

LEMMA WritersDistinct ==
  ASSUME TypeOK, Ownership, OwnWorker, DistinctNames
  PROVE  DistinctWriters
<1> SUFFICES ASSUME NEW j \in Kinds, NEW k \in Kinds,
                    worker[j].pc = "write", worker[k].pc = "write",
                    NameOf[worker[j].object.spec] = NameOf[worker[k].object.spec]
             PROVE  j = k
  BY DEF DistinctWriters
<1>1. /\ worker[j].key \in Conditions /\ worker[k].key \in Conditions
      /\ worker[j].object.spec \in SpecsFor[worker[j].key]
      /\ worker[k].object.spec \in SpecsFor[worker[k].key]
      /\ worker[k].pc # "idle" /\ worker[j].pc # "idle"
  BY WorkerCopy
<1>2. worker[j].key = worker[k].key
  BY <1>1 DEF DistinctNames
<1>3. QED
  BY <1>1, <1>2 DEF OwnWorker

LEMMA StillMissingKept ==
  ASSUME TypeOK, TypeOK', LeakInv, StillMissing, DistinctWriters,
         "search" \notin FaultKinds, [Next]_vars
  PROVE  StillMissing'
<1> SUFFICES ASSUME NEW k \in Kinds,
                    worker'[k].pc = "write", worker'[k].object.id = None,
                    NEW i \in Ids, nr'[i] # None,
                    NameOf[nr'[i]] = NameOf[worker'[k].object.spec]
             PROVE  FALSE
  BY DEF StillMissing, SameName
<1>1. CASE worker'[k] = worker[k]
  <2>1. nr'[i] # nr[i]
    BY <1>1 DEF StillMissing, SameName
  <2>2. PICK j \in Kinds :
           /\ worker[j].pc = "write"
           /\ nr'[i] = worker[j].object.spec
           /\ UpdateCondition(j) \/ CreateCondition(j)
    BY <2>1, NewRelicGains
  <2>3. worker[k].pc # "idle"
    BY <1>1
  <2>4. j = k
    BY <1>1, <2>2 DEF DistinctWriters
  <2>5. \E o : GoOn(k, "save", o)
    BY <2>2, <2>4 DEF UpdateCondition, CreateCondition
  <2>6. worker'[k].pc = "save"
    BY <2>3, <2>5, GoOnFields
  <2>7. QED
    BY <2>6
<1>2. ASSUME NEW c \in Conditions, ReconcileDeletion(k, c) \/ ReconcileSpec(k, c)
      PROVE  FALSE
  BY <1>2, BeginFields
<1>3. CASE Search(k)
  <2> DEFINE o == worker[k].object
  <2>1. worker[k].pc # "idle" /\ o \in Object
    BY <1>3, BusyType DEF Search
  <2>2. nr' = nr
    BY <1>3 DEF Search, newRelic
  <2>3. \/ \E j \in Ids : GoOn(k, "write", Adopt(o, j))
        \/ {j \in Ids : SameName(j, o)} = {} /\ GoOn(k, "write", o)
    BY <1>3 DEF Search, Fault
  <2>4. ASSUME NEW j \in Ids, GoOn(k, "write", Adopt(o, j)) PROVE FALSE
    <3>1. worker'[k].object = Adopt(o, j)
      BY <2>1, <2>4, GoOnFields
    <3>2. Adopt(o, j).id = j
      BY <2>1 DEF Adopt, Object
    <3>3. QED
      BY <3>1, <3>2, ConstantsAssumption
  <2>5. CASE {j \in Ids : SameName(j, o)} = {} /\ GoOn(k, "write", o)
    <3>1. worker'[k].object = o
      BY <2>1, <2>5, GoOnFields
    <3>2. QED
      BY <2>2, <2>5, <3>1 DEF SameName
  <2>6. QED
    BY <2>3, <2>4, <2>5
<1>4. CASE UpdateCondition(k) \/ CreateCondition(k) \/ DeleteCondition(k)
  <2>1. worker[k].pc # "idle"
    BY <1>4 DEF UpdateCondition, CreateCondition, DeleteCondition
  <2>2. \/ \E o : GoOn(k, "save", o) \/ GoOn(k, "release", o)
        \/ Fail(k)
    BY <1>4, DeleteFacts DEF UpdateCondition, CreateCondition
  <2>3. QED
    BY <2>1, <2>2, GoOnFields, StopFields DEF Idle
<1>5. QED
  BY <1>1, <1>2, <1>3, <1>4, WorkerMoves

LEMMA NoDuplicatesKept ==
  ASSUME TypeOK, LeakInv, NameInv, [Next]_vars
  PROVE  NoDuplicates'
<1> SUFFICES ASSUME NEW i \in Ids, NEW j \in Ids,
                    nr'[i] # None, nr'[j] # None,
                    NameOf[nr'[i]] = NameOf[nr'[j]], i # j
             PROVE  FALSE
  BY DEF NoDuplicates
<1>1. \A l \in Ids : nr[l] # None /\ nr'[l] # None =>
        NameOf[nr'[l]] = NameOf[nr[l]]
  BY NameKept DEF NameInv
<1>2. ASSUME NEW l \in Ids, nr[l] = None, nr'[l] # None
      PROVE  /\ l = FreshId
             /\ \A m \in Ids : nr[m] # None => NameOf[nr[m]] # NameOf[nr'[l]]
  <2>1. PICK k \in Kinds :
           /\ worker[k].pc = "write"
           /\ worker[k].object.id = None
           /\ nr'[l] = worker[k].object.spec
           /\ l = FreshId
    BY <1>2, NewRelicGains
  <2>2. QED
    BY <2>1 DEF NameInv, StillMissing, SameName
<1>3. QED
  BY <1>1, <1>2 DEF NameInv, NoDuplicates

LEMMA StepNames ==
  ASSUME TypeOK, TypeOK', LeakInv, Ownership, OwnWorker, NameInv, DistinctNames,
         NeverRename, "search" \notin FaultKinds, [Next]_vars
  PROVE  NameInv'
<1>1. RecordedName'
  BY RecordedNameKept DEF NameInv
<1>2. StillMissing'
  BY StillMissingKept, WritersDistinct DEF NameInv
<1>3. NoDuplicates'
  BY NoDuplicatesKept
<1>4. QED
  BY <1>1, <1>2, <1>3 DEF NameInv

\* As long as searches do not fail and no condition is renamed, New Relic never
\* holds two conditions of one name, whatever creates and saves are lost.
THEOREM NoneTwice ==
  ASSUME DistinctNames, NeverRename, "search" \notin FaultKinds
  PROVE  Spec => []NoDuplicates
<1>1. Init => NameInv
  <2>1. ASSUME Init PROVE \A c \in Conditions : Copies(c) = {}
    BY <2>1, ConstantsAssumption DEF Init, Copies, Idle
  <2>2. QED
    BY <2>1 DEF Init, Idle, NameInv, RecordedName, StillMissing, NoDuplicates
<1>2. TypeOK /\ TypeOK' /\ LeakInv /\ Ownership /\ OwnWorker /\ NameInv
        /\ [Next]_vars => NameInv'
  BY StepNames
<1>3. NameInv => NoDuplicates
  BY DEF NameInv
<1>4. QED
  BY <1>1, <1>2, <1>3, TypeCorrect, LeakInvariant, OwnershipInvariant,
     OwnWorkerInvariant, PTL DEF Spec

-----------------------------------------------------------------------------
(* Copies and names, for those who compose the controllers with something  *)
(* else.                                                                   *)

\* But for the users, nobody gives a resource a spec that no copy of it has.
LEMMA CopiesKeepSpecs ==
  ASSUME TypeOK, TypeOK', LeakInv, [Next]_vars, userOps' = userOps,
         NEW d \in Conditions, NEW p \in Copies(d)'
  PROVE  \E o \in Copies(d) : p.spec = o.spec
<1>1. d # None /\ p # None /\ p \in Object
  BY ConstantsAssumption, CopiesAreNext
<1>2. CASE p \in Copies(d)
  BY <1>2
<1>3. CASE p = store'[d] /\ store'[d] # store[d]
  <2>1. ~(UserCreate(d) \/ UserEdit(d) \/ UserDelete(d))
    BY DEF UserCreate, UserEdit, UserDelete, UserOp, TypeOK
  <2>2. ASSUME NEW k \in Kinds, worker[k].key = d, worker[k].pc # "idle",
               store'[d] = worker[k].object
        PROVE  p \in Copies(d)
    BY <1>1, <1>3, <2>2, CopiesAre
  <2>3. QED
    BY <1>1, <1>2, <1>3, <2>1, <2>2, Writers
<1>4. CASE p = cache'[d].object
  <2>1. p = cache[d].object \/ p = store[d]
    BY <1>4, CacheMoves
  <2>2. QED
    BY <1>1, <1>2, <2>1, CopiesAre
<1>5. ASSUME NEW k \in Kinds, worker'[k].key = d, worker'[k].object = p,
             worker'[k] # worker[k]
      PROVE  \E o \in Copies(d) : p.spec = o.spec
  <2>1. worker'[k].pc # "idle"
    <3>1. worker'[k] \in Busy \cup {Idle}
      BY DEF TypeOK
    <3>2. QED
      BY <1>1, <1>5, <3>1 DEF Idle, Busy, Steps
  <2>2. ASSUME NEW c \in Conditions, ReconcileDeletion(k, c) \/ ReconcileSpec(k, c)
        PROVE  \E o \in Copies(d) : p.spec = o.spec
    BY <1>5, <2>2, BeginFields
  <2>3. CASE Search(k) \/ UpdateCondition(k) \/ CreateCondition(k)
             \/ DeleteCondition(k)
    <3> DEFINE o == worker[k].object
    <3>1. /\ worker[k].pc # "idle" /\ worker[k].key = d
          /\ o \in Object
          /\ p.spec = o.spec
      BY <1>5, <2>1, <2>3, CallFields
    <3>2. o \in Copies(d)
      BY <3>1, CopiesAre, ObjectFields
    <3>3. QED
      BY <3>1, <3>2
  <2>4. QED
    BY <1>5, <2>1, <2>2, <2>3, WorkerMoves
<1>6. ASSUME NEW k \in Kinds, worker'[k].key = d, worker'[k].object = p,
             worker'[k] = worker[k]
      PROVE  p \in Copies(d)
  BY <1>1, <1>6, CopiesAre
<1>7. p = store'[d] /\ store'[d] = store[d] => p \in Copies(d)
  BY <1>1, CopiesAre
<1>8. QED
  BY <1>2, <1>3, <1>4, <1>5, <1>6, <1>7, CopiesAreNext

LEMMA WithheldCopies ==
  ASSUME TypeOK, Withheld, NEW c \in Conditions, NEW o \in Copies(c)'
  PROVE  o \in Copies(c)
<1>1. TypeOK'
  BY WithheldType
<1>2. /\ o # None
      /\ \/ o = store'[c]
         \/ o = cache'[c].object
         \/ \E k \in Kinds : worker'[k].key = c /\ worker'[k].object = o
  BY <1>1, CopiesAreNext
<1>3. ASSUME NEW k \in Kinds, worker'[k].key = c
      PROVE  worker[k].key = c /\ worker[k].object = worker'[k].object
  <2>1. worker'[k] \in Busy \cup {Idle} /\ c # None
    BY <1>1, ConstantsAssumption DEF TypeOK
  <2>2. worker'[k].pc # "idle"
    BY <1>3, <2>1 DEF Busy, Idle, Steps
  <2>3. QED
    BY <1>3, <2>2, WithheldWorker
<1>4. store' = store /\ cache' = cache
  BY DEF Withheld
<1>5. QED
  BY <1>2, <1>3, <1>4, CopiesAre

LEMMA WithheldNames ==
  ASSUME TypeOK, Withheld, NameInv PROVE NameInv'
<1>1. \A i \in Ids : nr'[i] \in {nr[i], None}
  BY DEF Withheld
<1>2. RecordedName'
  <2>1. ASSUME NEW c \in Conditions, NEW o \in Copies(c)', o.id # None
        PROVE  o \in Copies(c) /\ o.id \in Ids
    BY <2>1, WithheldCopies, CopiesAre DEF Object
  <2>2. QED
    BY <1>1, <2>1 DEF RecordedName, NameInv
<1>3. StillMissing'
  BY <1>1, WithheldWorker DEF StillMissing, SameName, NameInv
<1>4. NoDuplicates'
  BY <1>1 DEF NoDuplicates, NameInv
<1>5. QED
  BY <1>2, <1>3, <1>4 DEF NameInv

LEMMA WithheldOwnWorker ==
  ASSUME TypeOK, Withheld, OwnWorker PROVE OwnWorker'
BY WithheldWorker DEF OwnWorker, Withheld

LEMMA PutCopies ==
  ASSUME TypeOK, TypeOK', NEW c \in Conditions, NEW object, Put(c, object),
         UNCHANGED <<cache, worker>>,
         NEW d \in Conditions, NEW p \in Copies(d)'
  PROVE  p \in Copies(d) \/ (d = c /\ p = object)
<1>1. store'[d] = IF d = c THEN object ELSE store[d]
  BY DEF Put, TypeOK
<1>2. QED
  BY <1>1, CopiesAre, CopiesAreNext

LEMMA PutNames ==
  ASSUME TypeOK, TypeOK', NameInv, NEW c \in Conditions, NEW object,
         Put(c, object), UNCHANGED <<cache, worker, nr>>,
         object # None => \/ object.id = None
                          \/ /\ store[c] # None
                             /\ object.id = store[c].id
                             /\ NameOf[object.spec] = NameOf[store[c].spec]
  PROVE  NameInv'
<1>1. StillMissing' /\ NoDuplicates'
  BY DEF NameInv, StillMissing, SameName, NoDuplicates
<1>2. RecordedName'
  <2> SUFFICES ASSUME NEW d \in Conditions, NEW p \in Copies(d)',
                      p.id # None, nr[p.id] # None
               PROVE  NameOf[nr[p.id]] = NameOf[p.spec]
    BY DEF RecordedName
  <2>1. p # None
    BY CopiesAreNext
  <2>2. store[c] # None => store[c] \in Copies(c)
    BY CopiesAre
  <2>3. QED
    BY <2>1, <2>2, PutCopies DEF NameInv, RecordedName
<1>3. QED
  BY <1>1, <1>2 DEF NameInv
=============================================================================
