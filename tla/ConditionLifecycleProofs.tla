---------------------- MODULE ConditionLifecycleProofs ----------------------
(* The condition reconcilers implement ConditionLifecycle, and no two      *)
(* resources ever own one New Relic condition, for every set of kinds,     *)
(* resources, specs and ids and every choice of faults, when the resources *)
(* do not share names.                                                     *)
EXTENDS ConditionControllerProofs

\* What a copy of a resource is.
LEMMA CopiesAre ==
  ASSUME TypeOK, NEW c \in Conditions
  PROVE  /\ Copies(c) \subseteq Object
         /\ \A o : o \in Copies(c) <=>
              /\ o # None
              /\ \/ o = store[c]
                 \/ o = cache[c].object
                 \/ \E k \in Kinds : worker[k].key = c /\ worker[k].object = o
<1>1. c # None
  BY ConstantsAssumption
<1>2. ASSUME NEW k \in Kinds, worker[k].key = c PROVE worker[k].object \in Object
  <2>1. worker[k].pc # "idle"
    BY <1>1, <1>2 DEF TypeOK, Idle, Busy, Steps
  <2>2. QED
    BY <2>1, BusyType
<1>3. store[c] \in Object \cup {None} /\ cache[c].object \in Object \cup {None}
  BY DEF TypeOK
<1>4. QED
  BY <1>2, <1>3 DEF Copies

\* The same, after a step.
LEMMA CopiesAreNext ==
  ASSUME TypeOK', NEW c \in Conditions
  PROVE  /\ Copies(c)' \subseteq Object
         /\ \A o : o \in Copies(c)' <=>
              /\ o # None
              /\ \/ o = store'[c]
                 \/ o = cache'[c].object
                 \/ \E k \in Kinds : worker'[k].key = c /\ worker'[k].object = o
<1>1. c # None
  BY ConstantsAssumption
<1>2. ASSUME NEW k \in Kinds, worker'[k].key = c PROVE worker'[k].object \in Object
  <2>1. worker'[k] \in Busy \cup {Idle}
    BY DEF TypeOK
  <2>2. worker'[k] \in Busy
    BY <1>1, <1>2, <2>1 DEF Idle
  <2>3. QED
    BY <2>2 DEF Busy
<1>3. store'[c] \in Object \cup {None} /\ cache'[c].object \in Object \cup {None}
  BY DEF TypeOK
<1>4. QED
  BY <1>2, <1>3 DEF Copies

-----------------------------------------------------------------------------
(* Ownership.                                                              *)

\* A step makes at most one copy, o of resource c, that is not a copy of what
\* there was before.
Copied(c, o) ==
  /\ \A d \in Conditions :
       /\ store'[d] \in {store[d], None} \/ (d = c /\ store'[d] = o)
       /\ cache'[d].object \in {cache[d].object, store[d]}
  /\ \A k \in Kinds :
       \/ worker'[k] = worker[k]
       \/ worker'[k].key = None
       \/ worker'[k].key = c /\ worker'[k].object = o

LEMMA CopiedCopies ==
  ASSUME TypeOK, TypeOK', NEW c, NEW o, Copied(c, o), NEW d \in Conditions,
         NEW p \in Copies(d)'
  PROVE  p \in Copies(d) \/ (d = c /\ p = o)
<1>1. d # None
  BY ConstantsAssumption
<1>2. p # None
  BY CopiesAreNext
<1>3. CASE p = store'[d]
  BY <1>2, <1>3, CopiesAre DEF Copied
<1>4. CASE p = cache'[d].object
  BY <1>2, <1>4, CopiesAre DEF Copied
<1>5. ASSUME NEW k \in Kinds, worker'[k].key = d, worker'[k].object = p
      PROVE  p \in Copies(d) \/ (d = c /\ p = o)
  BY <1>1, <1>2, <1>5, CopiesAre DEF Copied
<1>6. QED
  BY <1>3, <1>4, <1>5, CopiesAreNext

\* Ownership is kept when the new copy has a spec of its resource and an id
\* that a copy of it has, or that no copy of another has.
LEMMA OwnershipKept ==
  ASSUME TypeOK, TypeOK', Ownership, NEW c, NEW o, NEW i, Copied(c, o),
         o \in Object =>
           /\ o.spec \in SpecsFor[c]
           /\ o.id \in {None, i} \/ \E q \in Copies(c) : q.id = o.id,
         i # None => \A d \in Conditions : d # c => \A q \in Copies(d) : q.id # i,
         \A j \in Ids : j # i => nr'[j] \in {nr[j], None},
         i \in Ids => nr'[i] = None \/ (c \in Conditions /\ nr'[i] \in SpecsFor[c])
  PROVE  Ownership'
<1>1. ASSUME NEW d \in Conditions, NEW p \in Copies(d)'
      PROVE  /\ p \in Object
             /\ p.spec \in SpecsFor[d]
             /\ p.id # None => (d = c /\ p.id = i) \/ \E q \in Copies(d) : q.id = p.id
  <2>1. p \in Object
    BY CopiesAreNext
  <2>2. p \in Copies(d) \/ (d = c /\ p = o)
    BY CopiedCopies
  <2>3. QED
    BY <2>1, <2>2 DEF Ownership
<1>2. ASSUME NEW d \in Conditions, NEW p \in Copies(d)', p.id # None
      PROVE  nr'[p.id] # None => nr'[p.id] \in SpecsFor[d]
  <2>1. p.id \in Ids
    BY <1>1, <1>2 DEF Object
  <2>2. CASE p.id = i
    <3>1. d = c
      BY <1>1, <1>2, <2>2
    <3>2. QED
      BY <2>1, <2>2, <3>1
  <2>3. CASE p.id # i
    <3>1. PICK q \in Copies(d) : q.id = p.id
      BY <1>1, <1>2, <2>3
    <3>2. nr[p.id] # None => nr[p.id] \in SpecsFor[d]
      BY <1>2, <3>1 DEF Ownership
    <3>3. QED
      BY <2>1, <2>3, <3>2
  <2>4. QED
    BY <2>2, <2>3
<1>3. ASSUME NEW d \in Conditions, NEW p \in Copies(d)', p.id # None,
             NEW e \in Conditions, e # d, NEW q \in Copies(e)'
      PROVE  q.id # p.id
  <2>1. SUFFICES ASSUME q.id = p.id PROVE FALSE
    OBVIOUS
  <2>2. (d = c /\ p.id = i) \/ \E r \in Copies(d) : r.id = p.id
    BY <1>1, <1>3
  <2>3. (e = c /\ p.id = i) \/ \E r \in Copies(e) : r.id = p.id
    BY <1>1, <1>3, <2>1
  <2>4. ~(\E r \in Copies(d), s \in Copies(e) : r.id = p.id /\ s.id = p.id)
    BY <1>3 DEF Ownership
  <2>5. QED
    BY <1>3, <2>2, <2>3, <2>4
<1>4. ASSUME NEW j \in Ids, nr'[j] # None
      PROVE  \E d \in Conditions : nr'[j] \in SpecsFor[d]
  BY <1>4 DEF Ownership
<1>5. QED
  BY <1>1, <1>2, <1>3, <1>4 DEF Ownership

\* A step that makes no new copy and creates nothing in New Relic.
LEMMA OwnershipStable ==
  ASSUME TypeOK, TypeOK', Ownership, Copied(None, None),
         \A j \in Ids : nr'[j] \in {nr[j], None}
  PROVE  Ownership'
<1>1. None \notin Object /\ None \notin Ids
  BY ConstantsAssumption
<1>2. QED
  BY <1>1, OwnershipKept

LEMMA UserOwnership ==
  ASSUME TypeOK, TypeOK', Ownership, User PROVE Ownership'
<1>1. PICK c \in Conditions : UserCreate(c) \/ UserEdit(c) \/ UserDelete(c)
  BY DEF User
<1>2. UNCHANGED <<cache, worker, nr>>
  BY <1>1 DEF UserCreate, UserEdit, UserDelete, UserOp, newRelic
<1>3. ASSUME NEW o, Put(c, o),
             o \in Object => /\ o.spec \in SpecsFor[c]
                             /\ o.id = None \/ \E q \in Copies(c) : q.id = o.id
      PROVE  Ownership'
  <2>1. Copied(c, o)
    BY <1>2, <1>3 DEF Copied, Put, TypeOK
  <2>2. None \notin Ids
    BY ConstantsAssumption
  <2>3. QED
    BY <1>2, <1>3, <2>1, <2>2, OwnershipKept
<1>4. ASSUME store[c] # None
      PROVE  store[c] \in Object /\ store[c] \in Copies(c) /\ store[c].spec \in SpecsFor[c]
  BY <1>4, CopiesAre DEF TypeOK, Ownership
<1>5. CASE UserCreate(c)
  <2>1. PICK s \in SpecsFor[c] :
          Put(c, [spec |-> s, deleting |-> FALSE, finalizer |-> FALSE,
                  id |-> None, applied |-> None])
    BY <1>5 DEF UserCreate
  <2>2. QED
    BY <1>3, <2>1
<1>6. CASE UserEdit(c)
  <2>1. PICK s \in SpecsFor[c] : Put(c, [store[c] EXCEPT !.spec = s])
    BY <1>6 DEF UserEdit
  <2>2. store[c] # None
    BY <1>6 DEF UserEdit
  <2>3. /\ [store[c] EXCEPT !.spec = s].spec = s
        /\ [store[c] EXCEPT !.spec = s].id = store[c].id
    BY <1>4, <2>2 DEF Object
  <2>4. QED
    BY <1>3, <1>4, <2>1, <2>2, <2>3
<1>7. CASE UserDelete(c)
  <2>1. store[c] # None
    BY <1>7 DEF UserDelete
  <2>2. /\ [store[c] EXCEPT !.deleting = TRUE].spec = store[c].spec
        /\ [store[c] EXCEPT !.deleting = TRUE].id = store[c].id
    BY <1>4, <2>1 DEF Object
  <2>3. Put(c, [store[c] EXCEPT !.deleting = TRUE]) \/ Put(c, None)
    BY <1>7 DEF UserDelete
  <2>4. None \notin Object
    BY ConstantsAssumption
  <2>5. QED
    BY <1>3, <1>4, <2>1, <2>2, <2>3, <2>4
<1>8. QED
  BY <1>1, <1>5, <1>6, <1>7

LEMMA ManagerOwnership ==
  ASSUME TypeOK, TypeOK', Ownership,
         Informer \/ Crash \/ \E i \in Ids : OutOfBandDelete(i)
  PROVE  Ownership'
<1>1. Copied(None, None)
  <2>1. CASE Informer
    <3>1. PICK c \in Conditions : InformerSync(c) \/ Resync(c)
      BY <2>1 DEF Informer
    <3>2. UNCHANGED <<store, worker>>
      BY <3>1 DEF InformerSync, Resync, cluster
    <3>3. \A d \in Conditions : cache'[d].object \in {cache[d].object, store[d]}
      BY <3>1 DEF InformerSync, Resync, TypeOK
    <3>4. QED
      BY <3>2, <3>3 DEF Copied
  <2>2. CASE Crash
    BY <2>2 DEF Crash, Copied, Idle, cluster
  <2>3. CASE \E i \in Ids : OutOfBandDelete(i)
    BY <2>3 DEF OutOfBandDelete, Copied, cluster
  <2>4. QED
    BY <2>1, <2>2, <2>3
<1>2. \A j \in Ids : nr'[j] \in {nr[j], None}
  BY DEF Informer, InformerSync, Resync, Crash, OutOfBandDelete, newRelic, TypeOK
<1>3. QED
  BY <1>1, <1>2, OwnershipStable

LEMMA ReconcileOwnership ==
  ASSUME TypeOK, TypeOK', Ownership, NEW k \in Kinds, NEW c \in Conditions,
         Reconcile(k, c)
  PROVE  Ownership'
<1>1. UNCHANGED <<store, cache, nr>>
  BY DEF Reconcile, ReconcileFails, ReconcileNothing, ReconcileDeletion,
         ReconcileSpec, Begin, cluster, newRelic
<1>2. CASE ReconcileFails(k, c) \/ ReconcileNothing(k, c)
  <2>1. Copied(None, None)
    BY <1>1, <1>2 DEF ReconcileFails, ReconcileNothing, Copied
  <2>2. QED
    BY <1>1, <2>1, OwnershipStable
<1>3. CASE ReconcileDeletion(k, c) \/ ReconcileSpec(k, c)
  <2>1. cache[c].object # None
    BY <1>3 DEF ReconcileDeletion, ReconcileSpec, NothingToDo
  <2>2. cache[c].object \in Object /\ cache[c].object \in Copies(c)
    BY <2>1, CopiesAre DEF TypeOK
  <2>3. PICK o, step : /\ Begin(k, c, step, o)
                       /\ o.spec = cache[c].object.spec
                       /\ o.id = cache[c].object.id
    BY <1>3, <2>2 DEF ReconcileDeletion, ReconcileSpec, Prepared, Object
  <2>4. Copied(c, o)
    BY <1>1, <2>3 DEF Begin, Copied, TypeOK
  <2>5. cache[c].object.spec \in SpecsFor[c]
    BY <2>2 DEF Ownership
  <2>6. None \notin Ids
    BY ConstantsAssumption
  <2>7. QED
    BY <1>1, <2>2, <2>3, <2>4, <2>5, <2>6, OwnershipKept
<1>4. QED
  BY <1>2, <1>3 DEF Reconcile

\* What a copy records was given out.
LEMMA CopiesUsed ==
  ASSUME TypeOK, IdsUsed, NEW c \in Conditions, NEW o \in Copies(c)
  PROVE  o.id \in used \cup {None}
<1>1. c # None
  BY ConstantsAssumption
<1>2. ASSUME NEW k \in Kinds, worker[k].key = c, worker[k].object = o
      PROVE  o.id \in used \cup {None}
  <2>1. worker[k].pc # "idle"
    BY <1>1, <1>2 DEF TypeOK, Idle, Busy, Steps
  <2>2. QED
    BY <1>2, <2>1 DEF IdsUsed
<1>3. QED
  BY <1>2, CopiesAre DEF IdsUsed

\* A busy worker's copy is a copy of its resource.
LEMMA WorkerCopy ==
  ASSUME TypeOK, Ownership, NEW k \in Kinds, worker[k].pc # "idle"
  PROVE  /\ worker[k].key \in Conditions
         /\ worker[k].object \in Object
         /\ worker[k].object \in Copies(worker[k].key)
         /\ worker[k].object.spec \in SpecsFor[worker[k].key]
<1>1. /\ worker[k].key \in Conditions
      /\ worker[k].object \in Object
      /\ worker[k].object # None
  BY BusyType, ObjectFields
<1>2. worker[k].object \in Copies(worker[k].key)
  BY <1>1, CopiesAre
<1>3. QED
  BY <1>1, <1>2 DEF Ownership

\* A condition found by name was created for this resource and for no other.
LEMMA FoundIsOwn ==
  ASSUME TypeOK, Ownership, DistinctNames, NEW c \in Conditions,
         NEW object, object.spec \in SpecsFor[c],
         NEW i \in Ids, SameName(i, object)
  PROVE  /\ nr[i] \in SpecsFor[c]
         /\ \A d \in Conditions : d # c => \A q \in Copies(d) : q.id # i
<1>1. nr[i] # None /\ NameOf[nr[i]] = NameOf[object.spec]
  BY DEF SameName
<1>2. \A d \in Conditions : nr[i] \in SpecsFor[d] => d = c
  BY <1>1 DEF DistinctNames
<1>3. i # None
  BY ConstantsAssumption
<1>4. \A d \in Conditions : \A q \in Copies(d) : q.id = i => nr[i] \in SpecsFor[d]
  BY <1>1, <1>3 DEF Ownership
<1>5. nr[i] \in SpecsFor[c]
  BY <1>1, <1>2 DEF Ownership
<1>6. QED
  BY <1>2, <1>4, <1>5

LEMMA GoOnCopied ==
  ASSUME TypeOK, NEW k \in Kinds, NEW step, NEW o, GoOn(k, step, o),
         UNCHANGED <<store, cache>>
  PROVE  Copied(worker[k].key, o)
<1>1. worker[k] \in Busy \cup {Idle}
  BY DEF TypeOK
<1>2. worker'[k].key = worker[k].key /\ worker'[k].object = o
  BY <1>1 DEF GoOn, TypeOK, Busy, Idle
<1>3. \A j \in Kinds : j # k => worker'[j] = worker[j]
  BY DEF GoOn, TypeOK
<1>4. QED
  BY <1>2, <1>3 DEF Copied

LEMMA SearchOwnership ==
  ASSUME TypeOK, TypeOK', Ownership, DistinctNames, NEW k \in Kinds, Search(k)
  PROVE  Ownership'
<1> DEFINE c == worker[k].key
           object == worker[k].object
<1>1. /\ c \in Conditions /\ object \in Object
      /\ object \in Copies(c) /\ object.spec \in SpecsFor[c]
  BY WorkerCopy DEF Search
<1>2. UNCHANGED <<store, cache, nr>>
  BY DEF Search, cluster, newRelic
<1> HIDE DEF c
<1>3. CASE \E i \in Ids : SameName(i, object) /\ GoOn(k, "write", Adopt(object, i))
  <2>1. PICK i \in Ids : SameName(i, object) /\ GoOn(k, "write", Adopt(object, i))
    BY <1>3
  <2>2. /\ nr[i] \in SpecsFor[c]
        /\ \A d \in Conditions : d # c => \A q \in Copies(d) : q.id # i
    BY <1>1, <2>1, FoundIsOwn
  <2>3. Copied(c, Adopt(object, i))
    BY <1>2, <2>1, GoOnCopied DEF c
  <2>4. Adopt(object, i).spec = object.spec /\ Adopt(object, i).id = i
    BY <1>1 DEF Adopt, Object
  <2>5. QED
    BY <1>1, <1>2, <2>2, <2>3, <2>4, OwnershipKept
<1>4. CASE GoOn(k, "write", object)
  <2>1. Copied(c, object)
    BY <1>2, <1>4, GoOnCopied DEF c
  <2>2. None \notin Ids
    BY ConstantsAssumption
  <2>3. QED
    BY <1>1, <1>2, <2>1, <2>2, OwnershipKept
<1>5. QED
  BY <1>3, <1>4 DEF Search

LEMMA UpdateOwnership ==
  ASSUME TypeOK, TypeOK', Ownership, NEW k \in Kinds, UpdateCondition(k)
  PROVE  Ownership'
<1> DEFINE c == worker[k].key
           object == worker[k].object
<1>1. /\ c \in Conditions /\ object \in Object
      /\ object \in Copies(c) /\ object.spec \in SpecsFor[c]
  BY WorkerCopy DEF UpdateCondition
<1>2. UNCHANGED <<store, cache>> /\ object.id # None
  BY DEF UpdateCondition, cluster
<1>3. GoOn(k, "save", object) \/ GoOn(k, "save", Applied(object, object.id))
  BY DEF UpdateCondition
<1>4. /\ Applied(object, object.id).spec = object.spec
      /\ Applied(object, object.id).id = object.id
  BY <1>1 DEF Applied, Object
<1>5. PICK o : /\ GoOn(k, "save", o)
               /\ o.spec = object.spec
               /\ o.id = object.id
  BY <1>3, <1>4
<1>6. Copied(c, o)
  BY <1>2, <1>5, GoOnCopied
<1>7. \A d \in Conditions : d # c => \A q \in Copies(d) : q.id # object.id
  BY <1>1, <1>2 DEF Ownership
<1>8. nr' = nr \/ nr' = [nr EXCEPT ![object.id] = object.spec]
  BY DEF UpdateCondition
<1>9. /\ \A j \in Ids : j # object.id => nr'[j] = nr[j]
      /\ object.id \in Ids => nr'[object.id] = None \/ nr'[object.id] \in SpecsFor[c]
  <2>1. nr[object.id] = None \/ nr[object.id] \in SpecsFor[c]
    BY <1>1, <1>2 DEF Ownership
  <2>2. QED
    BY <1>1, <1>8, <2>1 DEF TypeOK
<1> HIDE DEF c, object
<1>10. QED
  BY <1>1, <1>5, <1>6, <1>7, <1>9, OwnershipKept

LEMMA CreateOwnership ==
  ASSUME TypeOK, TypeOK', LeakInv, Ownership, NEW k \in Kinds, CreateCondition(k)
  PROVE  Ownership'
<1> DEFINE c == worker[k].key
           object == worker[k].object
<1>1. /\ c \in Conditions /\ object \in Object
      /\ object \in Copies(c) /\ object.spec \in SpecsFor[c]
  BY WorkerCopy DEF CreateCondition
<1>2. UNCHANGED <<store, cache>> /\ object.id = None
  BY DEF CreateCondition, cluster
<1>3. None \notin Ids
  BY ConstantsAssumption
<1>4. CASE UNCHANGED newRelic /\ GoOn(k, "save", object)
  <2>1. Copied(c, object)
    BY <1>2, <1>4, GoOnCopied
  <2>2. QED
    BY <1>1, <1>3, <1>4, <2>1, OwnershipKept DEF newRelic
<1>5. CASE /\ Ids \ used # {}
           /\ NewCondition(object.spec)
           /\ GoOn(k, "save", object) \/ GoOn(k, "save", Applied(object, FreshId))
  <2>1. FreshId \in Ids /\ FreshId \notin used
    BY <1>5, FreshIdType
  <2>2. \A d \in Conditions : \A q \in Copies(d) : q.id # FreshId
    BY <1>3, <2>1, CopiesUsed DEF LeakInv
  <2>3. /\ \A j \in Ids : j # FreshId => nr'[j] = nr[j]
        /\ nr'[FreshId] = object.spec
    BY <1>5, <2>1 DEF NewCondition, TypeOK
  <2>4. /\ Applied(object, FreshId).spec = object.spec
        /\ Applied(object, FreshId).id = FreshId
    BY <1>1 DEF Applied, Object
  <2>5. PICK o : /\ GoOn(k, "save", o)
                 /\ o.spec = object.spec
                 /\ o.id \in {None, FreshId}
    BY <1>2, <1>5, <2>4
  <2>6. Copied(c, o)
    BY <1>2, <2>5, GoOnCopied
  <2> HIDE DEF c, object
  <2>7. QED
    BY <1>1, <2>1, <2>2, <2>3, <2>5, <2>6, OwnershipKept
<1>6. QED
  BY <1>4, <1>5 DEF CreateCondition

LEMMA WriteBackOwnership ==
  ASSUME TypeOK, TypeOK', Ownership, NEW k \in Kinds, Save(k) \/ Release(k)
  PROVE  Ownership'
<1> DEFINE c == worker[k].key
           object == worker[k].object
<1>1. /\ c \in Conditions /\ object \in Object
      /\ object \in Copies(c) /\ object.spec \in SpecsFor[c]
  BY WorkerCopy DEF Save, Release
<1>2. UNCHANGED <<cache, nr>>
  BY DEF Save, Release, newRelic
<1>3. UNCHANGED store \/ store' = [store EXCEPT ![c] = object]
                      \/ store' = [store EXCEPT ![c] = None]
  BY DEF Save, Release, Put, cluster
<1>4. worker'[k].key = None /\ \A j \in Kinds : j # k => worker'[j] = worker[j]
  BY StopFields DEF Save, Release, Idle
<1>5. Copied(c, object)
  BY <1>1, <1>2, <1>3, <1>4 DEF Copied, TypeOK
<1>6. None \notin Ids
  BY ConstantsAssumption
<1> HIDE DEF c, object
<1>7. QED
  BY <1>1, <1>2, <1>5, <1>6, OwnershipKept

\* What DeleteCondition does, in a form that is easier to use.
LEMMA DeleteFacts ==
  ASSUME TypeOK, LeakInv, NEW k \in Kinds, DeleteCondition(k)
  PROVE  LET object == worker[k].object IN
         /\ worker[k].pc = "delete"
         /\ object.id \in Ids /\ object.deleting
         /\ UNCHANGED <<store, revision, cache, used>>
         /\ nr' = nr \/ nr' = [nr EXCEPT ![object.id] = None]
         /\ \/ Fail(k)
            \/ GoOn(k, "release", [object EXCEPT !.finalizer = FALSE])
<1>1. worker[k].pc = "delete"
  BY DEF DeleteCondition
<1>2. worker[k].object \in Object /\ worker[k].object.id # None
      /\ worker[k].object.deleting
  BY <1>1, BusyType DEF LeakInv, WorkerPhases
<1>3. QED
  BY <1>1, <1>2 DEF DeleteCondition, AfterDelete, cluster, Object

LEMMA DeleteOwnership ==
  ASSUME TypeOK, TypeOK', LeakInv, Ownership, NEW k \in Kinds, DeleteCondition(k)
  PROVE  Ownership'
<1> DEFINE c == worker[k].key
           object == worker[k].object
           released == [object EXCEPT !.finalizer = FALSE]
<1>1. /\ c \in Conditions /\ object \in Object
      /\ object \in Copies(c) /\ object.spec \in SpecsFor[c]
  BY WorkerCopy DEF DeleteCondition
<1>2. \A j \in Ids : nr'[j] \in {nr[j], None}
  BY DeleteFacts DEF TypeOK
<1>3. CASE Fail(k)
  <2>1. worker'[k].key = None /\ \A j \in Kinds : j # k => worker'[j] = worker[j]
    BY <1>3, StopFields DEF Idle
  <2>2. Copied(None, None)
    BY <2>1, DeleteFacts DEF Copied
  <2>3. QED
    BY <1>2, <2>2, OwnershipStable
<1>4. CASE GoOn(k, "release", released)
  <2>1. Copied(c, released)
    BY <1>4, DeleteFacts, GoOnCopied
  <2>2. released.spec = object.spec /\ released.id = object.id
    BY <1>1 DEF Object
  <2>3. None \notin Ids
    BY ConstantsAssumption
  <2> HIDE DEF c, object, released
  <2>4. QED
    BY <1>1, <1>2, <2>1, <2>2, <2>3, OwnershipKept
<1>5. QED
  BY <1>3, <1>4, DeleteFacts

LEMMA StepOwnership ==
  ASSUME TypeOK, TypeOK', LeakInv, Ownership, DistinctNames, [Next]_vars
  PROVE  Ownership'
<1>1. CASE UNCHANGED vars
  BY <1>1, OwnershipStable DEF vars, cluster, newRelic, Copied
<1>2. QED
  BY <1>1, UserOwnership, ManagerOwnership, ReconcileOwnership, SearchOwnership,
     UpdateOwnership, CreateOwnership, WriteBackOwnership, DeleteOwnership
  DEF Next, Call

\* New Relic and every copy of a resource hold only what the users declared for
\* that resource, and no two resources' copies record one condition.
THEOREM OwnershipInvariant ==
  ASSUME DistinctNames PROVE Spec => []Ownership
<1>1. Init => Ownership
  BY ConstantsAssumption DEF Init, Ownership, Copies, Idle
<1>2. TypeOK /\ TypeOK' /\ LeakInv /\ Ownership /\ [Next]_vars => Ownership'
  BY StepOwnership
<1>3. QED
  BY <1>1, <1>2, TypeCorrect, LeakInvariant, PTL DEF Spec

\* No two resources' statuses record one condition, so that the deletion of one
\* never takes the other's condition away.
THEOREM Exclusive ==
  ASSUME DistinctNames PROVE Spec => []ExclusiveOwnership
<1>1. TypeOK /\ Ownership => ExclusiveOwnership
  BY CopiesAre DEF Ownership, ExclusiveOwnership
<1>2. QED
  BY <1>1, TypeCorrect, OwnershipInvariant, PTL

-----------------------------------------------------------------------------
(* The ids that workers know of.                                           *)

\* A step that writes resources anew, if any, and leaves every worker as it
\* was, idle, or with a copy that has the id of the resource it would replace.
LEMMA RecordedKept ==
  ASSUME TypeOK, TypeOK', LeakInv, IdsRecorded,
         \A d \in Conditions :
           \/ store'[d] = store[d] /\ revision'[d] = revision[d]
           \/ revision'[d] > revision[d],
         \A k \in Kinds :
           \/ worker'[k] = worker[k]
           \/ worker'[k].pc = "idle"
           \/ LET w == worker'[k] IN
              /\ w.pc = "search" => w.object.id = None
              /\ revision'[w.key] = w.rev => store'[w.key].id \in {None, w.object.id}
  PROVE  IdsRecorded'
<1> SUFFICES ASSUME NEW k \in Kinds
             PROVE  LET w == worker'[k] IN
                    /\ w.pc = "search" => w.object.id = None
                    /\ w.pc # "idle" /\ revision'[w.key] = w.rev
                         => store'[w.key].id \in {None, w.object.id}
  BY DEF IdsRecorded, Conflict
<1>1. CASE worker'[k] = worker[k] /\ worker[k].pc # "idle"
  <2>1. worker[k].key \in Conditions /\ worker[k].rev \in Nat
    BY <1>1, BusyType
  <2>2. worker[k].rev <= revision[worker[k].key]
    BY <1>1 DEF LeakInv, WorkerCoherent
  <2>3. revision[worker[k].key] \in Nat
    BY <2>1 DEF TypeOK
  <2>4. worker[k].pc = "search" => worker[k].object.id = None
    BY DEF IdsRecorded
  <2>5. revision[worker[k].key] = worker[k].rev
          => store[worker[k].key].id \in {None, worker[k].object.id}
    BY <1>1 DEF IdsRecorded, Conflict
  <2>6. CASE /\ store'[worker[k].key] = store[worker[k].key]
             /\ revision'[worker[k].key] = revision[worker[k].key]
    BY <1>1, <2>4, <2>5, <2>6
  <2>7. CASE revision'[worker[k].key] > revision[worker[k].key]
    <3>1. revision'[worker[k].key] \in Nat
      BY <2>1 DEF TypeOK
    <3>2. revision'[worker[k].key] # worker[k].rev
      BY <2>1, <2>2, <2>3, <2>7, <3>1
    <3>3. QED
      BY <1>1, <2>4, <3>2
  <2>8. QED
    BY <2>1, <2>6, <2>7
<1>2. CASE worker'[k].pc = "idle"
  BY <1>2
<1>3. QED
  BY <1>1, <1>2

\* The steps that write a resource make it newer.
LEMMA PutRevision ==
  ASSUME TypeOK, NEW c, NEW o, Put(c, o) \/ UNCHANGED cluster
  PROVE  \A d \in Conditions :
           \/ store'[d] = store[d] /\ revision'[d] = revision[d]
           \/ revision'[d] > revision[d]
BY DEF Put, cluster, TypeOK

LEMMA OutsideRecorded ==
  ASSUME TypeOK, TypeOK', LeakInv, IdsRecorded,
         User \/ Informer \/ Crash \/ \E i \in Ids : OutOfBandDelete(i)
  PROVE  IdsRecorded'
<1>1. \E c, o : Put(c, o) \/ UNCHANGED cluster
  BY DEF User, UserCreate, UserEdit, UserDelete, Informer, InformerSync, Resync,
         Crash, OutOfBandDelete
<1>2. UNCHANGED worker \/ worker' = [k \in Kinds |-> Idle]
  BY DEF User, UserCreate, UserEdit, UserDelete, UserOp, Informer, InformerSync,
         Resync, Crash, OutOfBandDelete
<1>3. \A k \in Kinds : worker'[k] = worker[k] \/ worker'[k].pc = "idle"
  BY <1>2 DEF Idle
<1>4. QED
  BY <1>1, <1>3, PutRevision, RecordedKept

LEMMA ReconcileRecorded ==
  ASSUME TypeOK, TypeOK', LeakInv, IdsRecorded, NEW k \in Kinds,
         NEW c \in Conditions, Reconcile(k, c)
  PROVE  IdsRecorded'
<1>1. UNCHANGED cluster
  BY DEF Reconcile, ReconcileFails, ReconcileNothing, ReconcileDeletion,
         ReconcileSpec, Begin
<1>2. CASE ReconcileFails(k, c) \/ ReconcileNothing(k, c)
  BY <1>1, <1>2, PutRevision, RecordedKept DEF ReconcileFails, ReconcileNothing
<1>3. CASE ReconcileDeletion(k, c) \/ ReconcileSpec(k, c)
  <2>1. cache[c].object # None
    BY <1>3 DEF ReconcileDeletion, ReconcileSpec, NothingToDo
  <2>2. cache[c].object \in Object
    BY <2>1 DEF TypeOK
  <2>3. PICK o, step : /\ Begin(k, c, step, o)
                       /\ o.id = cache[c].object.id
                       /\ step = "search" => o.id = None
    BY <1>3, <2>2 DEF ReconcileDeletion, ReconcileSpec, Prepared, Object
  <2>4. /\ worker'[k] = [pc |-> step, key |-> c, object |-> o, rev |-> cache[c].rev]
        /\ \A j \in Kinds : j # k => worker'[j] = worker[j]
    BY <2>3 DEF Begin, TypeOK
  <2>5. revision[c] = cache[c].rev => store[c].id = o.id
    BY <2>3 DEF LeakInv, CacheCoherent
  <2>6. LET w == worker'[k] IN
        /\ w.pc = "search" => w.object.id = None
        /\ revision'[w.key] = w.rev => store'[w.key].id \in {None, w.object.id}
    BY <1>1, <2>3, <2>4, <2>5 DEF cluster
  <2>7. \A d \in Conditions : store'[d] = store[d] /\ revision'[d] = revision[d]
    BY <1>1 DEF cluster
  <2>8. QED
    BY <2>4, <2>6, <2>7, RecordedKept
<1>4. QED
  BY <1>2, <1>3 DEF Reconcile

LEMMA CallRecorded ==
  ASSUME TypeOK, TypeOK', LeakInv, IdsRecorded, NEW k \in Kinds, Call(k)
  PROVE  IdsRecorded'
<1> DEFINE object == worker[k].object
<1>1. worker[k].pc # "idle" /\ object \in Object /\ worker[k] \in Busy
  BY BusyType
  DEF Call, Search, UpdateCondition, CreateCondition, Save, DeleteCondition, Release
<1>2. CASE Save(k) \/ Release(k)
  <2>1. \E c, o : Put(c, o) \/ UNCHANGED cluster
    BY <1>2 DEF Save, Release
  <2>2. \A j \in Kinds : worker'[j] = worker[j] \/ worker'[j].pc = "idle"
    BY <1>2, StopFields DEF Save, Release, Idle
  <2>3. QED
    BY <2>1, <2>2, PutRevision, RecordedKept
<1>3. ASSUME NEW o, NEW step \in Steps \ {"search"}, GoOn(k, step, o),
             UNCHANGED cluster, object.id = None \/ o.id = object.id
      PROVE  IdsRecorded'
  <2>1. /\ worker'[k].pc = step
        /\ worker'[k].object = o
        /\ worker'[k].key = worker[k].key
        /\ worker'[k].rev = worker[k].rev
        /\ \A j \in Kinds : j # k => worker'[j] = worker[j]
    BY <1>1, <1>3 DEF GoOn, TypeOK, Busy
  <2>2. revision[worker[k].key] = worker[k].rev
          => store[worker[k].key].id \in {None, object.id}
    BY <1>1 DEF IdsRecorded, Conflict
  <2>3. LET w == worker'[k] IN
        /\ w.pc = "search" => w.object.id = None
        /\ revision'[w.key] = w.rev => store'[w.key].id \in {None, w.object.id}
    BY <1>3, <2>1, <2>2 DEF cluster
  <2>4. QED
    BY <1>3, <2>1, <2>3, PutRevision, RecordedKept
<1>4. CASE Search(k)
  <2>1. object.id = None
    BY <1>4 DEF Search, IdsRecorded
  <2>2. \E o : GoOn(k, "write", o)
    BY <1>4 DEF Search
  <2>3. UNCHANGED cluster
    BY <1>4 DEF Search
  <2>4. QED
    BY <1>3, <2>1, <2>2, <2>3 DEF Steps
<1>5. CASE UpdateCondition(k)
  <2>1. \E o : GoOn(k, "save", o) /\ o.id = object.id
    <3>1. Applied(object, object.id).id = object.id
      BY <1>1 DEF Applied, Object
    <3>2. GoOn(k, "save", object) \/ GoOn(k, "save", Applied(object, object.id))
      BY <1>5 DEF UpdateCondition
    <3>3. QED
      BY <3>1, <3>2
  <2>2. UNCHANGED cluster
    BY <1>5 DEF UpdateCondition
  <2>3. QED
    BY <1>3, <2>1, <2>2 DEF Steps
<1>6. CASE CreateCondition(k)
  <2>1. object.id = None /\ UNCHANGED cluster /\ \E o : GoOn(k, "save", o)
    BY <1>6 DEF CreateCondition
  <2>2. QED
    BY <1>3, <2>1 DEF Steps
<1>7. CASE DeleteCondition(k)
  <2>1. UNCHANGED cluster
    BY <1>7 DEF DeleteCondition
  <2>2. [object EXCEPT !.finalizer = FALSE].id = object.id
    BY <1>1 DEF Object
  <2>3. CASE Fail(k)
    <3>1. \A j \in Kinds : worker'[j] = worker[j] \/ worker'[j].pc = "idle"
      BY <2>3, StopFields DEF Idle
    <3>2. QED
      BY <2>1, <3>1, PutRevision, RecordedKept
  <2>4. CASE GoOn(k, "release", [object EXCEPT !.finalizer = FALSE])
    BY <1>3, <2>1, <2>2, <2>4 DEF Steps
  <2>5. QED
    BY <1>7, <2>3, <2>4, DeleteFacts
<1>8. QED
  BY <1>2, <1>4, <1>5, <1>6, <1>7 DEF Call

LEMMA StepRecorded ==
  ASSUME TypeOK, TypeOK', LeakInv, IdsRecorded, [Next]_vars
  PROVE  IdsRecorded'
<1>1. CASE UNCHANGED vars
  BY <1>1 DEF vars, cluster, IdsRecorded, Conflict
<1>2. QED
  BY <1>1, OutsideRecorded, ReconcileRecorded, CallRecorded DEF Next

-----------------------------------------------------------------------------
(* The conditions about to be deleted.                                     *)

\* Ids are not given out twice: what New Relic no longer holds does not return.
LEMMA NoRevival ==
  ASSUME TypeOK, LeakInv, [Next]_vars, NEW i \in Ids, i \in used, nr[i] = None
  PROVE  nr'[i] = None
<1>1. CASE UNCHANGED nr
  BY <1>1
<1>2. CASE \E j \in Ids : OutOfBandDelete(j)
  BY <1>2 DEF OutOfBandDelete, TypeOK
<1>3. ASSUME NEW k \in Kinds, UpdateCondition(k) PROVE nr'[i] = None
  BY <1>3 DEF UpdateCondition, TypeOK
<1>4. ASSUME NEW k \in Kinds, CreateCondition(k) PROVE nr'[i] = None
  BY <1>4, FreshIdType DEF CreateCondition, NewCondition, newRelic, TypeOK
<1>5. ASSUME NEW k \in Kinds, DeleteCondition(k) PROVE nr'[i] = None
  BY <1>5, DeleteFacts DEF TypeOK
<1>6. QED
  BY <1>1, <1>2, <1>3, <1>4, <1>5
  DEF Next, vars, newRelic, User, UserCreate, UserEdit, UserDelete, UserOp,
      Informer, InformerSync, Resync, Crash, Reconcile, ReconcileFails,
      ReconcileNothing, ReconcileDeletion, ReconcileSpec, Begin, Call, Search,
      Save, Release

\* A resource being deleted keeps its id, until what it records is gone.
LEMMA DoomedResource ==
  ASSUME TypeOK, LeakInv, [Next]_vars, NEW c \in Conditions,
         store[c] # None, store[c].deleting, store[c].id # None
  PROVE  \/ store'[c] # None /\ store'[c].deleting /\ store'[c].id = store[c].id
         \/ nr'[store[c].id] = None
<1>1. CASE store'[c] = store[c]
  BY <1>1
<1>2. CASE store'[c] # store[c]
  <2>1. ~UserCreate(c) /\ ~UserDelete(c)
    BY DEF UserCreate, UserDelete
  <2>2. CASE UserEdit(c)
    <3>1. PICK s \in SpecsFor[c] : store'[c] = [store[c] EXCEPT !.spec = s]
      BY <2>2 DEF UserEdit, Put, TypeOK
    <3>2. store[c] \in Object /\ s \in Specs
      BY ConstantsAssumption DEF TypeOK
    <3>3. [store[c] EXCEPT !.spec = s] \in Object
      BY <3>2, ObjectFields
    <3>4. /\ [store[c] EXCEPT !.spec = s].deleting = store[c].deleting
          /\ [store[c] EXCEPT !.spec = s].id = store[c].id
      BY <3>2 DEF Object
    <3>5. QED
      BY <3>1, <3>3, <3>4, ObjectFields
  <2>3. ASSUME NEW k \in Kinds, worker[k].key = c, worker[k].pc # "idle",
               ~Conflict(k), UNCHANGED nr, Save(k) \/ Release(k)
        PROVE  nr'[store[c].id] = None
    BY <2>3 DEF Save, Release, Conflict, LeakInv, WorkerCoherent, WorkerPhases
  <2>4. QED
    BY <1>2, <2>1, <2>2, <2>3, Writers
<1>3. QED
  BY <1>1, <1>2

LEMMA DoomedKept ==
  ASSUME TypeOK, TypeOK', LeakInv, Doomed, [Next]_vars,
         NEW c, NEW o, Copied(c, o),
         o \in Object /\ o.deleting /\ o.id # None =>
           \/ o = store'[c]
           \/ \E q \in Copies(c) : q.deleting /\ q.id = o.id
  PROVE  Doomed'
<1> SUFFICES ASSUME NEW d \in Conditions, NEW p \in Copies(d)',
                    p.deleting, p.id # None
             PROVE  \/ nr'[p.id] = None
                    \/ store'[d] # None /\ store'[d].deleting /\ store'[d].id = p.id
  BY DEF Doomed
<1>1. p \in Object /\ p # None
  BY CopiesAreNext
<1>2. p = store'[d] \/ \E q \in Copies(d) : q.deleting /\ q.id = p.id
  BY <1>1, CopiedCopies
<1>3. CASE \E q \in Copies(d) : q.deleting /\ q.id = p.id
  <2>1. PICK q \in Copies(d) : q.deleting /\ q.id = p.id
    BY <1>3
  <2>2. p.id \in Ids /\ p.id \in used
    BY <1>1, <2>1, CopiesUsed DEF Object, LeakInv
  <2>3. \/ nr[p.id] = None
        \/ store[d] # None /\ store[d].deleting /\ store[d].id = p.id
    BY <2>1 DEF Doomed
  <2>4. QED
    BY <2>2, <2>3, NoRevival, DoomedResource
<1>4. QED
  BY <1>1, <1>2, <1>3

LEMMA UserDoomed ==
  ASSUME TypeOK, TypeOK', LeakInv, Doomed, User PROVE Doomed'
<1>1. PICK c \in Conditions : UserCreate(c) \/ UserEdit(c) \/ UserDelete(c)
  BY DEF User
<1>2. UNCHANGED <<cache, worker>> /\ \E o : Put(c, o)
  BY <1>1 DEF UserCreate, UserEdit, UserDelete, UserOp
<1>3. Copied(c, store'[c])
  BY <1>2 DEF Copied, Put, TypeOK
<1>4. QED
  BY <1>3, DoomedKept DEF Next

LEMMA ManagerDoomed ==
  ASSUME TypeOK, TypeOK', LeakInv, Doomed,
         Informer \/ Crash \/ \E i \in Ids : OutOfBandDelete(i)
  PROVE  Doomed'
<1>1. UNCHANGED store /\ (UNCHANGED worker \/ worker' = [k \in Kinds |-> Idle])
  BY DEF Informer, InformerSync, Resync, Crash, OutOfBandDelete, cluster
<1>2. \A d \in Conditions : cache'[d].object \in {cache[d].object, store[d]}
  BY DEF Informer, InformerSync, Resync, Crash, OutOfBandDelete, TypeOK
<1>3. Copied(None, None)
  BY <1>1, <1>2 DEF Copied, Idle
<1>4. None \notin Object
  BY ConstantsAssumption
<1>5. QED
  BY <1>3, <1>4, DoomedKept DEF Next

LEMMA ReconcileDoomed ==
  ASSUME TypeOK, TypeOK', LeakInv, Doomed, NEW k \in Kinds,
         NEW c \in Conditions, Reconcile(k, c)
  PROVE  Doomed'
<1>1. UNCHANGED <<store, cache>>
  BY DEF Reconcile, ReconcileFails, ReconcileNothing, ReconcileDeletion,
         ReconcileSpec, Begin, cluster
<1>2. CASE ReconcileFails(k, c) \/ ReconcileNothing(k, c)
  <2>1. Copied(None, None)
    BY <1>1, <1>2 DEF ReconcileFails, ReconcileNothing, Copied
  <2>2. None \notin Object
    BY ConstantsAssumption
  <2>3. QED
    BY <2>1, <2>2, DoomedKept DEF Next
<1>3. CASE ReconcileDeletion(k, c) \/ ReconcileSpec(k, c)
  <2>1. cache[c].object # None
    BY <1>3 DEF ReconcileDeletion, ReconcileSpec, NothingToDo
  <2>2. cache[c].object \in Object /\ cache[c].object \in Copies(c)
    BY <2>1, CopiesAre DEF TypeOK
  <2>3. PICK o, step : /\ Begin(k, c, step, o)
                       /\ o.deleting = cache[c].object.deleting
                       /\ o.id = cache[c].object.id
    BY <1>3, <2>2 DEF ReconcileDeletion, ReconcileSpec, Prepared, Object
  <2>4. Copied(c, o)
    BY <1>1, <2>3 DEF Begin, Copied, TypeOK
  <2>5. QED
    BY <2>2, <2>3, <2>4, DoomedKept DEF Next
<1>4. QED
  BY <1>2, <1>3 DEF Reconcile

LEMMA CallDoomed ==
  ASSUME TypeOK, TypeOK', LeakInv, Ownership, Doomed, NEW k \in Kinds, Call(k)
  PROVE  Doomed'
<1> DEFINE c == worker[k].key
           object == worker[k].object
<1>1. worker[k].pc # "idle"
  BY DEF Call, Search, UpdateCondition, CreateCondition, Save, DeleteCondition,
         Release
<1>2. c \in Conditions /\ object \in Object /\ object \in Copies(c)
  BY <1>1, WorkerCopy
<1>3. CASE Save(k) \/ Release(k)
  <2>1. UNCHANGED store \/ store' = [store EXCEPT ![c] = object]
                        \/ store' = [store EXCEPT ![c] = None]
    BY <1>3 DEF Save, Release, Put, cluster
  <2>2. worker'[k].key = None /\ \A j \in Kinds : j # k => worker'[j] = worker[j]
    BY <1>3, StopFields DEF Save, Release, Idle
  <2>3. UNCHANGED cache
    BY <1>3 DEF Save, Release
  <2>4. Copied(c, object)
    BY <1>2, <2>1, <2>2, <2>3 DEF Copied, TypeOK
  <2> HIDE DEF c, object
  <2>5. QED
    BY <1>2, <2>4, DoomedKept DEF Next
<1>4. ASSUME NEW o, NEW step, GoOn(k, step, o), UNCHANGED <<store, cache>>,
             ~o.deleting \/ (object.deleting /\ o.id = object.id)
      PROVE  Doomed'
  <2>1. Copied(c, o)
    BY <1>4, GoOnCopied
  <2> HIDE DEF c, object
  <2>2. QED
    BY <1>2, <1>4, <2>1, DoomedKept DEF Next
<1>5. CASE Search(k) \/ UpdateCondition(k) \/ CreateCondition(k)
  <2>1. ~object.deleting
    BY <1>5 DEF Search, UpdateCondition, CreateCondition, LeakInv, WorkerPhases
  <2>2. \A i : ~Adopt(object, i).deleting /\ ~Applied(object, i).deleting
    BY <1>2, <2>1 DEF Adopt, Applied, Object
  <2>3. \E o, step : GoOn(k, step, o) /\ ~o.deleting
    BY <1>5, <2>1, <2>2 DEF Search, UpdateCondition, CreateCondition
  <2>4. UNCHANGED <<store, cache>>
    BY <1>5 DEF Search, UpdateCondition, CreateCondition, cluster
  <2>5. QED
    BY <1>4, <2>3, <2>4
<1>6. CASE DeleteCondition(k)
  <2>1. [object EXCEPT !.finalizer = FALSE].id = object.id
    BY <1>2 DEF Object
  <2>2. CASE Fail(k)
    <3>1. worker'[k].key = None /\ \A j \in Kinds : j # k => worker'[j] = worker[j]
      BY <2>2, StopFields DEF Idle
    <3>2. Copied(None, None) /\ None \notin Object
      BY <1>6, <3>1, DeleteFacts, ConstantsAssumption DEF Copied
    <3>3. QED
      BY <3>2, DoomedKept DEF Next
  <2>3. CASE GoOn(k, "release", [object EXCEPT !.finalizer = FALSE])
    BY <1>4, <1>6, <2>1, <2>3, DeleteFacts
  <2>4. QED
    BY <1>6, <2>2, <2>3, DeleteFacts
<1>7. QED
  BY <1>3, <1>5, <1>6 DEF Call

LEMMA StepDoomed ==
  ASSUME TypeOK, TypeOK', LeakInv, Ownership, Doomed, [Next]_vars
  PROVE  Doomed'
<1>1. CASE UNCHANGED vars
  <2>1. Copied(None, None) /\ None \notin Object
    BY <1>1, ConstantsAssumption DEF vars, cluster, Copied
  <2>2. QED
    BY <2>1, DoomedKept
<1>2. QED
  BY <1>1, UserDoomed, ManagerDoomed, ReconcileDoomed, CallDoomed DEF Next

\* A worker whose Update would be accepted replaces no recorded id, and what a
\* copy is about to delete is what its resource records, or gone.
THEOREM LifecycleInvariant ==
  ASSUME DistinctNames PROVE Spec => []LifecycleInv
<1>1. Init => IdsRecorded /\ Doomed
  BY ConstantsAssumption DEF Init, IdsRecorded, Doomed, Copies, Idle
<1>2. TypeOK /\ TypeOK' /\ LeakInv /\ Ownership /\ IdsRecorded /\ Doomed
        /\ [Next]_vars => IdsRecorded' /\ Doomed'
  BY StepRecorded, StepDoomed
<1>3. Spec => [](IdsRecorded /\ Doomed)
  BY <1>1, <1>2, TypeCorrect, LeakInvariant, OwnershipInvariant, PTL DEF Spec
<1>4. QED
  BY <1>3, OwnershipInvariant, PTL DEF LifecycleInv

-----------------------------------------------------------------------------
(* The refinement.                                                         *)

\* What a resource shows.
LEMMA RecordedIs ==
  ASSUME TypeOK, NEW c \in Conditions
  PROVE  /\ store[c] = None => Recorded[c] = None
         /\ store[c] # None =>
              /\ store[c] \in Object
              /\ Recorded[c] # None
              /\ Recorded[c] = [spec |-> store[c].spec,
                                deleting |-> store[c].deleting,
                                id |-> store[c].id]
              /\ Recorded[c].deleting = store[c].deleting
              /\ Recorded[c].id = store[c].id
<1>1. CASE store[c] # None
  <2>1. store[c] \in Object
    BY <1>1 DEF TypeOK
  <2>2. Recorded[c] = [spec |-> store[c].spec, deleting |-> store[c].deleting,
                       id |-> store[c].id]
    BY <1>1 DEF Recorded
  <2>3. Recorded[c] \in Shown
    BY <2>1, <2>2 DEF Object, Shown
  <2>4. Recorded[c].deleting = store[c].deleting /\ Recorded[c].id = store[c].id
    BY <2>2
  <2>5. QED
    BY <1>1, <2>1, <2>2, <2>3, <2>4, ConstantsAssumption
<1>2. QED
  BY <1>1 DEF Recorded

\* A step that changes at most one resource changes at most what it shows.
LEMMA RecordedNext ==
  ASSUME TypeOK, NEW c \in Conditions,
         \A d \in Conditions : d # c => store'[d] = store[d]
  PROVE  /\ Recorded' = [Recorded EXCEPT ![c] = Recorded'[c]]
         /\ store'[c] = None => Recorded' = [Recorded EXCEPT ![c] = None]
         /\ store'[c] # None =>
              Recorded' = [Recorded EXCEPT
                             ![c] = [spec |-> store'[c].spec,
                                     deleting |-> store'[c].deleting,
                                     id |-> store'[c].id]]
BY DEF Recorded

LEMMA InitRefines == Init => Lifecycle!Init
BY DEF Init, Lifecycle!Init, Recorded

LEMMA UserRefines ==
  ASSUME TypeOK, LeakInv, User PROVE Lifecycle!Next
<1>1. PICK c \in Conditions : UserCreate(c) \/ UserEdit(c) \/ UserDelete(c)
  BY DEF User
<1>2. UNCHANGED <<nr, used>>
  BY <1>1 DEF UserCreate, UserEdit, UserDelete, UserOp, newRelic
<1>3. \A d \in Conditions : d # c => store'[d] = store[d]
  BY <1>1 DEF UserCreate, UserEdit, UserDelete, Put, TypeOK
<1>4. CASE UserCreate(c)
  <2>1. PICK s \in SpecsFor[c] :
          store'[c] = [spec |-> s, deleting |-> FALSE, finalizer |-> FALSE,
                       id |-> None, applied |-> None]
    BY <1>4 DEF UserCreate, Put, TypeOK
  <2>2. s \in Specs
    BY ConstantsAssumption
  <2>3. store'[c] # None
    <3>1. store'[c] \in Object
      BY <2>1, <2>2 DEF Object
    <3>2. QED
      BY <3>1, ConstantsAssumption
  <2>4. Recorded' = [Recorded EXCEPT
                       ![c] = [spec |-> s, deleting |-> FALSE, id |-> None]]
    <3>1. /\ store'[c].spec = s
          /\ store'[c].deleting = FALSE
          /\ store'[c].id = None
      BY <2>1
    <3>2. QED
      BY <1>3, <2>3, <3>1, RecordedNext
  <2>5. Recorded[c] = None
    BY <1>4, RecordedIs DEF UserCreate
  <2>6. Lifecycle!Declare(c)
    BY <1>2, <2>4, <2>5 DEF Lifecycle!Declare
  <2>7. QED
    BY <2>6 DEF Lifecycle!Next
<1>5. CASE UserEdit(c)
  <2>1. store[c] # None
    BY <1>5 DEF UserEdit
  <2>2. PICK s \in SpecsFor[c] : store'[c] = [store[c] EXCEPT !.spec = s]
    BY <1>5 DEF UserEdit, Put, TypeOK
  <2>3. s \in Specs /\ store[c] \in Object
    BY <2>1, ConstantsAssumption, RecordedIs
  <2>4. /\ store'[c].spec = s
        /\ store'[c].deleting = store[c].deleting
        /\ store'[c].id = store[c].id
        /\ store'[c] # None
    <3>1. [store[c] EXCEPT !.spec = s] # None
      <4>1. [store[c] EXCEPT !.spec = s] \in Object
        BY <2>3, ObjectFields
      <4>2. QED
        BY <4>1, ConstantsAssumption
    <3>2. /\ [store[c] EXCEPT !.spec = s].spec = s
          /\ [store[c] EXCEPT !.spec = s].deleting = store[c].deleting
          /\ [store[c] EXCEPT !.spec = s].id = store[c].id
      BY <2>3 DEF Object
    <3>3. QED
      BY <2>2, <3>1, <3>2
  <2>5. Recorded' = [Recorded EXCEPT ![c] = [spec |-> s,
                       deleting |-> store[c].deleting, id |-> store[c].id]]
    BY <1>3, <2>4, RecordedNext
  <2>6. Recorded' = [Recorded EXCEPT ![c].spec = s]
    BY <2>1, <2>5, RecordedIs DEF Recorded
  <2>7. Lifecycle!Edit(c)
    BY <1>2, <2>1, <2>6, RecordedIs DEF Lifecycle!Edit
  <2>8. QED
    BY <2>7 DEF Lifecycle!Next
<1>6. CASE UserDelete(c)
  <2>1. store[c] # None /\ store[c] \in Object
    BY <1>6, RecordedIs DEF UserDelete
  <2>2. CASE store[c].finalizer
    <3>1. store'[c] = [store[c] EXCEPT !.deleting = TRUE]
      BY <1>6, <2>2 DEF UserDelete, Put, TypeOK
    <3>2. /\ store'[c].spec = store[c].spec
          /\ store'[c].deleting = TRUE
          /\ store'[c].id = store[c].id
          /\ store'[c] # None
      <4>1. [store[c] EXCEPT !.deleting = TRUE] # None
        <5>1. [store[c] EXCEPT !.deleting = TRUE] \in Object
          BY <2>1, ObjectFields
        <5>2. QED
          BY <5>1, ConstantsAssumption
      <4>2. /\ [store[c] EXCEPT !.deleting = TRUE].spec = store[c].spec
            /\ [store[c] EXCEPT !.deleting = TRUE].deleting = TRUE
            /\ [store[c] EXCEPT !.deleting = TRUE].id = store[c].id
        BY <2>1 DEF Object
      <4>3. QED
        BY <3>1, <4>1, <4>2
    <3>3. Recorded' = [Recorded EXCEPT ![c] = [spec |-> store[c].spec,
                         deleting |-> TRUE, id |-> store[c].id]]
      BY <1>3, <3>2, RecordedNext
    <3>4. Recorded' = [Recorded EXCEPT ![c].deleting = TRUE]
      BY <2>1, <3>3, RecordedIs DEF Recorded
    <3>5. Lifecycle!Retire(c)
      BY <1>2, <2>1, <3>4, RecordedIs DEF Lifecycle!Retire
    <3>6. QED
      BY <3>5 DEF Lifecycle!Next
  <2>3. CASE ~store[c].finalizer
    <3>1. store'[c] = None
      BY <1>6, <2>3 DEF UserDelete, Put, TypeOK
    <3>2. store[c].id = None
      BY <2>1, <2>3 DEF LeakInv, FinalizerKept
    <3>3. Recorded' = [Recorded EXCEPT ![c] = None]
      BY <1>3, <3>1, RecordedNext
    <3>4. Recorded[c] # None /\ Recorded[c].id = None
      BY <2>1, <3>2, RecordedIs
    <3>5. Lifecycle!Forget(c)
      BY <1>2, <3>3, <3>4 DEF Lifecycle!Forget
    <3>6. QED
      BY <3>5 DEF Lifecycle!Next
  <2>4. QED
    BY <2>2, <2>3
<1>7. QED
  BY <1>1, <1>4, <1>5, <1>6

\* What happens to caches, queues and workers does not show.
LEMMA InternalRefines ==
  ASSUME UNCHANGED vars \/ Informer \/ Crash
         \/ \E k \in Kinds : Search(k) \/ \E c \in Conditions : Reconcile(k, c)
  PROVE  UNCHANGED Lifecycle!vars
<1>1. UNCHANGED <<store, nr, used>>
  BY DEF vars, Informer, InformerSync, Resync, Crash, Search, Reconcile,
         ReconcileFails, ReconcileNothing, ReconcileDeletion, ReconcileSpec,
         Begin, cluster, newRelic
<1>2. QED
  BY <1>1 DEF Lifecycle!vars, Recorded

LEMMA VanishRefines ==
  ASSUME NEW i \in Ids, OutOfBandDelete(i) PROVE Lifecycle!Next
<1>1. UNCHANGED Recorded
  BY DEF OutOfBandDelete, cluster, Recorded
<1>2. Lifecycle!Vanish(i)
  BY <1>1 DEF OutOfBandDelete, Lifecycle!Vanish
<1>3. QED
  BY <1>2 DEF Lifecycle!Next

LEMMA UpdateRefines ==
  ASSUME TypeOK, Ownership, NEW k \in Kinds, UpdateCondition(k)
  PROVE  Lifecycle!Next \/ UNCHANGED Lifecycle!vars
<1> DEFINE c == worker[k].key
           object == worker[k].object
<1>1. /\ c \in Conditions /\ object \in Object
      /\ object \in Copies(c) /\ object.spec \in SpecsFor[c]
  BY WorkerCopy DEF UpdateCondition
<1>2. UNCHANGED <<Recorded, used>> /\ object.id \in Ids
  BY <1>1 DEF UpdateCondition, cluster, Recorded, Object
<1>3. CASE UNCHANGED nr
  BY <1>2, <1>3 DEF Lifecycle!vars
<1>4. CASE nr[object.id] # None /\ nr' = [nr EXCEPT ![object.id] = object.spec]
  <2>1. object.id # None
    BY <1>2, ConstantsAssumption
  <2>2. nr[object.id] \in SpecsFor[c]
    BY <1>1, <1>4, <2>1 DEF Ownership
  <2>3. Lifecycle!Amend(c, object.id)
    BY <1>1, <1>2, <1>4, <2>2 DEF Lifecycle!Amend
  <2>4. QED
    BY <1>1, <1>2, <2>3 DEF Lifecycle!Next
<1>5. QED
  BY <1>3, <1>4 DEF UpdateCondition

LEMMA CreateRefines ==
  ASSUME TypeOK, Ownership, NEW k \in Kinds, CreateCondition(k)
  PROVE  Lifecycle!Next \/ UNCHANGED Lifecycle!vars
<1> DEFINE c == worker[k].key
           object == worker[k].object
<1>1. c \in Conditions /\ object.spec \in SpecsFor[c]
  BY WorkerCopy DEF CreateCondition
<1>2. UNCHANGED Recorded
  BY DEF CreateCondition, cluster, Recorded
<1>3. CASE UNCHANGED newRelic
  BY <1>2, <1>3 DEF Lifecycle!vars, newRelic
<1>4. CASE Ids \ used # {} /\ NewCondition(object.spec)
  <2>1. FreshId \in Ids /\ FreshId \notin used
    BY <1>4, FreshIdType
  <2>2. Lifecycle!Provision(c, FreshId)
    BY <1>1, <1>2, <1>4, <2>1 DEF NewCondition, Lifecycle!Provision
  <2>3. QED
    BY <1>1, <2>1, <2>2 DEF Lifecycle!Next
<1>5. QED
  BY <1>3, <1>4 DEF CreateCondition

LEMMA DeleteRefines ==
  ASSUME TypeOK, LeakInv, Ownership, Doomed, NEW k \in Kinds, DeleteCondition(k)
  PROVE  Lifecycle!Next \/ UNCHANGED Lifecycle!vars
<1> DEFINE c == worker[k].key
           object == worker[k].object
<1>1. /\ c \in Conditions /\ object \in Object /\ object \in Copies(c)
      /\ object.id \in Ids /\ object.deleting
      /\ UNCHANGED <<Recorded, used>>
      /\ UNCHANGED nr \/ nr' = [nr EXCEPT ![object.id] = None]
  BY WorkerCopy, DeleteFacts DEF DeleteCondition, Recorded
<1>2. object.id # None
  BY <1>1, ConstantsAssumption
<1>3. CASE UNCHANGED nr
  BY <1>1, <1>3 DEF Lifecycle!vars
<1>4. CASE nr[object.id] = None /\ nr' = [nr EXCEPT ![object.id] = None]
  BY <1>1, <1>4 DEF Lifecycle!vars, TypeOK
<1>5. CASE nr[object.id] # None /\ nr' = [nr EXCEPT ![object.id] = None]
  <2>1. store[c] # None /\ store[c].deleting /\ store[c].id = object.id
    BY <1>1, <1>2, <1>5 DEF Doomed
  <2>2. nr[object.id] \in SpecsFor[c]
    BY <1>1, <1>2, <1>5 DEF Ownership
  <2>3. /\ Recorded[c] # None /\ Recorded[c].deleting
        /\ Recorded[c].id = object.id
    BY <1>1, <2>1, RecordedIs
  <2>4. Lifecycle!Withdraw(c)
    <3>1. /\ nr[Recorded[c].id] \in SpecsFor[c]
          /\ nr' = [nr EXCEPT ![Recorded[c].id] = None]
          /\ Recorded[c].id # None
      BY <1>2, <1>5, <2>2, <2>3
    <3>2. UNCHANGED <<Recorded, used>>
      BY <1>1
    <3>3. QED
      BY <2>3, <3>1, <3>2 DEF Lifecycle!Withdraw
  <2>5. QED
    BY <1>1, <2>4 DEF Lifecycle!Next
<1>6. QED
  BY <1>1, <1>3, <1>4, <1>5

LEMMA SaveRefines ==
  ASSUME TypeOK, LeakInv, Ownership, IdsRecorded, NEW k \in Kinds, Save(k)
  PROVE  Lifecycle!Next \/ UNCHANGED Lifecycle!vars
<1> DEFINE c == worker[k].key
           object == worker[k].object
<1>1. /\ c \in Conditions /\ object \in Object /\ object # None
      /\ object \in Copies(c) /\ ~object.deleting
  BY WorkerCopy, ObjectFields DEF Save, LeakInv, WorkerPhases
<1>2. UNCHANGED <<nr, used>>
  BY DEF Save, newRelic
<1>3. CASE UNCHANGED store
  BY <1>2, <1>3 DEF Lifecycle!vars, Recorded
<1>4. CASE ~Conflict(k) /\ store' = [store EXCEPT ![c] = object]
  <2>1. /\ store[c] # None
        /\ store[c].spec = object.spec
        /\ store[c].deleting = object.deleting
        /\ store[c].id \in {None, object.id}
    BY <1>4 DEF Save, Conflict, LeakInv, WorkerCoherent, IdsRecorded
  <2>2. store'[c] = object /\ \A d \in Conditions : d # c => store'[d] = store[d]
    BY <1>1, <1>4 DEF TypeOK
  <2>3. Recorded' = [Recorded EXCEPT ![c] = [spec |-> store[c].spec,
                       deleting |-> store[c].deleting, id |-> object.id]]
    BY <1>1, <2>1, <2>2, RecordedNext
  <2>4. Recorded[c] = [spec |-> store[c].spec, deleting |-> store[c].deleting,
                       id |-> store[c].id]
    BY <1>1, <2>1, RecordedIs
  <2>5. CASE store[c].id = object.id
    <3>1. Recorded' = Recorded
      BY <2>3, <2>4, <2>5 DEF Recorded
    <3>2. QED
      BY <1>2, <3>1 DEF Lifecycle!vars
  <2>6. CASE store[c].id = None /\ object.id # None
    <3>1. object.id \in Ids /\ object.id \in used
      BY <1>1, <2>6, CopiesUsed DEF Object, LeakInv
    <3>2. nr[object.id] \in SpecsFor[c] \cup {None}
      BY <1>1, <2>6 DEF Ownership
    <3>3. \A d \in Conditions : Recorded[d] # None => Recorded[d].id # object.id
      <4>1. \A d \in Conditions : store[d] # None => store[d].id # object.id
        BY <1>1, <2>6, CopiesAre DEF Ownership
      <4>2. QED
        BY <4>1, RecordedIs
    <3>4. Recorded' = [Recorded EXCEPT ![c].id = object.id]
      <4> HIDE DEF c, object
      <4>1. [[spec |-> store[c].spec, deleting |-> store[c].deleting,
              id |-> store[c].id] EXCEPT !.id = object.id]
            = [spec |-> store[c].spec, deleting |-> store[c].deleting,
               id |-> object.id]
        OBVIOUS
      <4>2. [Recorded EXCEPT ![c].id = object.id]
            = [Recorded EXCEPT ![c] = [Recorded[c] EXCEPT !.id = object.id]]
        OBVIOUS
      <4>3. QED
        BY <2>3, <2>4, <4>1, <4>2
    <3>5. Recorded[c] # None /\ ~Recorded[c].deleting /\ Recorded[c].id = None
      BY <1>1, <2>1, <2>6, RecordedIs
    <3>6. Lifecycle!Record(c, object.id)
      <4> HIDE DEF c, object
      <4> QED
      BY <1>2, <3>1, <3>2, <3>3, <3>4, <3>5 DEF Lifecycle!Record
    <3>7. QED
      BY <1>1, <3>1, <3>6 DEF Lifecycle!Next
  <2>7. QED
    BY <2>1, <2>5, <2>6
<1>5. QED
  BY <1>3, <1>4 DEF Save, Put, cluster

LEMMA ReleaseRefines ==
  ASSUME TypeOK, LeakInv, NEW k \in Kinds, Release(k)
  PROVE  Lifecycle!Next \/ UNCHANGED Lifecycle!vars
<1> DEFINE c == worker[k].key
           object == worker[k].object
<1>1. /\ c \in Conditions
      /\ object.deleting
      /\ object.id # None => nr[object.id] = None
  BY BusyType DEF Release, LeakInv, WorkerPhases
<1>2. UNCHANGED <<nr, used>>
  BY DEF Release, newRelic
<1>3. CASE UNCHANGED cluster
  BY <1>2, <1>3 DEF Lifecycle!vars, Recorded, cluster
<1>4. CASE ~Conflict(k) /\ Put(c, None)
  <2>1. /\ store[c] # None
        /\ store[c].deleting = object.deleting
        /\ store[c].id = object.id
    BY <1>4 DEF Release, Conflict, LeakInv, WorkerCoherent
  <2>2. Recorded' = [Recorded EXCEPT ![c] = None]
    BY <1>1, <1>4, RecordedNext DEF Put, TypeOK
  <2>3. Recorded[c] # None /\ Recorded[c].deleting /\ Recorded[c].id = object.id
    BY <1>1, <2>1, RecordedIs
  <2>4. Lifecycle!Drop(c)
    <3>1. Recorded[c].id # None => nr[Recorded[c].id] = None
      BY <1>1, <2>3
    <3>2. QED
      BY <1>2, <2>2, <2>3, <3>1 DEF Lifecycle!Drop
  <2>5. QED
    BY <1>1, <2>4 DEF Lifecycle!Next
<1>5. QED
  BY <1>3, <1>4 DEF Release

LEMMA StepRefines ==
  ASSUME TypeOK, LeakInv, LifecycleInv, [Next]_vars
  PROVE  [Lifecycle!Next]_(Lifecycle!vars)
BY UserRefines, InternalRefines, VanishRefines, UpdateRefines, CreateRefines,
   DeleteRefines, SaveRefines, ReleaseRefines DEF Next, Call, LifecycleInv

\* With all their caches, queues, retries, faults and crashes, the reconcilers
\* do to the resources and to New Relic only what the lifecycle allows.
THEOREM Refinement ==
  ASSUME DistinctNames PROVE Spec => ImplementsLifecycle
<1>1. TypeOK /\ LeakInv /\ LifecycleInv /\ [Next]_vars
        => [Lifecycle!Next]_(Lifecycle!vars)
  BY StepRefines
<1>2. QED
  BY <1>1, InitRefines, TypeCorrect, LeakInvariant, LifecycleInvariant, PTL
  DEF Spec, ImplementsLifecycle, Lifecycle!Spec
=============================================================================
