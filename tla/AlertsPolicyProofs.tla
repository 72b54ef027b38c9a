------------------------- MODULE AlertsPolicyProofs -------------------------
(* What is proved about AlertsPolicyController for every set of names,     *)
(* conditions, channels and ids, every policy that users may write and     *)
(* every choice of faults.                                                 *)
EXTENDS AlertsPolicyController, SequenceTheorems, WellFoundedInduction, TLAPS

SomeName == Names \cup {None, Manual}

-----------------------------------------------------------------------------
(* The model's operators on policies and resources.                        *)

LEMMA PolicyFields ==
  ASSUME NEW p \in Policy
  PROVE  /\ p.title \in Titles /\ p.key \in Keys /\ p.account \in Accounts
         /\ p.channels \in SUBSET Channels
         /\ p.conditions \in Seq(Entry)
         /\ \A i \in DOMAIN p.conditions : p.conditions[i] \in Entry
         /\ DOMAIN p.conditions = 1 .. Len(p.conditions)
         /\ Len(p.conditions) \in Nat
<1>1. /\ p.title \in Titles /\ p.key \in Keys /\ p.account \in Accounts
      /\ p.channels \in SUBSET Channels
      /\ p.conditions \in Seq(Entry)
  BY DEF Policy
<1>2. QED
  BY <1>1, LenProperties, ElementOfSeq

LEMMA ListedType ==
  ASSUME NEW p \in Policy \cup {Nothing}
  PROVE  Listed(p) \subseteq Entry /\ p.channels \subseteq Channels
<1>1. CASE p \in Policy
  BY <1>1, PolicyFields DEF Listed
<1>2. CASE p = Nothing
  <2>1. p.conditions = << >> /\ p.channels = {}
    BY <1>2 DEF Nothing
  <2>2. DOMAIN p.conditions = {}
    BY <2>1
  <2>3. QED
    BY <2>1, <2>2 DEF Listed
<1>3. QED
  BY <1>1, <1>2

\* What a user writes, with names for its conditions' resources, is a policy.
LEMMA NamedType ==
  ASSUME NEW p \in Plain, NEW name,
         \A i \in DOMAIN p.conditions : name[i] \in SomeName
  PROVE  Named(p, name) \in Policy
<1> DEFINE seq == p.conditions
           new == [i \in DOMAIN seq |-> [name |-> name[i], spec |-> seq[i]]]
<1>1. seq \in Seq(CondSpecs) /\ p.title \in Titles /\ p.key \in Keys
      /\ p.account \in Accounts
      /\ p.channels \in SUBSET Channels
  BY DEF Plain
<1>2. DOMAIN seq = 1 .. Len(seq) /\ Len(seq) \in Nat
      /\ \A i \in 1 .. Len(seq) : seq[i] \in CondSpecs
  BY <1>1, LenProperties, ElementOfSeq
<1>3. \A i \in 1 .. Len(seq) : [name |-> name[i], spec |-> seq[i]] \in Entry
  BY <1>2 DEF Entry, SomeName
<1>4. new \in [1 .. Len(seq) -> Entry]
  BY <1>2, <1>3
<1>5. new \in Seq(Entry)
  <2>1. Seq(Entry) = UNION {[1 .. n -> Entry] : n \in Nat}
    BY SeqDef
  <2>2. [1 .. Len(seq) -> Entry] \in {[1 .. n -> Entry] : n \in Nat}
    BY <1>2
  <2> HIDE DEF new
  <2>3. QED
    BY <1>4, <2>1, <2>2
<1>6. Named(p, name) = [p EXCEPT !.conditions = new]
  BY DEF Named
<1>7. QED
  BY <1>1, <1>5, <1>6 DEF Policy, Plain

\* Giving a condition the name of its resource changes nothing but names.
LEMMA RenamedType ==
  ASSUME NEW p \in Policy, NEW k \in DOMAIN p.conditions, NEW n \in SomeName
  PROVE  LET q == [p EXCEPT !.conditions[k].name = n] IN
         q \in Policy /\ WithoutNames(q) = WithoutNames(p)
<1> DEFINE seq == p.conditions
           e   == [seq[k] EXCEPT !.name = n]
           new == [seq EXCEPT ![k] = e]
           q   == [p EXCEPT !.conditions[k].name = n]
<1>1. seq \in Seq(Entry) /\ seq[k] \in Entry /\ k \in 1 .. Len(seq)
      /\ DOMAIN seq = 1 .. Len(seq)
  BY PolicyFields
<1>2. e \in Entry /\ e.spec = seq[k].spec
  BY <1>1 DEF Entry, SomeName
<1>3. new \in Seq(Entry)
  BY <1>1, <1>2, ExceptSeq
<1>4. DOMAIN new = DOMAIN seq
  OBVIOUS
<1>5. \A i \in DOMAIN seq : new[i].spec = seq[i].spec
  BY <1>2
<1>6. q = [p EXCEPT !.conditions = new]
  BY DEF Policy
<1>7. q \in Policy /\ q.conditions = new
  BY <1>3, <1>6 DEF Policy
<1>8. [i \in DOMAIN new |-> new[i].spec] = [i \in DOMAIN seq |-> seq[i].spec]
  BY <1>4, <1>5
<1>9. WithoutNames(q) = WithoutNames(p)
  <2>1. WithoutNames(q) = [q EXCEPT !.conditions = [i \in DOMAIN new |-> new[i].spec]]
    BY <1>7 DEF WithoutNames
  <2>2. WithoutNames(p) = [p EXCEPT !.conditions = [i \in DOMAIN seq |-> seq[i].spec]]
    BY DEF WithoutNames
  <2>3. \A c : [[p EXCEPT !.conditions = new] EXCEPT !.conditions = c]
                 = [p EXCEPT !.conditions = c]
    BY DEF Policy
  <2>4. QED
    BY <1>6, <1>8, <2>1, <2>2, <2>3
<1>10. QED
  BY <1>7, <1>9

LEMMA ObjectFields ==
  ASSUME NEW o \in Object
  PROVE  /\ o # None
         /\ o.spec \in Policy /\ o.deleting \in BOOLEAN /\ o.finalizer \in BOOLEAN
         /\ o.id \in Ids \cup {None} /\ o.applied \in Policy \cup {Nothing}
         /\ [o EXCEPT !.finalizer = TRUE] \in Object
         /\ [o EXCEPT !.deleting = TRUE] \in Object
         /\ \A s \in Policy : [o EXCEPT !.spec = s] \in Object
         /\ \A i \in Ids : [o EXCEPT !.id = i] \in Object
         /\ [o EXCEPT !.applied = o.spec] \in Object
BY ConstantsAssumption DEF Object

\* What the others keep of a resource when one field of it is written.
LEMMA ObjectUpdates ==
  ASSUME NEW o \in Object
  PROVE  /\ LET q == [o EXCEPT !.finalizer = TRUE] IN
            /\ q.spec = o.spec /\ q.deleting = o.deleting /\ q.id = o.id
            /\ q.applied = o.applied /\ q.finalizer
         /\ LET q == [o EXCEPT !.deleting = TRUE] IN
            /\ q.finalizer = o.finalizer /\ q.id = o.id
         /\ \A s : LET q == [o EXCEPT !.spec = s] IN
            /\ q.deleting = o.deleting /\ q.id = o.id /\ q.finalizer = o.finalizer
            /\ q.spec = s
         /\ \A i : LET q == [o EXCEPT !.id = i] IN
            /\ q.deleting = o.deleting /\ q.spec = o.spec /\ q.finalizer = o.finalizer
         /\ LET q == [o EXCEPT !.applied = o.spec] IN
            /\ q.spec = o.spec /\ q.deleting = o.deleting /\ q.id = o.id
            /\ q.finalizer = o.finalizer
BY DEF Object

LEMMA WorkerBusy ==
  ASSUME TypeOK, worker.pc # "idle"
  PROVE  /\ worker \in Busy
         /\ worker.pc \in Steps
         /\ worker.mode \in {"create", "update", "delete"}
         /\ worker.object \in Object
         /\ worker.rev \in Nat
         /\ worker.left \in SUBSET (Entry \cup Channels)
<1>1. worker \in Busy
  BY DEF TypeOK, Idle
<1>2. QED
  BY <1>1 DEF Busy

LEMMA AtType ==
  ASSUME NEW step \in Steps, NEW mode \in {"create", "update", "delete"},
         NEW o \in Object, NEW rev \in Nat
  PROVE  /\ At(step, mode, o, rev) \in Busy
         /\ At(step, mode, o, rev).pc = step
         /\ At(step, mode, o, rev).object = o
         /\ At(step, mode, o, rev).rev = rev
<1>1. ToRemove(o) \subseteq Channels
  BY ObjectFields, ListedType DEF ToRemove
<1>2. Listed(o.applied) \subseteq Entry
  BY ObjectFields, ListedType
<1>3. At(step, mode, o, rev).left \in SUBSET (Entry \cup Channels)
  BY <1>1, <1>2 DEF At
<1>4. At(step, mode, o, rev).next \in Nat
  BY DEF At
<1>5. QED
  BY <1>3, <1>4 DEF At, Busy

LEMMA NextStep ==
  ASSUME NEW o
  PROVE  /\ AtChannels(o) \in {"save", "unlink", "link"}
         /\ AtConditions(o) \in {"save", "unlink", "link", "conditions"}
         /\ AtUpdate(o) \in {"save", "unlink", "link", "conditions", "update"}
BY DEF AtChannels, AtConditions, AtUpdate

\* The resource of a condition is one that the spec or the status names.
LEMMA ResourceOfType ==
  ASSUME NEW e \in Entry, NEW applied \in Policy \cup {Nothing}
  PROVE  ResourceOf(e, applied) \in SomeName
<1> DEFINE seq  == applied.conditions
           same == {i \in DOMAIN seq : NameOf[seq[i].spec] = NameOf[e.spec]}
<1>1. CASE e.name # None \/ same = {}
  BY <1>1 DEF ResourceOf, Entry, SomeName
<1>2. CASE e.name = None /\ same # {}
  <2>1. applied \in Policy
    <3>1. DOMAIN Nothing.conditions = {}
      BY DEF Nothing
    <3>2. QED
      BY <1>2, <3>1
  <2>2. \A i \in DOMAIN seq : i \in Nat /\ seq[i] \in Entry
    BY <2>1, PolicyFields
  <2>3. \E i \in same : \A j \in same : i <= j
    <3>1. same \subseteq Nat /\ same # {}
      BY <1>2, <2>2
    <3>2. \E i \in same : \A j \in same : <<j, i>> \notin OpToRel(<, Nat)
      BY <3>1, NatLessThanWellFounded, WFMin
    <3>3. \A i, j \in Nat : j < i => <<j, i>> \in OpToRel(<, Nat)
      BY DEF OpToRel
    <3> HIDE DEF same
    <3>4. PICK i \in same : \A j \in same : <<j, i>> \notin OpToRel(<, Nat)
      BY <3>2
    <3>5. \A j \in same : i \in Nat /\ j \in Nat /\ ~(j < i)
      BY <3>1, <3>3, <3>4
    <3>6. QED
      BY <3>5
  <2>4. QED
    BY <1>2, <2>2, <2>3 DEF ResourceOf, Entry, SomeName
<1>3. QED
  BY <1>1, <1>2

-----------------------------------------------------------------------------
(* Type correctness.                                                       *)

NewRelicType == policies \in [Ids -> [title : Titles, channels : SUBSET Channels] \cup {None}]

LEMMA InitType == Init => TypeOK
<1> SUFFICES ASSUME Init PROVE TypeOK
  OBVIOUS
<1>1. \A S : Absent \in Versioned(S)
  BY DEF Absent, Versioned
<1>2. /\ cache \in Versioned(Object)
      /\ resources \in [Names -> Versioned(Resource)]
      /\ copies \in [Names -> Versioned(Resource)]
  BY <1>1 DEF Init
<1>3. NewRelicType
  BY DEF Init, NewRelicType
<1>4. QED
  BY <1>2, <1>3 DEF Init, TypeOK, NewRelicType

\* An edit keeps the names of at most the conditions that there were.
LEMMA EditType ==
  ASSUME TypeOK, UserEdit
  PROVE  /\ store' \in Object /\ revision' = revision + 1 /\ UserOp
         /\ \E s : store' = [store EXCEPT !.spec = s]
<1>1. PICK edit \in Edits, keep \in BOOLEAN :
        Put([store EXCEPT !.spec = Named(edit[2],
          [i \in DOMAIN edit[2].conditions |->
             IF keep /\ i \in DOMAIN store.spec.conditions
             THEN store.spec.conditions[i].name ELSE None])])
  BY DEF UserEdit
<1> DEFINE name == [i \in DOMAIN edit[2].conditions |->
             IF keep /\ i \in DOMAIN store.spec.conditions
             THEN store.spec.conditions[i].name ELSE None]
<1>2. edit[2] \in Plain
  BY ConstantsAssumption DEF Valid
<1>3. store \in Object
  BY DEF UserEdit, TypeOK
<1>4. \A i \in DOMAIN store.spec.conditions :
        store.spec.conditions[i].name \in SomeName
  BY <1>3, ObjectFields, PolicyFields DEF Entry, SomeName
<1>5. \A i \in DOMAIN edit[2].conditions : name[i] \in SomeName
  BY <1>4 DEF SomeName
<1>6. Put([store EXCEPT !.spec = Named(edit[2], name)])
  BY <1>1
<1> HIDE DEF name
<1>7. Named(edit[2], name) \in Policy
  BY <1>2, <1>5, NamedType
<1>8. [store EXCEPT !.spec = Named(edit[2], name)] \in Object
  BY <1>3, <1>7, ObjectFields
<1>9. QED
  BY <1>6, <1>8 DEF UserEdit, Put

LEMMA UserType ==
  ASSUME TypeOK, User PROVE TypeOK'
<1>1. ASSUME NEW o \in Object \cup {None}, Put(o), UserOp PROVE TypeOK'
  BY <1>1 DEF TypeOK, Put, UserOp, conditions, newRelic
<1>2. CASE UserCreate
  <2>1. PICK p \in Given, name \in GivenNames :
          Put([spec |-> Named(p, [i \in DOMAIN p.conditions |-> name]),
               deleting |-> FALSE, finalizer |-> FALSE, id |-> None,
               applied |-> Nothing])
    BY <1>2 DEF UserCreate
  <2>2. p \in Plain /\ name \in SomeName
    BY ConstantsAssumption DEF Valid, SomeName
  <2>3. Named(p, [i \in DOMAIN p.conditions |-> name]) \in Policy
    BY <2>2, NamedType
  <2>4. [spec |-> Named(p, [i \in DOMAIN p.conditions |-> name]),
         deleting |-> FALSE, finalizer |-> FALSE, id |-> None,
         applied |-> Nothing] \in Object
    BY <2>3 DEF Object
  <2>5. QED
    BY <1>1, <1>2, <2>1, <2>4 DEF UserCreate
<1>3. CASE UserEdit
  BY <1>1, <1>3, EditType DEF Put
<1>4. CASE UserDelete
  <2>1. store \in Object
    BY <1>4 DEF UserDelete, TypeOK
  <2>2. Deleted(store, store.finalizer) \in Object \cup {None}
    BY <2>1, ObjectFields DEF Deleted
  <2>3. QED
    BY <1>1, <1>4, <2>2 DEF UserDelete
<1>5. QED
  BY <1>2, <1>3, <1>4 DEF User

LEMMA ManagerType ==
  ASSUME TypeOK, PolicySync \/ Resync \/ Crash \/ Others PROVE TypeOK'
<1>1. CASE PolicySync
  BY <1>1 DEF PolicySync, TypeOK, cluster, conditions, newRelic, Versioned
<1>2. CASE Resync
  BY <1>2 DEF Resync, TypeOK, cluster, conditions, newRelic
<1>3. CASE Crash
  BY <1>3 DEF Crash, Fault, TypeOK, cluster, conditions, newRelic, Versioned
<1>4. ASSUME NEW kind, ConditionSync(kind) PROVE TypeOK'
  <2>1. copies' \in [Names -> Versioned(Resource)]
    BY <1>4 DEF ConditionSync, TypeOK
  <2>2. QED
    BY <1>4, <2>1 DEF ConditionSync, TypeOK, cluster, conditions, newRelic
<1>5. ASSUME NEW n \in Names, ConditionReleased(n) PROVE TypeOK'
  <2>1. resources' \in [Names -> Versioned(Resource)]
    BY <1>5 DEF ConditionReleased, PutResource, TypeOK, Versioned
  <2>2. QED
    BY <1>5, <2>1 DEF ConditionReleased, TypeOK, cluster, newRelic
<1>6. QED
  BY <1>1, <1>2, <1>3, <1>4, <1>5 DEF Others

LEMMA BeginType ==
  ASSUME TypeOK, NEW step \in Steps, NEW mode \in {"create", "update", "delete"},
         NEW o \in Object, Begin(step, mode, o)
  PROVE  TypeOK'
<1>1. At(step, mode, o, cache.rev) \in Busy
  BY AtType DEF TypeOK, Versioned
<1>2. QED
  BY <1>1 DEF Begin, TypeOK, cluster, conditions, newRelic

LEMMA ReconcileType ==
  ASSUME TypeOK, Reconcile PROVE TypeOK'
<1>1. CASE ReconcileFails
  BY <1>1 DEF ReconcileFails, Fault, TypeOK, cluster, conditions, newRelic
<1>2. CASE ReconcileNothing
  BY <1>2 DEF ReconcileNothing, TypeOK, cluster, conditions, newRelic
<1>3. ASSUME ~NothingToDo(cache.object) PROVE cache.object \in Object
  BY <1>3 DEF NothingToDo, TypeOK, Versioned
<1>4. CASE ReconcileDeletion
  BY <1>3, <1>4, BeginType DEF ReconcileDeletion, Steps
<1>5. CASE ReconcileSpec
  <2>1. [cache.object EXCEPT !.finalizer = TRUE] \in Object
    BY <1>3, <1>5, ObjectFields DEF ReconcileSpec
  <2>2. AtUpdate([cache.object EXCEPT !.finalizer = TRUE]) \in Steps
    BY NextStep DEF Steps
  <2>3. QED
    BY <1>5, <2>1, <2>2, BeginType DEF ReconcileSpec, Steps
<1>6. QED
  BY <1>1, <1>2, <1>4, <1>5 DEF Reconcile

\* A call of the worker, which leaves the policy resource and its copy alone.
LEMMA CallType ==
  ASSUME TypeOK, worker' \in Busy \cup {Idle},
         NewRelicType', ids' \subseteq Ids, names' \subseteq Names,
         resources' \in [Names -> Versioned(Resource)],
         queued' = queued \/ queued' = TRUE,
         faults' = faults \/ \E kind : Fault(kind),
         UNCHANGED <<cluster, cache, copies, userOps>>
  PROVE  TypeOK'
<1>1. faults' \in Nat
  BY DEF TypeOK, Fault
<1>2. queued' \in BOOLEAN
  BY DEF TypeOK
<1>3. /\ store' = store /\ revision' = revision /\ cache' = cache
      /\ copies' = copies /\ userOps' = userOps
  BY DEF cluster
<1>4. QED
  BY <1>1, <1>2, <1>3 DEF TypeOK, NewRelicType

LEMMA GoType ==
  ASSUME TypeOK, worker.pc # "idle",
         NEW step \in Steps, NEW mode \in {"create", "update", "delete"},
         NEW o \in Object, Go(step, mode, o)
  PROVE  worker' \in Busy
BY WorkerBusy, AtType DEF Go

LEMMA SearchType ==
  ASSUME TypeOK, Search PROVE TypeOK'
<1> DEFINE goOn(o) == IF o.id = None THEN Go("create", "create", o)
                                     ELSE Go(AtUpdate(o), "update", o)
<1>1. worker.pc # "idle" /\ worker.object \in Object
  BY WorkerBusy DEF Search
<1>2. ASSUME NEW o \in Object, goOn(o) PROVE worker' \in Busy
  BY <1>1, <1>2, NextStep, GoType DEF Steps
<1>3. \/ goOn(worker.object)
      \/ \E i \in Ids : goOn(Adopt(worker.object, i))
  BY DEF Search
<1>4. \A i \in Ids : Adopt(worker.object, i) \in Object
  BY <1>1, ObjectFields DEF Adopt
<1>5. worker' \in Busy
  BY <1>1, <1>2, <1>3, <1>4
<1>6. faults' = faults \/ \E kind : Fault(kind)
  BY DEF Search
<1>7. QED
  BY <1>5, <1>6, CallType DEF Search, TypeOK, NewRelicType, conditions, newRelic

LEMMA NewPolicyType ==
  ASSUME TypeOK, NEW title \in Titles, NewPolicy(title)
  PROVE  FreshId \in Ids /\ NewRelicType' /\ ids' \subseteq Ids
<1>1. FreshId \in Ids
  BY DEF NewPolicy, FreshId
<1>2. QED
  BY <1>1 DEF NewPolicy, TypeOK, NewRelicType

LEMMA PolicyCallType ==
  ASSUME TypeOK, CreatePolicy \/ UpdatePolicy PROVE TypeOK'
<1>1. worker.pc # "idle" /\ worker.object \in Object
  BY WorkerBusy DEF CreatePolicy, UpdatePolicy
<1>2. worker.object.spec.title \in Titles
  BY <1>1, ObjectFields, PolicyFields
<1>3. queued' = queued \/ queued' = TRUE
  BY DEF CreatePolicy, UpdatePolicy, Fail
<1>4. faults' = faults \/ \E kind : Fault(kind)
  BY DEF CreatePolicy, UpdatePolicy
<1>5. CASE CreatePolicy
  <2>1. NewRelicType' /\ ids' \subseteq Ids
    BY <1>2, <1>5, NewPolicyType DEF CreatePolicy, TypeOK, newRelic, NewRelicType
  <2>2. worker' \in Busy \cup {Idle}
    <3>1. CASE /\ NewPolicy(worker.object.spec.title)
               /\ Go("conditions", "create", [worker.object EXCEPT !.id = FreshId])
      <4>1. [worker.object EXCEPT !.id = FreshId] \in Object
        BY <1>1, <1>2, <3>1, NewPolicyType, ObjectFields
      <4>2. QED
        BY <1>1, <3>1, <4>1, GoType DEF Steps
    <3>2. CASE Fail
      BY <3>2 DEF Fail
    <3>3. QED
      BY <1>5, <3>1, <3>2 DEF CreatePolicy
  <2>3. QED
    BY <1>3, <1>4, <1>5, <2>1, <2>2, CallType DEF CreatePolicy, TypeOK, conditions
<1>6. CASE UpdatePolicy
  <2>1. NewRelicType'
    <3>1. ASSUME policies[worker.object.id] # None,
                 policies' = [policies EXCEPT ![worker.object.id].title
                                = worker.object.spec.title]
          PROVE  NewRelicType'
      BY <1>2, <3>1 DEF TypeOK, NewRelicType
    <3>2. QED
      BY <1>6, <3>1 DEF UpdatePolicy, TypeOK, NewRelicType
  <2>2. worker' \in Busy \cup {Idle}
    <3>1. AtConditions(worker.object) \in Steps
      BY NextStep DEF Steps
    <3>2. QED
      BY <1>1, <1>6, <3>1, GoType DEF UpdatePolicy, Fail
  <2>3. QED
    BY <1>3, <1>4, <1>6, <2>1, <2>2, CallType DEF UpdatePolicy, TypeOK, conditions
<1>7. QED
  BY <1>5, <1>6

\* Renaming a condition of the local copy keeps all that a user wrote in it.
LEMMA ProcessedType ==
  ASSUME TypeOK, InLoop, NEW name \in SomeName, NEW error \in BOOLEAN,
         Processed(name, error)
  PROVE  /\ worker' \in Busy
         /\ worker'.pc = worker.pc
         /\ worker'.rev = worker.rev
         /\ worker'.object.id = worker.object.id
         /\ worker'.object.deleting = worker.object.deleting
         /\ worker'.object.finalizer = worker.object.finalizer
         /\ WithoutNames(worker'.object.spec) = WithoutNames(worker.object.spec)
<1> DEFINE k == worker.next
           s == worker.object.spec
           q == [s EXCEPT !.conditions[k].name = name]
           o == [worker.object EXCEPT !.spec = q]
           d == worker.done \cup ({name} \ {None})
           f == worker.failed \/ error
<1>1. worker \in Busy /\ worker.object \in Object /\ s \in Policy
  BY WorkerBusy, ObjectFields DEF InLoop
<1>2. worker.done \in SUBSET (Names \cup {Manual}) /\ worker.failed \in BOOLEAN
      /\ worker.next \in Nat
  BY <1>1 DEF Busy
<1>3. q \in Policy /\ WithoutNames(q) = WithoutNames(s)
  BY <1>1, RenamedType DEF InLoop
<1>4. [worker.object EXCEPT !.spec.conditions[k].name = name] = o
  BY <1>1 DEF Object
<1>5. worker' = [worker EXCEPT !.next = k + 1, !.object = o, !.done = d,
                               !.failed = f]
  BY <1>1, <1>4 DEF Processed, Busy
<1> HIDE DEF q
<1>6. o \in Object
  BY <1>1, <1>3, ObjectFields
<1>7. /\ o.spec = q /\ o.deleting = worker.object.deleting
      /\ o.id = worker.object.id /\ o.finalizer = worker.object.finalizer
  BY <1>1, ObjectUpdates
<1>8. d \in SUBSET (Names \cup {Manual}) /\ f \in BOOLEAN /\ k + 1 \in Nat
  BY <1>2 DEF SomeName
<1> HIDE DEF o, d, f
<1>9. worker' \in Busy
  BY <1>1, <1>2, <1>5, <1>6, <1>8 DEF Busy
<1>10. worker'.pc = worker.pc /\ worker'.rev = worker.rev /\ worker'.object = o
  BY <1>1, <1>5 DEF Busy
<1>11. QED
  BY <1>3, <1>7, <1>9, <1>10

LEMMA CurrentType ==
  ASSUME TypeOK, InLoop
  PROVE  /\ worker.pc # "idle"
         /\ worker.object \in Object
         /\ worker.object.spec.key \in Keys
         /\ worker.object.spec.account \in Accounts
         /\ Current \in Entry
         /\ Current.spec \in CondSpecs /\ Current.name \in SomeName
         /\ ResourceOf(Current, worker.object.applied) \in SomeName
<1>1. worker.pc # "idle" /\ worker.object \in Object
  BY WorkerBusy DEF InLoop
<1>2. /\ Current \in Entry
      /\ worker.object.spec.key \in Keys
      /\ worker.object.spec.account \in Accounts
  BY <1>1, ObjectFields, PolicyFields DEF InLoop, Current
<1>3. QED
  BY <1>1, <1>2, ObjectFields, ResourceOfType DEF Entry, SomeName

LEMMA PutResourceType ==
  ASSUME TypeOK, NEW n \in Names, NEW r \in Resource \cup {None}, PutResource(n, r)
  PROVE  /\ resources' \in [Names -> Versioned(Resource)]
         /\ resources'[n].object = r
         /\ \A m \in Names \ {n} : resources'[m] = resources[m]
<1>1. resources[n].rev \in Nat
  BY DEF TypeOK, Versioned
<1>2. resources' = [resources EXCEPT ![n] = [object |-> r, rev |-> resources[n].rev + 1]]
  BY DEF PutResource
<1>3. [object |-> r, rev |-> resources[n].rev + 1] \in Versioned(Resource)
  BY <1>1 DEF Versioned
<1>4. QED
  BY <1>2, <1>3 DEF TypeOK

LEMMA CreateConditionType ==
  ASSUME TypeOK, CreateCondition PROVE TypeOK' /\ worker' \in Busy
<1>1. InLoop
  BY DEF CreateCondition
<1>2. ASSUME NewResource(Current)
      PROVE  /\ resources' \in [Names -> Versioned(Resource)]
             /\ names' \subseteq Names
             /\ FreshName \in Names
  <2>1. FreshName \in Names
    BY <1>2 DEF NewResource, FreshName
  <2>2. [spec |-> Current.spec, key |-> worker.object.spec.key,
         account |-> worker.object.spec.account, deleting |-> FALSE] \in Resource
    BY <1>1, CurrentType DEF Resource
  <2>3. QED
    BY <1>2, <2>1, <2>2, PutResourceType DEF NewResource, TypeOK
<1>3. /\ resources' \in [Names -> Versioned(Resource)]
      /\ names' \subseteq Names
  BY <1>2 DEF CreateCondition, conditions, TypeOK
<1>4. worker' \in Busy
  BY <1>1, <1>2, CurrentType, ProcessedType DEF CreateCondition, SomeName
<1>5. faults' = faults \/ \E kind : Fault(kind)
  BY DEF CreateCondition
<1>6. QED
  BY <1>3, <1>4, <1>5, CallType DEF CreateCondition, TypeOK, newRelic, NewRelicType

\* A resource that is found is a copy of one with a generated name.
LEMMA RetrievedType ==
  ASSUME TypeOK, NEW name, NEW spec, Retrieved(name, spec) # Absent
  PROVE  /\ name \in Names
         /\ Retrieved(name, spec).object \in Resource
BY DEF Retrieved, TypeOK, Versioned

LEMMA UpdateConditionType ==
  ASSUME TypeOK, UpdateCondition
  PROVE  /\ TypeOK' /\ worker' \in Busy
         /\ \E name \in SomeName, error \in BOOLEAN : Processed(name, error)
<1> DEFINE name == ResourceOf(Current, worker.object.applied)
           copy == Retrieved(name, Current.spec)
           new  == [copy.object EXCEPT !.spec = Current.spec,
                                       !.key = worker.object.spec.key,
                                       !.account = worker.object.spec.account]
<1>1. InLoop /\ name \in SomeName
  BY CurrentType DEF UpdateCondition
<1>2. \E error \in BOOLEAN : Processed(name, error)
  BY DEF UpdateCondition
<1>3. worker' \in Busy
  BY <1>1, <1>2, ProcessedType
<1>4. UNCHANGED resources \/ (copy # Absent /\ PutResource(name, new))
  BY DEF UpdateCondition
<1>5. ASSUME copy # Absent PROVE name \in Names /\ new \in Resource
  <2>1. name \in Names /\ copy.object \in Resource
    BY <1>5, RetrievedType
  <2>2. QED
    BY <1>1, <2>1, CurrentType DEF Resource
<1>6. resources' \in [Names -> Versioned(Resource)]
  BY <1>4, <1>5, PutResourceType DEF TypeOK
<1>7. faults' = faults \/ \E kind : Fault(kind)
  BY DEF UpdateCondition
<1>8. TypeOK'
  BY <1>3, <1>6, <1>7, CallType DEF UpdateCondition, TypeOK, newRelic, NewRelicType
<1>9. QED
  BY <1>1, <1>2, <1>3, <1>8

LEMMA EndConditionsType ==
  ASSUME TypeOK, EndConditions PROVE TypeOK'
<1>1. worker \in Busy /\ worker.object \in Object
  BY WorkerBusy DEF EndConditions
<1>2. Stragglers \subseteq Listed(worker.object.applied)
  BY DEF Stragglers, Listed
<1>3. Stragglers \subseteq Entry
  BY <1>1, <1>2, ObjectFields, ListedType
<1>4. worker' \in Busy
  BY <1>1, <1>3 DEF EndConditions, Busy, Steps
<1>5. QED
  BY <1>4, CallType
  DEF EndConditions, TypeOK, conditions, newRelic, NewRelicType

\* Whatever finalizer a resource has, a Delete leaves it absent or being deleted.
LEMMA DeleteResourceType ==
  ASSUME TypeOK, NEW n \in Names, resources[n].object # None, DeleteResource(n)
  PROVE  /\ resources' \in [Names -> Versioned(Resource)]
         /\ ~Live(n)'
         /\ \A m \in Names : ~Live(m) => ~Live(m)'
<1>1. resources[n].object \in Resource
  BY DEF TypeOK, Versioned
<1>2. CASE resources[n].object.deleting
  BY <1>1, <1>2 DEF DeleteResource, Live, TypeOK
<1>3. CASE ~resources[n].object.deleting
  <2>1. PICK finalizer \in BOOLEAN :
          PutResource(n, Deleted(resources[n].object, finalizer))
    BY <1>3 DEF DeleteResource
  <2> DEFINE r == Deleted(resources[n].object, finalizer)
  <2>2. r \in Resource \cup {None} /\ (r # None => r.deleting)
    BY <1>1 DEF Deleted, Resource
  <2> HIDE DEF r
  <2>3. /\ resources' \in [Names -> Versioned(Resource)]
        /\ resources'[n].object = r
        /\ \A m \in Names \ {n} : resources'[m] = resources[m]
    BY <2>1, <2>2, PutResourceType DEF r
  <2>4. QED
    BY <2>2, <2>3 DEF Live
<1>4. QED
  BY <1>2, <1>3

LEMMA DeleteConditionType ==
  ASSUME TypeOK, DeleteCondition
  PROVE  /\ TypeOK' /\ worker' \in Busy
<1>1. worker \in Busy
  BY WorkerBusy DEF DeleteCondition
<1>2. PICK e \in worker.left :
        /\ \E error \in BOOLEAN :
             worker' = [worker EXCEPT !.left = @ \ {e},
                                      !.failed = @ \/ Collected(error)]
        /\ \/ UNCHANGED resources
           \/ /\ Retrieved(e.name, e.spec) # Absent
              /\ resources[e.name].object # None
              /\ DeleteResource(e.name)
  BY DEF DeleteCondition
<1>3. worker' \in Busy
  BY <1>1, <1>2 DEF Busy, Collected
<1>4. resources' \in [Names -> Versioned(Resource)]
  BY <1>2, RetrievedType, DeleteResourceType DEF TypeOK
<1>5. faults' = faults \/ \E kind : Fault(kind)
  BY DEF DeleteCondition
<1>6. QED
  BY <1>3, <1>4, <1>5, CallType DEF DeleteCondition, TypeOK, newRelic, NewRelicType

LEMMA EndDeletesType ==
  ASSUME TypeOK, EndDeletes PROVE TypeOK'
<1>1. /\ worker.pc # "idle" /\ worker.object \in Object
      /\ worker.mode \in {"create", "update", "delete"}
  BY WorkerBusy DEF EndDeletes
<1>2. AtChannels(worker.object) \in Steps
  BY NextStep DEF Steps
<1>3. \/ Fail
      \/ \E step \in Steps : Go(step, worker.mode, worker.object) /\ UNCHANGED queued
  BY <1>2 DEF EndDeletes, Steps
<1>4. worker' \in Busy \cup {Idle} /\ (queued' = queued \/ queued' = TRUE)
  BY <1>1, <1>3, GoType DEF Fail
<1>5. QED
  BY <1>4, CallType DEF EndDeletes, TypeOK, conditions, newRelic, NewRelicType

LEMMA RelinkType ==
  ASSUME TypeOK, NEW channels, NEW then,
         policies[worker.object.id] # None => channels \subseteq Channels
                                              \/ worker.object.id \notin Ids,
         Relink(channels, then)
  PROVE  NewRelicType'
<1> DEFINE i == worker.object.id
<1>1. CASE policies[i] # None /\ policies' = [policies EXCEPT ![i].channels = channels]
  BY <1>1 DEF TypeOK, NewRelicType
<1>2. CASE UNCHANGED policies
  BY <1>2 DEF TypeOK, NewRelicType
<1>3. QED
  BY <1>1, <1>2 DEF Relink

LEMMA ChannelsType ==
  ASSUME TypeOK, UnlinkChannel \/ LinkChannels PROVE TypeOK'
<1> DEFINE i == worker.object.id
<1>1. /\ worker \in Busy /\ worker.pc # "idle" /\ worker.object \in Object
      /\ worker.mode \in {"create", "update", "delete"} /\ worker.rev \in Nat
  BY WorkerBusy DEF UnlinkChannel, LinkChannels
<1>2. ASSUME i \in Ids, policies[i] # None
      PROVE  policies[i].channels \subseteq Channels
  BY <1>2 DEF TypeOK
<1>3. ToAdd(worker.object) \subseteq Channels
  BY <1>1, ObjectFields, PolicyFields DEF ToAdd
<1>4. /\ faults' = faults \/ \E kind : Fault(kind)
      /\ queued' = queued \/ queued' = TRUE
  BY DEF UnlinkChannel, LinkChannels, Relink, Fail
<1>5. CASE UnlinkChannel
  <2>1. PICK c \in worker.left :
          Relink(policies[i].channels \ {c},
                 worker' = IF worker.left = {c}
                           THEN At("link", worker.mode, worker.object, worker.rev)
                           ELSE [worker EXCEPT !.left = @ \ {c}])
    BY <1>5 DEF UnlinkChannel
  <2>2. NewRelicType'
    BY <1>2, <2>1, RelinkType
  <2>3. At("link", worker.mode, worker.object, worker.rev) \in Busy
    BY <1>1, AtType DEF Steps
  <2>4. [worker EXCEPT !.left = @ \ {c}] \in Busy
    BY <1>1 DEF Busy
  <2>5. worker' \in Busy \cup {Idle}
    BY <2>1, <2>3, <2>4 DEF Relink, Fail
  <2>6. QED
    BY <1>4, <1>5, <2>2, <2>5, CallType DEF UnlinkChannel, TypeOK, conditions
<1>6. CASE LinkChannels
  <2>1. NewRelicType'
    BY <1>2, <1>3, <1>6, RelinkType DEF LinkChannels
  <2>2. worker' \in Busy \cup {Idle}
    BY <1>1, <1>6, GoType DEF LinkChannels, Relink, Fail, Steps
  <2>3. QED
    BY <1>4, <1>6, <2>1, <2>2, CallType DEF LinkChannels, TypeOK, conditions
<1>7. QED
  BY <1>5, <1>6

LEMMA DeletePolicyType ==
  ASSUME TypeOK, DeletePolicy PROVE TypeOK'
<1>1. worker.pc # "idle" /\ worker.object \in Object
  BY WorkerBusy DEF DeletePolicy
<1>2. NewRelicType'
  BY DEF DeletePolicy, TypeOK, NewRelicType
<1>3. worker' \in Busy \cup {Idle}
  BY <1>1, GoType DEF DeletePolicy, Fail, Steps
<1>4. /\ faults' = faults \/ \E kind : Fault(kind)
      /\ queued' = queued \/ queued' = TRUE
  BY DEF DeletePolicy, Fail
<1>5. QED
  BY <1>2, <1>3, <1>4, CallType DEF DeletePolicy, TypeOK, conditions

LEMMA WriteType ==
  ASSUME TypeOK, Save \/ Release PROVE TypeOK'
<1>1. worker.object \in Object
  BY WorkerBusy DEF Save, Release
<1>2. [worker.object EXCEPT !.applied = worker.object.spec] \in Object
  BY <1>1, ObjectFields
<1>3. store' \in Object \cup {None} /\ revision' \in Nat
  BY <1>2 DEF Save, Release, Put, TypeOK, cluster
<1>4. faults' \in Nat
  BY DEF Save, Release, Fault, TypeOK
<1>5. worker' = Idle /\ queued' \in BOOLEAN
  BY DEF Save, Release, Return, Fail, TypeOK
<1>6. UNCHANGED <<cache, conditions, copies, newRelic, userOps>>
  BY DEF Save, Release
<1>7. QED
  BY <1>3, <1>4, <1>5, <1>6 DEF TypeOK, conditions, newRelic

LEMMA StepType ==
  ASSUME TypeOK, [Next]_vars PROVE TypeOK'
<1>1. CASE UNCHANGED vars
  BY <1>1 DEF TypeOK, vars
<1>2. QED
  BY <1>1, UserType, ManagerType, ReconcileType, SearchType, PolicyCallType,
     CreateConditionType, UpdateConditionType, EndConditionsType,
     DeleteConditionType, EndDeletesType, ChannelsType, DeletePolicyType,
     WriteType DEF Next, Call

\* Every variable of the policy reconciler stays in its type: in particular every
\* resource name that the loops write back into the spec is one that the API
\* server or a user gave, though it may come from the AppliedSpec.
THEOREM TypeCorrect == Spec => []TypeOK
BY InitType, StepType, PTL DEF Spec

-----------------------------------------------------------------------------
(* The inductive invariant.                                                *)

LEMMA InitLeak == Init => LeakInv
BY DEF Init, LeakInv, CacheCoherent, WorkerCoherent, WorkerPhases,
       DeletionSoFar, FinalizerKept, Absent, Idle, Deletion

\* What a deletion got rid of stays so while nothing comes back to life.
LEMMA StillGone ==
  ASSUME DeletionSoFar, worker' = worker, UNCHANGED policies,
         \A n \in Names : ~Live(n) => ~Live(n)'
  PROVE  DeletionSoFar'
<1>1. \A e : OnItsWayOut(e) => OnItsWayOut(e)'
  BY DEF OnItsWayOut
<1>2. QED
  BY <1>1 DEF DeletionSoFar

\* Edits and deletions give the resource a new revision, and keep its id.
LEMMA UserLeak ==
  ASSUME TypeOK, LeakInv, User PROVE LeakInv'
<1>1. /\ revision' = revision + 1
      /\ UNCHANGED <<cache, worker, resources, policies>>
  BY DEF User, UserCreate, UserEdit, UserDelete, UserOp, Put, conditions, newRelic
<1>2. revision \in Nat /\ cache.rev \in Nat
  BY DEF TypeOK, Versioned
<1>3. CacheCoherent'
  BY <1>1, <1>2 DEF LeakInv, CacheCoherent
<1>4. WorkerCoherent'
  <2>1. ASSUME worker.pc # "idle" PROVE worker.rev \in Nat
    BY <2>1, WorkerBusy
  <2>2. QED
    BY <1>1, <1>2, <2>1 DEF LeakInv, WorkerCoherent
<1>5. WorkerPhases' /\ DeletionSoFar'
  BY <1>1, StillGone DEF LeakInv, WorkerPhases, Live
<1>6. FinalizerKept'
  <2>1. CASE UserCreate
    BY <2>1 DEF UserCreate, Put, FinalizerKept
  <2>2. CASE UserEdit
    <3>1. PICK s : store' = [store EXCEPT !.spec = s]
      BY <2>2 DEF UserEdit, Put
    <3>2. store \in Object /\ store # None
      BY <2>2 DEF UserEdit, TypeOK
    <3>3. [store EXCEPT !.spec = s].id = store.id
          /\ [store EXCEPT !.spec = s].finalizer = store.finalizer
      BY <3>2, ObjectUpdates
    <3>4. QED
      BY <3>1, <3>2, <3>3 DEF LeakInv, FinalizerKept
  <2>3. CASE UserDelete
    <3>1. store' = None \/ store' = [store EXCEPT !.deleting = TRUE]
      BY <2>3 DEF UserDelete, Put, Deleted
    <3>2. store \in Object /\ store # None
      BY <2>3 DEF UserDelete, TypeOK
    <3>3. [store EXCEPT !.deleting = TRUE].id = store.id
          /\ [store EXCEPT !.deleting = TRUE].finalizer = store.finalizer
      BY <3>2, ObjectUpdates
    <3>4. QED
      BY <3>1, <3>2, <3>3 DEF LeakInv, FinalizerKept
  <2>4. QED
    BY <2>1, <2>2, <2>3 DEF User
<1>7. QED
  BY <1>3, <1>4, <1>5, <1>6 DEF LeakInv

LEMMA ManagerLeak ==
  ASSUME TypeOK, LeakInv, PolicySync \/ Resync \/ Crash \/ Others
  PROVE  LeakInv'
<1>1. UNCHANGED <<store, revision, policies>> /\ revision \in Nat
  BY DEF PolicySync, Resync, Crash, Others, ConditionSync, ConditionReleased,
         cluster, newRelic, TypeOK
<1>2. CacheCoherent'
  BY <1>1 DEF PolicySync, Resync, Crash, Others, ConditionSync, ConditionReleased,
              LeakInv, CacheCoherent
<1>3. FinalizerKept'
  BY <1>1 DEF LeakInv, FinalizerKept
<1>4. CASE worker' = Idle
  BY <1>2, <1>3, <1>4
  DEF LeakInv, WorkerCoherent, WorkerPhases, DeletionSoFar, Idle, Deletion
<1>5. CASE worker' = worker /\ \A n \in Names : ~Live(n) => ~Live(n)'
  BY <1>1, <1>2, <1>3, <1>5, StillGone
  DEF LeakInv, WorkerCoherent, WorkerPhases
<1>6. ASSUME UNCHANGED resources
      PROVE  \A n \in Names : ~Live(n) => ~Live(n)'
  BY <1>6 DEF Live
<1>7. ASSUME NEW n \in Names, ConditionReleased(n)
      PROVE  \A m \in Names : ~Live(m) => ~Live(m)'
  <2>1. /\ resources'[n].object = None
        /\ \A m \in Names \ {n} : resources'[m] = resources[m]
    BY <1>7, PutResourceType DEF ConditionReleased
  <2>2. QED
    BY <2>1 DEF Live
<1>8. QED
  BY <1>4, <1>5, <1>6, <1>7
  DEF PolicySync, Resync, Crash, Others, ConditionSync, ConditionReleased, conditions

\* A reconcile begins from a copy that is the resource, or one too old to save.
LEMMA ReconcileLeak ==
  ASSUME TypeOK, LeakInv, Reconcile PROVE LeakInv'
<1>1. UNCHANGED <<store, revision, cache, resources, policies>>
  BY DEF Reconcile, ReconcileFails, ReconcileNothing, ReconcileDeletion,
         ReconcileSpec, Begin, cluster, conditions, newRelic
<1>2. CacheCoherent' /\ FinalizerKept'
  BY <1>1 DEF LeakInv, CacheCoherent, FinalizerKept
<1>3. CASE worker' = worker
  BY <1>1, <1>2, <1>3, StillGone DEF LeakInv, WorkerCoherent, WorkerPhases, Live
<1>4. ASSUME ReconcileDeletion \/ ReconcileSpec
      PROVE  cache.object \in Object /\ cache.object # None /\ cache.rev \in Nat
  BY <1>4 DEF ReconcileDeletion, ReconcileSpec, NothingToDo, TypeOK, Versioned
<1>5. CASE ReconcileDeletion
  <2>1. /\ worker' = At("deleteConditions", "delete", cache.object, cache.rev)
        /\ cache.object.deleting /\ cache.object.id # None
    BY <1>5 DEF ReconcileDeletion, Begin, NothingToDo
  <2>2. /\ worker'.pc = "deleteConditions"
        /\ worker'.object = cache.object
        /\ worker'.rev = cache.rev
        /\ worker'.left = Listed(cache.object.applied)
    BY <2>1 DEF At
  <2>3. WorkerCoherent'
    BY <1>1, <1>4, <1>5, <2>2 DEF LeakInv, CacheCoherent, WorkerCoherent
  <2>4. WorkerPhases' /\ DeletionSoFar'
    BY <2>1, <2>2 DEF WorkerPhases, DeletionSoFar, Deletion
  <2>5. QED
    BY <1>2, <2>3, <2>4 DEF LeakInv
<1>6. CASE ReconcileSpec
  <2> DEFINE o == [cache.object EXCEPT !.finalizer = TRUE]
  <2>1. /\ ~cache.object.deleting
        /\ \/ Begin("search", "create", o)
           \/ Begin(AtUpdate(o), "update", o)
    BY <1>6 DEF ReconcileSpec
  <2>2. /\ worker'.pc \in {"search", "save", "unlink", "link", "conditions", "update"}
        /\ worker'.object = o
        /\ worker'.rev = cache.rev
    <3> HIDE DEF o
    <3>1. PICK step \in {"search", "save", "unlink", "link", "conditions", "update"} :
            \E mode : Begin(step, mode, o)
      BY <2>1, NextStep
    <3>2. QED
      BY <3>1 DEF Begin, At
  <2>3. /\ o.spec = cache.object.spec /\ o.deleting = cache.object.deleting
        /\ o.finalizer
    BY <1>4, <1>6, ObjectUpdates
  <2> HIDE DEF o
  <2>4. WorkerCoherent'
    BY <1>1, <1>4, <1>6, <2>2, <2>3
    DEF LeakInv, CacheCoherent, WorkerCoherent, Deletion
  <2>5. WorkerPhases' /\ DeletionSoFar'
    BY <2>1, <2>2, <2>3 DEF WorkerPhases, DeletionSoFar, Deletion
  <2>6. QED
    BY <1>2, <2>4, <2>5 DEF LeakInv
<1>7. QED
  BY <1>3, <1>5, <1>6 DEF Reconcile, ReconcileFails, ReconcileNothing

\* A step of a reconcile that deletes nothing keeps what the users wrote in the
\* local copy, whatever it does to the conditions and to New Relic.
Making == Steps \ Deletion

LEMMA MakingLeak ==
  ASSUME LeakInv, worker.pc \in Making, UNCHANGED <<cluster, cache>>,
         \/ worker' = Idle
         \/ /\ worker'.pc \in Making
            /\ worker'.rev = worker.rev
            /\ WithoutNames(worker'.object.spec) = WithoutNames(worker.object.spec)
            /\ worker'.object.deleting = worker.object.deleting
            /\ worker'.object.finalizer = worker.object.finalizer
  PROVE  LeakInv'
<1>1. worker.pc \notin Deletion \cup {"idle"}
  BY DEF Making, Steps
<1>2. store' = store /\ revision' = revision /\ cache' = cache
  BY DEF cluster
<1>3. CacheCoherent' /\ FinalizerKept'
  BY <1>2 DEF LeakInv, CacheCoherent, FinalizerKept
<1>4. CASE worker' = Idle
  BY <1>3, <1>4
  DEF LeakInv, WorkerCoherent, WorkerPhases, DeletionSoFar, Idle, Deletion
<1>5. CASE worker' # Idle
  <2>1. worker'.pc \notin Deletion /\ worker'.pc # "idle"
    BY <1>5 DEF Making, Steps
  <2>2. WorkerCoherent'
    BY <1>1, <1>2, <1>5, <2>1 DEF LeakInv, WorkerCoherent
  <2>3. WorkerPhases'
    BY <1>1, <1>5, <2>1 DEF LeakInv, WorkerPhases
  <2>4. DeletionSoFar'
    BY <2>1 DEF DeletionSoFar, Deletion
  <2>5. QED
    BY <1>3, <2>2, <2>3, <2>4 DEF LeakInv
<1>6. QED
  BY <1>4, <1>5

\* Calls after which the local copy is the same, but for the id.
LEMMA MakingGo ==
  ASSUME TypeOK, LeakInv, worker.pc \in Making, UNCHANGED <<cluster, cache>>,
         \/ worker' = Idle
         \/ /\ worker'.pc \in Making
            /\ worker'.rev = worker.rev
            /\ \/ worker'.object = worker.object
               \/ \E i \in Ids : worker'.object = [worker.object EXCEPT !.id = i]
  PROVE  LeakInv'
<1>1. worker.object \in Object
  BY WorkerBusy DEF Making, Steps
<1>2. \A i \in Ids : LET o == [worker.object EXCEPT !.id = i] IN
        /\ o.spec = worker.object.spec /\ o.deleting = worker.object.deleting
        /\ o.finalizer = worker.object.finalizer
  BY <1>1, ObjectUpdates
<1>3. \/ worker' = Idle
      \/ /\ WithoutNames(worker'.object.spec) = WithoutNames(worker.object.spec)
         /\ worker'.object.deleting = worker.object.deleting
         /\ worker'.object.finalizer = worker.object.finalizer
  BY <1>2
<1>4. QED
  BY <1>3, MakingLeak

LEMMA MakingCalls ==
  ASSUME TypeOK, LeakInv,
         \/ Search \/ CreatePolicy \/ UpdatePolicy \/ EndConditions
         \/ UnlinkChannel \/ LinkChannels
  PROVE  LeakInv'
<1>1. /\ worker.pc \in Making
      /\ UNCHANGED <<cluster, cache>>
      /\ worker \in Busy
  BY WorkerBusy
  DEF Making, Steps, Deletion, Search, CreatePolicy, UpdatePolicy, EndConditions,
      UnlinkChannel, LinkChannels
<1>2. ASSUME NEW step, NEW mode, NEW o, Go(step, mode, o)
      PROVE  worker'.pc = step /\ worker'.rev = worker.rev /\ worker'.object = o
  BY <1>2 DEF Go, At
<1>3. \A o : /\ AtConditions(o) \in Making
             /\ AtUpdate(o) \in Making
  BY NextStep DEF Making, Steps, Deletion
<1>4. {"create", "conditions", "stragglers", "link", "save"} \subseteq Making
  BY DEF Making, Steps, Deletion
<1>5. CASE Search
  <2> DEFINE goOn(o) == IF o.id = None THEN Go("create", "create", o)
                                       ELSE Go(AtUpdate(o), "update", o)
  <2>1. \/ goOn(worker.object)
        \/ \E i \in Ids : goOn([worker.object EXCEPT !.id = i])
    BY <1>5 DEF Search, Adopt
  <2>2. ASSUME NEW o, goOn(o)
        PROVE  worker'.pc \in Making /\ worker'.rev = worker.rev /\ worker'.object = o
    BY <1>2, <1>3, <1>4, <2>2
  <2>3. QED
    BY <1>1, <2>1, <2>2, MakingGo
<1>6. CASE CreatePolicy
  <2>1. NewPolicy(worker.object.spec.title) => FreshId \in Ids
    BY DEF NewPolicy, FreshId
  <2>2. QED
    BY <1>1, <1>2, <1>4, <1>6, <2>1, MakingGo DEF CreatePolicy, Fail
<1>7. CASE UpdatePolicy
  BY <1>1, <1>2, <1>3, <1>7, MakingGo DEF UpdatePolicy, Fail
<1>8. CASE EndConditions
  <2>1. /\ worker'.pc = "stragglers" /\ worker'.rev = worker.rev
        /\ worker'.object = worker.object
    BY <1>1, <1>8 DEF EndConditions, Busy
  <2>2. QED
    BY <1>1, <1>4, <2>1, MakingGo
<1>9. CASE UnlinkChannel
  <2>1. PICK c : \/ worker' = Idle
                 \/ worker' = At("link", worker.mode, worker.object, worker.rev)
                 \/ worker' = [worker EXCEPT !.left = @ \ {c}]
    BY <1>9 DEF UnlinkChannel, Relink, Fail
  <2>2. LET w == At("link", worker.mode, worker.object, worker.rev) IN
        w.pc = "link" /\ w.rev = worker.rev /\ w.object = worker.object
    BY DEF At
  <2>3. LET w == [worker EXCEPT !.left = @ \ {c}] IN
        w.pc = worker.pc /\ w.rev = worker.rev /\ w.object = worker.object
    BY <1>1 DEF Busy
  <2>4. QED
    BY <1>1, <1>4, <2>1, <2>2, <2>3, MakingGo
<1>10. CASE LinkChannels
  BY <1>1, <1>2, <1>4, <1>10, MakingGo DEF LinkChannels, Relink, Fail
<1>11. QED
  BY <1>5, <1>6, <1>7, <1>8, <1>9, <1>10

LEMMA ConditionCalls ==
  ASSUME TypeOK, LeakInv, CreateCondition \/ UpdateCondition PROVE LeakInv'
<1>1. /\ InLoop
      /\ worker.pc \in Making
      /\ UNCHANGED <<cluster, cache>>
  BY DEF CreateCondition, UpdateCondition, InLoop, Making, Steps, Deletion
<1>2. \E name \in SomeName, error \in BOOLEAN : Processed(name, error)
  <2>1. CASE CreateCondition
    <3>1. NewResource(Current) => FreshName \in Names
      BY DEF NewResource, FreshName
    <3>2. QED
      BY <1>1, <2>1, <3>1, CurrentType DEF CreateCondition, SomeName
  <2>2. QED
    BY <2>1, UpdateConditionType
<1>3. QED
  BY <1>1, <1>2, ProcessedType, MakingLeak

\* A loop that deletes: each step takes one entry off its list, and either the
\* entry's resource is not there to stay or the loop has failed.
LEMMA DeletingStep ==
  ASSUME TypeOK, DeleteCondition
  PROVE  /\ worker'.pc = worker.pc
         /\ worker'.rev = worker.rev
         /\ worker'.object = worker.object
         /\ worker.failed => worker'.failed
         /\ \E e \in worker.left : /\ worker'.left = worker.left \ {e}
                                   /\ worker'.failed \/ OnItsWayOut(e)'
         /\ \A n \in Names : ~Live(n) => ~Live(n)'
<1>1. worker \in Busy
  BY WorkerBusy DEF DeleteCondition
<1>2. PICK e \in worker.left, error \in BOOLEAN :
        /\ worker' = [worker EXCEPT !.left = @ \ {e}, !.failed = @ \/ error]
        /\ \/ error /\ UNCHANGED resources
           \/ /\ Retrieved(e.name, e.spec) # Absent
              /\ resources[e.name].object # None
              /\ DeleteResource(e.name)
  BY DEF DeleteCondition, Collected
<1>3. /\ worker'.pc = worker.pc /\ worker'.rev = worker.rev
      /\ worker'.object = worker.object /\ worker'.left = worker.left \ {e}
      /\ worker'.failed = (worker.failed \/ error)
  BY <1>1, <1>2 DEF Busy
<1>4. CASE error /\ UNCHANGED resources
  BY <1>3, <1>4 DEF Live
<1>5. CASE /\ Retrieved(e.name, e.spec) # Absent
           /\ resources[e.name].object # None
           /\ DeleteResource(e.name)
  <2>1. e.name \in Names /\ ~Live(e.name)' /\ \A n \in Names : ~Live(n) => ~Live(n)'
    BY <1>5, RetrievedType, DeleteResourceType
  <2>2. OnItsWayOut(e)'
    BY <2>1 DEF OnItsWayOut
  <2>3. QED
    BY <1>3, <2>1, <2>2
<1>6. QED
  BY <1>2, <1>4, <1>5

LEMMA DeleteConditionLeak ==
  ASSUME TypeOK, LeakInv, DeleteCondition PROVE LeakInv'
<1>1. UNCHANGED <<cluster, cache, policies>>
  BY DEF DeleteCondition, newRelic
<1>2. CASE worker.pc = "stragglers"
  BY <1>1, <1>2, DeletingStep, MakingGo DEF Making, Steps, Deletion
<1>3. CASE worker.pc = "deleteConditions"
  <2>1. store' = store /\ revision' = revision /\ cache' = cache
    BY <1>1 DEF cluster
  <2>2. CacheCoherent' /\ FinalizerKept'
    BY <2>1 DEF LeakInv, CacheCoherent, FinalizerKept
  <2>3. WorkerCoherent' /\ WorkerPhases'
    BY <1>3, <2>1, DeletingStep DEF LeakInv, WorkerCoherent, WorkerPhases
  <2>4. PICK e \in worker.left : /\ worker'.left = worker.left \ {e}
                                 /\ worker'.failed \/ OnItsWayOut(e)'
    BY DeletingStep
  <2>5. \A f : OnItsWayOut(f) => OnItsWayOut(f)'
    BY DeletingStep DEF OnItsWayOut
  <2>6. DeletionSoFar'
    <3>1. /\ worker'.pc = "deleteConditions"
          /\ worker'.object = worker.object
      BY <1>3, DeletingStep
    <3>2. ASSUME ~worker'.failed, NEW f \in Listed(worker.object.applied) \ worker'.left
          PROVE  OnItsWayOut(f)'
      <4>1. ~worker.failed /\ OnItsWayOut(e)'
        BY <2>4, <3>2, DeletingStep
      <4>2. CASE f = e
        BY <4>1, <4>2
      <4>3. CASE f \notin worker.left
        BY <1>3, <2>5, <3>2, <4>1, <4>3 DEF LeakInv, DeletionSoFar
      <4>4. QED
        BY <2>4, <3>2, <4>2, <4>3
    <3>3. QED
      BY <3>1, <3>2 DEF DeletionSoFar
  <2>7. QED
    BY <2>2, <2>3, <2>6 DEF LeakInv
<1>4. QED
  BY <1>2, <1>3 DEF DeleteCondition

\* The policy is only deleted after a loop without an error.
LEMMA EndDeletesLeak ==
  ASSUME TypeOK, LeakInv, EndDeletes PROVE LeakInv'
<1>1. UNCHANGED <<cluster, cache, resources, policies>>
  BY DEF EndDeletes, newRelic, conditions
<1>2. store' = store /\ revision' = revision /\ cache' = cache
  BY <1>1 DEF cluster
<1>3. CacheCoherent' /\ FinalizerKept'
  BY <1>2 DEF LeakInv, CacheCoherent, FinalizerKept
<1>4. CASE worker' = Idle
  BY <1>3, <1>4
  DEF LeakInv, WorkerCoherent, WorkerPhases, DeletionSoFar, Idle, Deletion
<1>5. CASE worker.pc = "stragglers"
  <2>1. AtChannels(worker.object) \in Making
    BY NextStep DEF Making, Steps, Deletion
  <2>2. worker' # Idle => Go(AtChannels(worker.object), worker.mode, worker.object)
    BY <1>5 DEF EndDeletes, Fail
  <2>3. QED
    BY <1>1, <1>5, <2>1, <2>2, MakingGo DEF Go, At, Making, Steps, Deletion
<1>6. CASE worker.pc = "deleteConditions" /\ worker' # Idle
  <2>1. /\ Go("deletePolicy", worker.mode, worker.object)
        /\ worker.left = {} /\ ~worker.failed
    BY <1>6 DEF EndDeletes, Fail
  <2>2. /\ worker'.pc = "deletePolicy" /\ worker'.rev = worker.rev
        /\ worker'.object = worker.object
    BY <2>1 DEF Go, At
  <2>3. WorkerCoherent' /\ WorkerPhases'
    BY <1>2, <1>6, <2>2 DEF LeakInv, WorkerCoherent, WorkerPhases, Deletion
  <2>4. \A e : OnItsWayOut(e) => OnItsWayOut(e)'
    BY <1>1 DEF OnItsWayOut, Live
  <2>5. DeletionSoFar'
    BY <1>6, <2>1, <2>2, <2>4 DEF LeakInv, DeletionSoFar
  <2>6. QED
    BY <1>3, <2>3, <2>5 DEF LeakInv
<1>7. QED
  BY <1>4, <1>5, <1>6 DEF EndDeletes

\* The finalizer only goes once New Relic has deleted the policy.
LEMMA DeletePolicyLeak ==
  ASSUME TypeOK, LeakInv, DeletePolicy PROVE LeakInv'
<1> DEFINE i == worker.object.id
<1>1. /\ worker.pc = "deletePolicy"
      /\ UNCHANGED <<store, revision, cache, resources>>
  BY DEF DeletePolicy, cluster, conditions
<1>2. CacheCoherent' /\ FinalizerKept'
  BY <1>1 DEF LeakInv, CacheCoherent, FinalizerKept
<1>3. CASE worker' = Idle
  BY <1>2, <1>3
  DEF LeakInv, WorkerCoherent, WorkerPhases, DeletionSoFar, Idle, Deletion
<1>4. CASE worker' # Idle
  <2>1. /\ policies[i] # None
        /\ policies' = [policies EXCEPT ![i] = None]
        /\ Go("release", "delete", worker.object)
    BY <1>4 DEF DeletePolicy, Fail
  <2>2. /\ worker'.pc = "release" /\ worker'.rev = worker.rev
        /\ worker'.object = worker.object
    BY <2>1 DEF Go, At
  <2>3. WorkerCoherent' /\ WorkerPhases'
    BY <1>1, <2>2 DEF LeakInv, WorkerCoherent, WorkerPhases, Deletion
  <2>4. \A e : OnItsWayOut(e) => OnItsWayOut(e)'
    BY <1>1 DEF OnItsWayOut, Live
  <2>5. policies'[i] = None
    <3>1. i \in Ids
      BY <1>1, WorkerBusy, ObjectFields DEF LeakInv, WorkerPhases, Deletion
    <3>2. QED
      BY <2>1, <3>1 DEF TypeOK
  <2>6. DeletionSoFar'
    BY <1>1, <2>2, <2>4, <2>5 DEF LeakInv, DeletionSoFar
  <2>7. QED
    BY <1>2, <2>3, <2>6 DEF LeakInv
<1>5. QED
  BY <1>3, <1>4

LEMMA WriteLeak ==
  ASSUME TypeOK, LeakInv, Save \/ Release PROVE LeakInv'
<1>1. worker' = Idle /\ UNCHANGED cache
  BY DEF Save, Release, Return, Fail
<1>2. WorkerCoherent' /\ WorkerPhases' /\ DeletionSoFar'
  BY <1>1 DEF WorkerCoherent, WorkerPhases, DeletionSoFar, Idle, Deletion
<1>3. CASE UNCHANGED cluster
  BY <1>1, <1>2, <1>3 DEF LeakInv, CacheCoherent, FinalizerKept, cluster
<1>4. ASSUME revision' = revision + 1 PROVE CacheCoherent'
  BY <1>1, <1>4 DEF LeakInv, CacheCoherent, TypeOK, Versioned
<1>5. CASE Save /\ Put([worker.object EXCEPT !.applied = worker.object.spec])
  <2>1. worker.object \in Object /\ worker.object.finalizer
    BY <1>5, WorkerBusy DEF Save, LeakInv, WorkerPhases, Deletion
  <2>2. [worker.object EXCEPT !.applied = worker.object.spec].finalizer
    BY <2>1, ObjectUpdates
  <2>3. FinalizerKept'
    BY <1>5, <2>2 DEF Put, FinalizerKept
  <2>4. QED
    BY <1>2, <1>4, <1>5, <2>3 DEF Put, LeakInv
<1>6. CASE Release /\ Put(None)
  BY <1>2, <1>4, <1>6 DEF Put, LeakInv, FinalizerKept
<1>7. QED
  BY <1>3, <1>5, <1>6 DEF Save, Release

LEMMA StepLeak ==
  ASSUME TypeOK, LeakInv, [Next]_vars PROVE LeakInv'
<1>1. CASE UNCHANGED vars
  <2>1. CacheCoherent' /\ WorkerCoherent' /\ WorkerPhases' /\ FinalizerKept'
    BY <1>1 DEF vars, LeakInv, CacheCoherent, WorkerCoherent, WorkerPhases,
                FinalizerKept
  <2>2. DeletionSoFar'
    BY <1>1, StillGone DEF vars, LeakInv, Live
  <2>3. QED
    BY <2>1, <2>2 DEF LeakInv
<1>2. QED
  BY <1>1, UserLeak, ManagerLeak, ReconcileLeak, MakingCalls, ConditionCalls,
     DeleteConditionLeak, EndDeletesLeak, DeletePolicyLeak, WriteLeak
  DEF Next, Call

\* The policy resource, its cached copy, the worker's copy, New Relic and the
\* condition resources stay related as LeakInv says, in every interleaving of
\* users, informers, worker, condition controllers, faults and crashes.
THEOREM LeakInvariant == Spec => []LeakInv
BY InitLeak, StepLeak, TypeCorrect, PTL DEF Spec

-----------------------------------------------------------------------------
(* What follows from it.                                                   *)

\* Who writes the resource.
LEMMA Writers ==
  ASSUME [Next]_vars
  PROVE  \/ UNCHANGED store
         \/ User
         \/ /\ Save /\ ~Conflict
            /\ store' = [worker.object EXCEPT !.applied = worker.object.spec]
         \/ /\ Release /\ ~Conflict /\ store' = None
<1>1. CASE UNCHANGED vars \/ PolicySync \/ Resync \/ Crash \/ Others \/ Reconcile
  BY <1>1 DEF vars, PolicySync, Resync, Crash, Others, ConditionSync,
              ConditionReleased, Reconcile, ReconcileFails, ReconcileNothing,
              ReconcileDeletion, ReconcileSpec, Begin, cluster
<1>2. CASE Save \/ Release
  BY <1>2 DEF Save, Release, Put, cluster
<1>3. CASE Call /\ ~Save /\ ~Release
  BY <1>3 DEF Call, Search, CreatePolicy, UpdatePolicy, CreateCondition,
              UpdateCondition, EndConditions, DeleteCondition, EndDeletes,
              UnlinkChannel, LinkChannels, DeletePolicy, cluster
<1>4. QED
  BY <1>1, <1>2, <1>3 DEF Next

\* Save and Release write what the users last wrote.
LEMMA StepIntent ==
  ASSUME TypeOK, LeakInv, [Next]_vars, userOps' = userOps, store # None
  PROVE  IF store' = None THEN store.deleting
         ELSE /\ WithoutNames(store'.spec) = WithoutNames(store.spec)
              /\ store'.deleting = store.deleting
<1>1. ~User
  BY DEF User, UserCreate, UserEdit, UserDelete, UserOp, TypeOK
<1>2. CASE UNCHANGED store
  BY <1>2
<1>3. CASE /\ Save /\ ~Conflict
           /\ store' = [worker.object EXCEPT !.applied = worker.object.spec]
  <2>1. /\ worker.object \in Object
        /\ WithoutNames(store.spec) = WithoutNames(worker.object.spec)
        /\ store.deleting = worker.object.deleting
    BY <1>3, WorkerBusy DEF Save, Conflict, LeakInv, WorkerCoherent
  <2>2. store' # None
    BY <1>3, <2>1, ObjectFields
  <2>3. store'.spec = worker.object.spec /\ store'.deleting = worker.object.deleting
    BY <1>3, <2>1, ObjectUpdates
  <2>4. QED
    BY <2>1, <2>2, <2>3
<1>4. CASE Release /\ ~Conflict /\ store' = None
  BY <1>4 DEF Release, Conflict, LeakInv, WorkerCoherent, WorkerPhases, Deletion
<1>5. QED
  BY <1>1, <1>2, <1>3, <1>4, Writers

\* However long a reconcile takes and however stale the copy it began with, it
\* changes nothing that a user wrote but the names of the conditions' resources,
\* and removes nothing that no user deleted.
THEOREM IntentSurvives == Spec => UserIntentSurvives
<1>1. TypeOK /\ LeakInv /\ [Next]_vars
        => [userOps' = userOps /\ store # None =>
              IF store' = None THEN store.deleting
              ELSE /\ WithoutNames(store'.spec) = WithoutNames(store.spec)
                   /\ store'.deleting = store.deleting]_vars
  BY StepIntent
<1>2. QED
  BY <1>1, TypeCorrect, LeakInvariant, PTL DEF Spec, UserIntentSurvives

\* Whoever removes the resource leaves neither the policy nor a condition.
LEMMA StepNothingLeft ==
  ASSUME TypeOK, LeakInv, [Next]_vars, store # None, store' = None, store.id # None
  PROVE  /\ policies[store.id] = None
         /\ \A e \in Listed(store.applied) : e.name \in Names => ~Live(e.name)
<1>1. store \in Object /\ store.finalizer
  BY DEF LeakInv, FinalizerKept, TypeOK
<1>2. CASE User
  <2>1. CASE UserEdit
    BY <1>1, <2>1, EditType, ObjectFields
  <2>2. CASE UserDelete
    BY <1>1, <2>2, ObjectFields DEF UserDelete, Put, Deleted
  <2>3. QED
    BY <1>2, <2>1, <2>2 DEF User, UserCreate
<1>3. CASE Release /\ ~Conflict
  <2>1. /\ worker.pc = "release" /\ worker.rev = revision
        /\ store.id = worker.object.id /\ store.applied = worker.object.applied
    BY <1>3 DEF Release, Conflict, LeakInv, WorkerCoherent, Deletion
  <2>2. QED
    BY <2>1 DEF LeakInv, DeletionSoFar, OnItsWayOut
<1>4. CASE /\ Save /\ ~Conflict
           /\ store' = [worker.object EXCEPT !.applied = worker.object.spec]
  BY <1>4, WorkerBusy, ObjectFields DEF Save
<1>5. QED
  BY <1>1, <1>2, <1>3, <1>4, Writers

\* In every interleaving and whatever fails, the policy that the resource records
\* and the condition resources it lists go before it does.
THEOREM NothingLeft == Spec => NothingOutlives
<1>1. TypeOK /\ LeakInv /\ [Next]_vars
        => [store # None /\ store' = None /\ store.id # None =>
              /\ policies[store.id] = None
              /\ \A e \in Listed(store.applied) : e.name \in Names => ~Live(e.name)]_vars
  BY StepNothingLeft
<1>2. QED
  BY <1>1, TypeCorrect, LeakInvariant, PTL DEF Spec, NothingOutlives

-----------------------------------------------------------------------------
(* Titles.                                                                 *)

LEMMA TitleOfPlain ==
  ASSUME NEW p \in Plain, NEW name
  PROVE  Named(p, name).title = p.title
BY DEF Named, Plain

LEMMA TitleOfPolicy ==
  ASSUME NEW p \in Policy
  PROVE  WithoutNames(p).title = p.title
BY DEF WithoutNames, Policy

LEMMA CopyType ==
  ASSUME TypeOK, NEW o \in PolicyCopies
  PROVE  /\ o \in Object /\ o # None
         /\ o.spec \in Policy /\ o.spec.title \in Titles
         /\ o.id \in Ids \cup {None}
<1>1. worker.object \in Object \cup {None}
  BY DEF TypeOK, Busy, Idle
<1>2. o \in Object /\ o # None
  BY <1>1 DEF PolicyCopies, TypeOK, Versioned
<1>3. QED
  BY <1>2, ObjectFields, PolicyFields

\* The titles that New Relic holds after a step that gives none.
FewerTitles ==
  \A i \in Ids : policies'[i] # None =>
    policies[i] # None /\ policies'[i].title = policies[i].title

SameTitles == FewerTitles /\ \A i \in Ids : policies[i] # None => policies'[i] # None

LEMMA SameTitled ==
  ASSUME SameTitles, NEW i \in Ids \cup {None}, NEW title
  PROVE  Titled(i, title)' <=> Titled(i, title)
BY ConstantsAssumption DEF SameTitles, FewerTitles, Titled

\* After a step that gives no title, and brings no copy of another title or id,
\* what relates New Relic to the copies still holds.
LEMMA Shrink ==
  ASSUME NEW order, PoliciesInOrder(order), OnePolicy, NoDuplicatePolicies,
         FewerTitles,
         \A o \in PolicyCopies' : \E p \in PolicyCopies :
           p.id = o.id /\ p.spec.title = o.spec.title
  PROVE  PoliciesInOrder(order)' /\ OnePolicy' /\ NoDuplicatePolicies'
<1>1. NoDuplicatePolicies'
  BY DEF NoDuplicatePolicies, FewerTitles
<1>2. PoliciesInOrder(order)'
  <2>1. ASSUME NEW i \in Ids, policies'[i] # None, NEW o \in PolicyCopies'
        PROVE  Upto(order, policies'[i].title, o.spec.title)
    <3>1. PICK p \in PolicyCopies : p.spec.title = o.spec.title
      OBVIOUS
    <3>2. Upto(order, policies[i].title, p.spec.title)
      BY <2>1 DEF PoliciesInOrder, FewerTitles
    <3>3. QED
      BY <2>1, <3>1, <3>2 DEF FewerTitles
  <2>2. QED
    BY <2>1 DEF PoliciesInOrder, Upto
<1>3. OnePolicy'
  <2>1. ASSUME NEW o \in PolicyCopies', NEW p \in PolicyCopies', o.id # None, p.id # None
        PROVE  o.id = p.id
    <3>1. PICK q \in PolicyCopies : q.id = o.id
      OBVIOUS
    <3>2. PICK r \in PolicyCopies : r.id = p.id
      OBVIOUS
    <3>3. QED
      BY <2>1, <3>1, <3>2 DEF OnePolicy
  <2>2. ASSUME NEW o \in PolicyCopies', o.id # None, NEW i \in Ids,
               Titled(i, o.spec.title)'
        PROVE  i = o.id
    <3>1. PICK p \in PolicyCopies : p.id = o.id /\ p.spec.title = o.spec.title
      OBVIOUS
    <3>2. Titled(i, p.spec.title)
      BY <2>2, <3>1 DEF Titled, FewerTitles
    <3>3. QED
      BY <2>2, <3>1, <3>2 DEF OnePolicy
  <2>3. QED
    BY <2>1, <2>2 DEF OnePolicy
<1>4. QED
  BY <1>1, <1>2, <1>3

LEMMA InitTitles ==
  ASSUME NEW order, Init PROVE TitleInv(order)
<1>1. PolicyCopies = {}
  BY DEF Init, PolicyCopies, Absent, Idle
<1>2. \A i \in Ids : policies[i] = None
  BY DEF Init
<1>3. /\ worker.pc = "idle" /\ store = None /\ cache.object = None /\ worker = Idle
  BY DEF Init, Absent, Idle
<1>4. Unborn /\ CopiesInOrder(order) /\ IdsKept /\ SearchFinds /\ IdToCome
  BY <1>2, <1>3
  DEF Unborn, CopiesInOrder, IdsKept, SearchFinds, IdToCome, Deletion
<1>5. PoliciesInOrder(order) /\ OnePolicy /\ NoDuplicatePolicies
  BY <1>1, <1>2 DEF PoliciesInOrder, OnePolicy, NoDuplicatePolicies
<1>6. QED
  BY <1>4, <1>5 DEF TitleInv

-----------------------------------------------------------------------------
(* The steps that give no title.                                           *)

\* What the worker does between the search or the creation and the Update.
After == Steps \ ({"search", "create"} \cup Deletion)

Phase(pc, next) == pc = next \/ {pc, next} \subseteq After \/ {pc, next} \subseteq Deletion

\* A step of the worker after which its copy has the same title and id.
LEMMA WorkerKeeps ==
  ASSUME TypeOK, NEW order, TitleInv(order), UNCHANGED <<store, revision, cache>>,
         SameTitles, worker.pc # "idle",
         \/ worker' = Idle
         \/ /\ worker' \in Busy
            /\ Phase(worker.pc, worker'.pc)
            /\ worker'.rev = worker.rev
            /\ worker'.object.id = worker.object.id
            /\ worker'.object.spec.title = worker.object.spec.title
  PROVE  TitleInv(order)'
<1>1. /\ worker.object \in PolicyCopies /\ worker.pc \in Steps
      /\ worker.object.id \in Ids \cup {None}
  BY WorkerBusy, ObjectFields DEF PolicyCopies
<1>2. \A o \in PolicyCopies' : \E p \in PolicyCopies :
        p.id = o.id /\ p.spec.title = o.spec.title
  BY <1>1 DEF PolicyCopies, Idle
<1>3. PoliciesInOrder(order)' /\ OnePolicy' /\ NoDuplicatePolicies'
  BY <1>2, Shrink DEF TitleInv, SameTitles
<1>4. revision # 0
  BY DEF TitleInv, Unborn, Idle
<1>5. Unborn'
  BY <1>4 DEF Unborn
<1>6. \A o \in {cache.object, store} \ {None} : o.id \in Ids \cup {None}
  BY CopyType DEF PolicyCopies
<1>7. CASE worker' = Idle
  <2>1. worker'.pc = "idle"
    BY <1>7 DEF Idle
  <2>2. CopiesInOrder(order)' /\ IdsKept' /\ SearchFinds'
    BY <2>1 DEF CopiesInOrder, IdsKept, SearchFinds, TitleInv, Deletion
  <2>3. IdToCome'
    BY <1>6, <2>1, SameTitled DEF IdToCome, TitleInv, Deletion, PolicyCopies
  <2>4. QED
    BY <1>3, <1>5, <2>2, <2>3 DEF TitleInv
<1>8. CASE worker' \in Busy
  <2>1. /\ worker'.pc # "idle" /\ Phase(worker.pc, worker'.pc)
        /\ worker'.rev = worker.rev
        /\ worker'.object.id = worker.object.id
        /\ worker'.object.spec.title = worker.object.spec.title
    BY <1>8 DEF Busy, Steps, Idle
  <2>2. /\ worker'.pc = "search" <=> worker.pc = "search"
        /\ worker'.pc = "create" <=> worker.pc = "create"
        /\ worker'.pc \in Deletion <=> worker.pc \in Deletion
    BY <2>1 DEF Phase, After, Deletion
  <2>3. CopiesInOrder(order)' /\ IdsKept'
    BY <2>1, <2>2 DEF CopiesInOrder, IdsKept, TitleInv
  <2>4. SearchFinds'
    BY <1>1, <1>6, <2>1, <2>2, SameTitled DEF SearchFinds, TitleInv
  <2>5. IdToCome'
    BY <1>6, <2>1, <2>2, SameTitled DEF IdToCome, TitleInv
  <2>6. QED
    BY <1>3, <1>5, <2>3, <2>4, <2>5 DEF TitleInv
<1>9. QED
  BY <1>7, <1>8

LEMMA GoFields ==
  ASSUME NEW step, NEW mode, NEW o, Go(step, mode, o)
  PROVE  worker'.pc = step /\ worker'.rev = worker.rev /\ worker'.object = o
BY DEF Go, At

\* The condition resources, and the steps between the loops.
LEMMA ConditionTitles ==
  ASSUME TypeOK, TypeOK', NEW order, TitleInv(order),
         CreateCondition \/ UpdateCondition
  PROVE  TitleInv(order)'
<1>1. /\ InLoop /\ worker.pc # "idle" /\ worker.object \in Object
      /\ UNCHANGED <<store, revision, cache, policies>>
  BY WorkerBusy DEF CreateCondition, UpdateCondition, InLoop, cluster, newRelic
<1>2. \E name \in SomeName, error \in BOOLEAN : Processed(name, error)
  <2>1. CASE CreateCondition
    <3>1. NewResource(Current) => FreshName \in Names
      BY DEF NewResource, FreshName
    <3>2. QED
      BY <1>1, <2>1, <3>1, CurrentType DEF CreateCondition, SomeName
  <2>2. QED
    BY <2>1, UpdateConditionType
<1>3. /\ worker' \in Busy /\ worker'.pc = worker.pc /\ worker'.rev = worker.rev
      /\ worker'.object.id = worker.object.id
      /\ WithoutNames(worker'.object.spec) = WithoutNames(worker.object.spec)
  BY <1>1, <1>2, ProcessedType
<1>4. worker.object.spec \in Policy /\ worker'.object.spec \in Policy
  BY <1>1, <1>3, ObjectFields DEF Busy
<1>5. worker'.object.spec.title = worker.object.spec.title
  BY <1>3, <1>4, TitleOfPolicy
<1>6. SameTitles
  BY <1>1 DEF SameTitles, FewerTitles
<1>7. QED
  BY <1>1, <1>3, <1>5, <1>6, WorkerKeeps DEF Phase

LEMMA LoopTitles ==
  ASSUME TypeOK, TypeOK', NEW order, TitleInv(order),
         EndConditions \/ DeleteCondition \/ EndDeletes
  PROVE  TitleInv(order)'
<1>1. /\ worker.pc \in {"conditions", "stragglers", "deleteConditions"}
      /\ worker \in Busy
      /\ UNCHANGED <<store, revision, cache, policies>>
  BY WorkerBusy
  DEF EndConditions, InLoop, DeleteCondition, EndDeletes, cluster, newRelic
<1>2. SameTitles
  BY <1>1 DEF SameTitles, FewerTitles
<1>3. \/ worker' = Idle
      \/ /\ Phase(worker.pc, worker'.pc)
         /\ worker'.rev = worker.rev /\ worker'.object = worker.object
  <2>1. CASE EndConditions
    <3>1. /\ worker.pc = "conditions" /\ worker'.pc = "stragglers"
          /\ worker'.rev = worker.rev /\ worker'.object = worker.object
      BY <1>1, <2>1 DEF EndConditions, Busy
    <3>2. QED
      BY <3>1 DEF Phase, After, Steps, Deletion
  <2>2. CASE DeleteCondition
    BY <2>2, DeletingStep DEF Phase
  <2>3. CASE EndDeletes
    <3>1. AtChannels(worker.object) \in After
      BY NextStep DEF After, Steps, Deletion
    <3>2. \/ worker' = Idle
          \/ /\ worker.pc = "deleteConditions"
             /\ Go("deletePolicy", worker.mode, worker.object)
          \/ /\ worker.pc = "stragglers"
             /\ Go(AtChannels(worker.object), worker.mode, worker.object)
      BY <2>3 DEF EndDeletes, Fail
    <3>3. QED
      BY <3>1, <3>2, GoFields DEF Phase, After, Steps, Deletion
  <2>4. QED
    BY <2>1, <2>2, <2>3
<1>4. worker' = Idle \/ worker' \in Busy
  BY DEF TypeOK
<1>5. QED
  BY <1>1, <1>2, <1>3, <1>4, WorkerKeeps DEF Busy, Steps

LEMMA RelinkTitles ==
  ASSUME TypeOK, NEW links, NEW then,
         policies[worker.object.id] # None => links \subseteq Channels
                                              \/ worker.object.id \notin Ids,
         Relink(links, then)
  PROVE  SameTitles
<1> DEFINE i == worker.object.id
<1>1. CASE UNCHANGED policies
  BY <1>1 DEF SameTitles, FewerTitles
<1>2. CASE policies[i] # None /\ policies' = [policies EXCEPT ![i].channels = links]
  <2>1. \A j \in Ids : j # i => policies'[j] = policies[j]
    BY <1>2 DEF TypeOK
  <2>2. CASE i \in Ids
    <3>1. policies[i] \in [title : Titles, channels : SUBSET Channels]
      BY <1>2, <2>2 DEF TypeOK
    <3>2. policies'[i] = [policies[i] EXCEPT !.channels = links]
      BY <1>2, <2>2 DEF TypeOK
    <3>3. /\ policies'[i] \in [title : Titles, channels : SUBSET Channels]
          /\ policies'[i].title = policies[i].title
      BY <1>2, <2>2, <3>1, <3>2
    <3>4. QED
      BY <1>2, <2>1, <3>3, ConstantsAssumption DEF SameTitles, FewerTitles
  <2>3. CASE i \notin Ids
    BY <2>1, <2>3 DEF SameTitles, FewerTitles
  <2>4. QED
    BY <2>2, <2>3
<1>3. QED
  BY <1>1, <1>2 DEF Relink

LEMMA ChannelTitles ==
  ASSUME TypeOK, TypeOK', NEW order, TitleInv(order),
         UnlinkChannel \/ LinkChannels
  PROVE  TitleInv(order)'
<1> DEFINE i == worker.object.id
<1>1. /\ worker.pc \in {"unlink", "link"}
      /\ worker \in Busy /\ worker.object \in Object
      /\ i \in Ids \cup {None}
      /\ UNCHANGED <<store, revision, cache>>
  BY WorkerBusy, ObjectFields DEF UnlinkChannel, LinkChannels, cluster
<1>2. i \in Ids /\ policies[i] # None => policies[i].channels \subseteq Channels
  BY DEF TypeOK
<1>3. ToAdd(worker.object) \subseteq Channels
  BY <1>1, ObjectFields, PolicyFields DEF ToAdd
<1>4. SameTitles
  BY <1>2, <1>3, RelinkTitles DEF UnlinkChannel, LinkChannels
<1>5. \/ worker' = Idle
      \/ /\ worker'.pc \in {"unlink", "link", "save"}
         /\ worker'.rev = worker.rev /\ worker'.object = worker.object
  <2>1. CASE UnlinkChannel
    <3>1. PICK c : \/ worker' = Idle
                   \/ worker' = At("link", worker.mode, worker.object, worker.rev)
                   \/ worker' = [worker EXCEPT !.left = @ \ {c}]
      BY <2>1 DEF UnlinkChannel, Relink, Fail
    <3>2. LET w == At("link", worker.mode, worker.object, worker.rev) IN
          w.pc = "link" /\ w.rev = worker.rev /\ w.object = worker.object
      BY DEF At
    <3>3. LET w == [worker EXCEPT !.left = @ \ {c}] IN
          w.pc = worker.pc /\ w.rev = worker.rev /\ w.object = worker.object
      BY <1>1 DEF Busy
    <3>4. QED
      BY <1>1, <3>1, <3>2, <3>3
  <2>2. CASE LinkChannels
    BY <2>2, GoFields DEF LinkChannels, Relink, Fail
  <2>3. QED
    BY <2>1, <2>2
<1>6. Phase(worker.pc, worker'.pc) \/ worker' = Idle
  BY <1>1, <1>5 DEF Phase, After, Steps, Deletion
<1>7. worker' = Idle \/ worker' \in Busy
  BY DEF TypeOK
<1>8. QED
  BY <1>1, <1>4, <1>5, <1>6, <1>7, WorkerKeeps

\* A call that fails, and ends the reconcile.
LEMMA FailTitles ==
  ASSUME TypeOK, NEW order, TitleInv(order), worker.pc # "idle", worker' = Idle,
         UNCHANGED <<store, revision, cache, policies>>
  PROVE  TitleInv(order)'
<1>1. SameTitles
  BY DEF SameTitles, FewerTitles
<1>2. QED
  BY <1>1, WorkerKeeps

-----------------------------------------------------------------------------
(* The steps that write the resource, or take the policy away.             *)

\* A copy of a recorded id is not there before the worker's Update: an informer's
\* copy without it has the worker's title.
LEMMA SaveTitles ==
  ASSUME TypeOK, TypeOK', LeakInv, NEW order, TitleInv(order), Save
  PROVE  TitleInv(order)'
<1> DEFINE object == [worker.object EXCEPT !.applied = worker.object.spec]
<1>1. /\ worker.pc = "save" /\ worker' = Idle /\ worker'.pc = "idle"
      /\ UNCHANGED <<cache, policies>>
  BY DEF Save, Return, Fail, Idle, newRelic
<1>2. CASE UNCHANGED cluster
  BY <1>1, <1>2, FailTitles DEF cluster
<1>3. CASE ~Conflict /\ Put(object)
  <2>1. /\ worker.object \in Object
        /\ object.id = worker.object.id /\ object.spec = worker.object.spec
        /\ object # None
    BY <1>1, WorkerBusy, ObjectUpdates, ObjectFields
  <2> HIDE DEF object
  <2>2. /\ store' = object /\ revision' = revision + 1 /\ revision \in Nat
        /\ worker.rev = revision /\ worker.rev \in Nat /\ cache.rev \in Nat
    BY <1>1, <1>3, WorkerBusy DEF Put, Conflict, TypeOK, Versioned
  <2>3. /\ worker.object.id # None
        /\ worker.object \in PolicyCopies
    BY <1>1, <2>1, ObjectFields DEF TitleInv, IdsKept, PolicyCopies
  <2>4. /\ store # None /\ store.spec.title = worker.object.spec.title
        /\ cache.object = store
    <3>1. cache.object = store
      BY <1>1, <2>2 DEF TitleInv, CopiesInOrder, LeakInv, CacheCoherent
    <3>2. /\ store # None
          /\ WithoutNames(store.spec) = WithoutNames(worker.object.spec)
      BY <1>1, <2>2 DEF LeakInv, WorkerCoherent
    <3>3. store.spec \in Policy /\ worker.object.spec \in Policy
      BY <2>1, <3>2, ObjectFields DEF TypeOK
    <3>4. QED
      BY <3>1, <3>2, <3>3, TitleOfPolicy
  <2>5. store' # None /\ store'.id = worker.object.id
          /\ store'.spec.title = worker.object.spec.title
    BY <2>1, <2>2
  <2>6. FewerTitles /\ \A i, t : Titled(i, t)' = Titled(i, t)
    BY <1>1 DEF FewerTitles, Titled
  <2>7. PoliciesInOrder(order)' /\ OnePolicy' /\ NoDuplicatePolicies'
    <3>1. \A o \in PolicyCopies' : \E p \in PolicyCopies :
            p.id = o.id /\ p.spec.title = o.spec.title
      BY <1>1, <2>3, <2>5 DEF PolicyCopies, Idle
    <3>2. QED
      BY <2>6, <3>1, Shrink DEF TitleInv
  <2>8. Unborn' /\ CopiesInOrder(order)' /\ IdsKept' /\ SearchFinds'
    BY <1>1, <2>2, <2>3, <2>4, <2>5
    DEF Unborn, CopiesInOrder, IdsKept, SearchFinds, Upto, Deletion
  <2>9. IdToCome'
    <3>1. cache.object.id = None => Titled(worker.object.id, worker.object.spec.title)
      BY <1>1, <2>4 DEF TitleInv, SearchFinds, Deletion
    <3>2. QED
      BY <1>1, <2>4, <2>5, <2>6, <3>1 DEF IdToCome, Deletion
  <2>10. QED
    BY <2>7, <2>8, <2>9 DEF TitleInv
<1>4. QED
  BY <1>2, <1>3 DEF Save

LEMMA ReleaseTitles ==
  ASSUME TypeOK, NEW order, TitleInv(order), Release
  PROVE  TitleInv(order)'
<1>1. /\ worker.pc = "release" /\ worker' = Idle /\ worker'.pc = "idle"
      /\ worker'.object = None
      /\ UNCHANGED <<cache, policies>>
  BY DEF Release, Return, Fail, Idle, newRelic
<1>2. CASE UNCHANGED cluster
  BY <1>1, <1>2, FailTitles DEF cluster
<1>3. CASE Put(None)
  <2>1. store' = None /\ revision' = revision + 1 /\ revision \in Nat
    BY <1>3 DEF Put, TypeOK
  <2>2. FewerTitles
    BY <1>1 DEF FewerTitles
  <2>3. PolicyCopies' \subseteq PolicyCopies
    BY <1>1, <2>1 DEF PolicyCopies
  <2>4. PoliciesInOrder(order)' /\ OnePolicy' /\ NoDuplicatePolicies'
    BY <2>2, <2>3, Shrink DEF TitleInv
  <2>5. /\ Unborn' /\ CopiesInOrder(order)' /\ IdsKept' /\ SearchFinds'
        /\ IdToCome'
    BY <1>1, <2>1
    DEF Unborn, CopiesInOrder, IdsKept, SearchFinds, IdToCome, Deletion
  <2>6. QED
    BY <2>4, <2>5 DEF TitleInv
<1>4. QED
  BY <1>2, <1>3 DEF Release

LEMMA DeleteTitles ==
  ASSUME TypeOK, NEW order, TitleInv(order), DeletePolicy
  PROVE  TitleInv(order)'
<1> DEFINE i == worker.object.id
<1>1. /\ worker.pc = "deletePolicy" /\ worker.object \in Object
      /\ worker.object \in PolicyCopies
      /\ UNCHANGED <<store, revision, cache>>
  BY WorkerBusy, ObjectFields DEF DeletePolicy, cluster, PolicyCopies
<1>2. CASE UNCHANGED policies /\ worker' = Idle
  BY <1>1, <1>2, FailTitles
<1>3. CASE /\ policies' = [policies EXCEPT ![i] = None]
           /\ \/ worker' = Idle
              \/ Go("release", "delete", worker.object)
  <2>1. FewerTitles
    BY <1>3 DEF FewerTitles, TypeOK
  <2>2. \/ worker'.pc = "idle" /\ worker'.object = None /\ worker' = Idle
        \/ /\ worker'.pc = "release" /\ worker'.object = worker.object
           /\ worker'.rev = worker.rev
    BY <1>3, GoFields DEF Idle
  <2>3. PolicyCopies' \subseteq PolicyCopies
    BY <1>1, <2>2 DEF PolicyCopies
  <2>4. PoliciesInOrder(order)' /\ OnePolicy' /\ NoDuplicatePolicies'
    BY <2>1, <2>3, Shrink DEF TitleInv
  <2>5. revision # 0
    BY <1>1 DEF TitleInv, Unborn, Idle
  <2>6. Unborn' /\ CopiesInOrder(order)' /\ IdsKept' /\ SearchFinds'
    BY <1>1, <2>2, <2>5
    DEF TitleInv, Unborn, CopiesInOrder, IdsKept, SearchFinds, Deletion
  <2>7. IdToCome'
    BY <1>1 DEF TitleInv, IdToCome, Deletion
  <2>8. QED
    BY <2>4, <2>6, <2>7 DEF TitleInv
<1>4. QED
  BY <1>2, <1>3 DEF DeletePolicy, Fail

-----------------------------------------------------------------------------
(* The manager, and the beginning of a reconcile.                          *)

\* Nothing but queues, faults and the condition resources changes.
LEMMA AsideTitles ==
  ASSUME NEW order, TitleInv(order),
         UNCHANGED <<store, revision, cache, worker, policies>>
  PROVE  TitleInv(order)'
BY DEF TitleInv, Unborn, CopiesInOrder, PoliciesInOrder, OnePolicy, IdsKept,
       SearchFinds, IdToCome, NoDuplicatePolicies, PolicyCopies, Upto, Titled

\* The informer's copy is that of the API server, and the worker goes on or not.
LEMMA SyncTitles ==
  ASSUME TypeOK, LeakInv, NEW order, TitleInv(order),
         UNCHANGED <<store, revision, policies>>,
         cache' = [object |-> store, rev |-> revision],
         worker' = worker \/ worker' = Idle
  PROVE  TitleInv(order)'
<1>1. cache'.object = store /\ cache'.rev = revision /\ cache.rev <= revision
      /\ revision \in Nat /\ cache.rev \in Nat
  BY DEF LeakInv, CacheCoherent, TypeOK, Versioned
<1>2. Idle.pc = "idle" /\ Idle.object = None
  BY DEF Idle
<1>3. PolicyCopies' \subseteq PolicyCopies
  BY <1>1, <1>2 DEF PolicyCopies
<1>4. FewerTitles /\ \A i, t : Titled(i, t)' = Titled(i, t)
  BY DEF FewerTitles, Titled
<1>5. PoliciesInOrder(order)' /\ OnePolicy' /\ NoDuplicatePolicies'
  BY <1>3, <1>4, Shrink DEF TitleInv
<1>6. Unborn' /\ CopiesInOrder(order)'
  <2>1. worker.pc # "idle" => worker.rev \in Nat
    BY WorkerBusy
  <2>2. QED
    BY <1>1, <1>2, <2>1 DEF TitleInv, Unborn, CopiesInOrder, Upto
<1>7. IdsKept' /\ SearchFinds' /\ IdToCome'
  BY <1>1, <1>2, <1>4 DEF TitleInv, IdsKept, SearchFinds, IdToCome
<1>8. QED
  BY <1>5, <1>6, <1>7 DEF TitleInv

\* A worker begins to search with a copy that knows of no policy, and does
\* anything else with one that does.
LEMMA BeginTitles ==
  ASSUME TypeOK, NEW order, TitleInv(order), worker.pc = "idle",
         UNCHANGED <<store, revision, cache, policies>>,
         worker'.pc \in Steps, worker'.pc # "create", worker'.rev = cache.rev,
         worker'.object # None, cache.object # None,
         worker'.object.id = cache.object.id,
         worker'.object.spec = cache.object.spec,
         worker'.pc = "search" <=> cache.object.id = None
  PROVE  TitleInv(order)'
<1>1. worker'.pc # "idle" /\ cache.object \in PolicyCopies
  BY DEF Steps, PolicyCopies
<1>2. \A o \in PolicyCopies' : \E p \in PolicyCopies :
        p.id = o.id /\ p.spec.title = o.spec.title
  BY <1>1 DEF PolicyCopies
<1>3. FewerTitles /\ \A i, t : Titled(i, t)' = Titled(i, t)
  BY DEF FewerTitles, Titled
<1>4. PoliciesInOrder(order)' /\ OnePolicy' /\ NoDuplicatePolicies'
  BY <1>2, <1>3, Shrink DEF TitleInv
<1>5. revision # 0
  BY DEF TitleInv, Unborn
<1>6. Unborn'
  BY <1>5 DEF Unborn
<1>7. CopiesInOrder(order)'
  BY <1>1 DEF TitleInv, CopiesInOrder, Upto, TypeOK, Versioned
<1>8. IdsKept'
  BY <1>1 DEF TitleInv, IdsKept
<1>9. SearchFinds'
  BY <1>1, <1>3, <1>8 DEF TitleInv, SearchFinds, IdToCome, IdsKept
<1>10. IdToCome'
  BY <1>1, <1>3 DEF TitleInv, IdToCome, Deletion
<1>11. QED
  BY <1>4, <1>6, <1>7, <1>8, <1>9, <1>10 DEF TitleInv

LEMMA ReconcileTitles ==
  ASSUME TypeOK, NEW order, TitleInv(order), Reconcile
  PROVE  TitleInv(order)'
<1>1. /\ worker.pc = "idle"
      /\ UNCHANGED <<store, revision, cache, policies>>
  BY DEF Reconcile, ReconcileFails, ReconcileNothing, ReconcileDeletion,
         ReconcileSpec, Begin, Ready, cluster, newRelic
<1>2. CASE ReconcileFails \/ ReconcileNothing
  BY <1>1, <1>2, AsideTitles DEF ReconcileFails, ReconcileNothing
<1>3. ASSUME NEW step, NEW mode, NEW o, Begin(step, mode, o)
      PROVE  worker'.pc = step /\ worker'.rev = cache.rev /\ worker'.object = o
  BY <1>3 DEF Begin, At
<1>4. ~NothingToDo(cache.object) => cache.object \in Object /\ cache.object # None
  BY ConstantsAssumption DEF NothingToDo, TypeOK, Versioned
<1>5. CASE ReconcileDeletion
  <2>1. /\ cache.object.id # None /\ cache.object # None
        /\ Begin("deleteConditions", "delete", cache.object)
    BY <1>4, <1>5 DEF ReconcileDeletion, NothingToDo
  <2>2. QED
    BY <1>1, <1>3, <2>1, BeginTitles DEF Steps
<1>6. CASE ReconcileSpec
  <2> DEFINE o == [cache.object EXCEPT !.finalizer = TRUE]
  <2>1. /\ o.id = cache.object.id /\ o.spec = cache.object.spec /\ o # None
        /\ cache.object # None
    BY <1>4, <1>6, ObjectUpdates, ObjectFields DEF ReconcileSpec
  <2>2. IF o.id = None THEN Begin("search", "create", o)
                       ELSE Begin(AtUpdate(o), "update", o)
    BY <1>6 DEF ReconcileSpec
  <2> HIDE DEF o
  <2>3. AtUpdate(o) \in Steps \ {"search", "create"}
    BY NextStep DEF Steps
  <2>4. "search" \in Steps
    BY DEF Steps
  <2>5. QED
    BY <1>1, <1>3, <2>1, <2>2, <2>3, <2>4, BeginTitles
<1>7. QED
  BY <1>2, <1>5, <1>6 DEF Reconcile

-----------------------------------------------------------------------------
(* The policy in New Relic.                                                *)

\* A search that does not fail finds the policy that is recorded, if one is.
LEMMA SearchTitles ==
  ASSUME TypeOK, NEW order, TitleInv(order), "search" \notin FaultKinds, Search
  PROVE  TitleInv(order)'
<1> DEFINE title == worker.object.spec.title
           goOn(o) == IF o.id = None THEN Go("create", "create", o)
                                     ELSE Go(AtUpdate(o), "update", o)
<1>1. /\ worker.pc = "search" /\ worker.object \in Object
      /\ worker.object \in PolicyCopies
      /\ UNCHANGED <<store, revision, cache, policies>>
  BY WorkerBusy, ObjectFields DEF Search, PolicyCopies, cluster, newRelic
<1>2. worker.object.id = None
  BY <1>1 DEF TitleInv, IdsKept
<1>3. \A i, t : Titled(i, t)' = Titled(i, t)
  BY <1>1 DEF Titled
<1>4. revision # 0
  BY <1>1 DEF TitleInv, Unborn, Idle
<1>5. NoDuplicatePolicies' /\ Unborn'
  BY <1>1, <1>4 DEF TitleInv, NoDuplicatePolicies, Unborn
<1>6. CASE /\ goOn(worker.object)
           /\ \A i \in Ids : ~Titled(i, title)
  <2>1. /\ worker'.pc = "create" /\ worker'.object = worker.object
        /\ worker'.rev = worker.rev
    BY <1>2, <1>6, GoFields
  <2>2. PolicyCopies' = PolicyCopies
    BY <1>1, <2>1 DEF PolicyCopies
  <2>3. PoliciesInOrder(order)' /\ OnePolicy'
    BY <1>1, <1>3, <2>2 DEF TitleInv, PoliciesInOrder, OnePolicy, Upto
  <2>4. \A o \in {cache.object, store} \ {None} : o.id = None
    <3>1. SUFFICES ASSUME NEW o \in {cache.object, store} \ {None}, o.id # None
                   PROVE  FALSE
      OBVIOUS
    <3>2. o.id \in Ids
      BY <3>1, CopyType DEF PolicyCopies
    <3>3. QED
      BY <1>1, <1>6, <3>1, <3>2 DEF TitleInv, SearchFinds
  <2>5. CopiesInOrder(order)' /\ IdsKept' /\ SearchFinds' /\ IdToCome'
    BY <1>1, <1>2, <1>3, <1>6, <2>1, <2>4
    DEF TitleInv, CopiesInOrder, IdsKept, SearchFinds, IdToCome, Upto, Deletion
  <2>6. QED
    BY <1>5, <2>3, <2>5 DEF TitleInv
<1>7. ASSUME NEW i \in Ids, Titled(i, title), goOn(Adopt(worker.object, i))
      PROVE  TitleInv(order)'
  <2> DEFINE o == Adopt(worker.object, i)
  <2>1. o.id = i /\ o.spec = worker.object.spec
    BY <1>1, ObjectUpdates DEF Adopt, Object
  <2> HIDE DEF o
  <2>2. /\ worker'.pc \in Steps \ (Deletion \cup {"search", "create"})
        /\ worker'.object = o /\ worker'.rev = worker.rev
    <3>1. Go(AtUpdate(o), "update", o)
      BY <1>7, <2>1, ConstantsAssumption DEF o
    <3>2. QED
      BY <3>1, GoFields, NextStep DEF Steps, Deletion
  <2>3. \A p \in {cache.object, store} \ {None} : p.id # None => p.id = i
    <3>1. SUFFICES ASSUME NEW p \in {cache.object, store} \ {None}, p.id # None
                   PROVE  p.id = i
      OBVIOUS
    <3>2. p.id \in Ids
      BY <3>1, CopyType DEF PolicyCopies
    <3>3. Titled(p.id, title)
      BY <1>1, <3>1 DEF TitleInv, SearchFinds
    <3>4. QED
      BY <1>7, <3>2, <3>3 DEF TitleInv, NoDuplicatePolicies, Titled
  <2>4. \A p \in PolicyCopies' : \E q \in PolicyCopies :
          p.spec.title = q.spec.title /\ p.id \in {q.id, i}
    BY <1>1, <2>1, <2>2 DEF PolicyCopies
  <2>5. \A p \in PolicyCopies' : p.id # None => p.id = i
    BY <1>1, <2>1, <2>2, <2>3 DEF PolicyCopies
  <2>6. PoliciesInOrder(order)'
    BY <1>1, <2>4 DEF TitleInv, PoliciesInOrder, Upto
  <2>7. OnePolicy'
    <3>1. ASSUME NEW p \in PolicyCopies', p.id # None, NEW j \in Ids,
                 Titled(j, p.spec.title)'
          PROVE  j = p.id
      <4>1. CASE p = o
        BY <1>3, <1>7, <2>1, <3>1, <4>1 DEF TitleInv, NoDuplicatePolicies, Titled
      <4>2. CASE p \in PolicyCopies
        BY <1>3, <3>1, <4>2 DEF TitleInv, OnePolicy
      <4>3. QED
        BY <1>1, <2>2, <4>1, <4>2 DEF PolicyCopies
    <3>2. QED
      BY <2>5, <3>1 DEF OnePolicy
  <2>8. i # None /\ worker'.pc \notin {"idle", "search", "create"} \cup Deletion
    BY <2>2, ConstantsAssumption DEF Steps
  <2>9. CopiesInOrder(order)' /\ IdsKept' /\ SearchFinds' /\ IdToCome'
    BY <1>1, <1>3, <1>7, <2>1, <2>2, <2>8
    DEF TitleInv, CopiesInOrder, IdsKept, SearchFinds, IdToCome, Upto
  <2>10. QED
    BY <1>5, <2>6, <2>7, <2>9 DEF TitleInv
<1>8. \/ goOn(worker.object) /\ \A i \in Ids : ~Titled(i, title)
      \/ \E i \in Ids : Titled(i, title) /\ goOn(Adopt(worker.object, i))
  BY ConstantsAssumption DEF Search, Fault, Titled
<1>9. QED
  BY <1>6, <1>7, <1>8

\* The title that a worker gives a policy is no other policy's.
LEMMA GiveTitle ==
  ASSUME TypeOK, NEW order, TitleInv(order),
         worker.pc # "idle", UNCHANGED <<store, revision, cache>>,
         NEW i \in Ids, policies'[i] # None,
         policies'[i].title = worker.object.spec.title,
         \A j \in Ids \ {i} : policies'[j] = policies[j],
         \A j \in Ids \ {i} : ~Titled(j, worker.object.spec.title),
         \A o \in {cache.object, store} \ {None} : o.id \in {None, i},
         \/ worker' = Idle
         \/ /\ worker'.pc \in After
            /\ worker'.rev = worker.rev
            /\ worker'.object.id = i
            /\ worker'.object.spec = worker.object.spec
            /\ worker'.object # None,
         worker.pc \notin Deletion
  PROVE  TitleInv(order)'
<1>a. PICK title : title = worker.object.spec.title
  OBVIOUS
<1>1. /\ worker.object \in PolicyCopies
      /\ \A j \in Ids : j # None
      /\ \A o \in {cache.object, store} \ {None} : o.id \in Ids \cup {None}
  BY WorkerBusy, ObjectFields, CopyType, ConstantsAssumption DEF PolicyCopies
<1>2. Idle.pc = "idle" /\ Idle.object = None
  BY DEF Idle
<1>3. worker'.pc = "idle" \/ worker'.pc \notin {"idle", "search", "create"} \cup Deletion
  BY <1>2 DEF After, Steps
<1>4. Titled(i, title)' /\ \A j \in Ids \ {i} : \A t : Titled(j, t)' = Titled(j, t)
  BY <1>a, <1>1 DEF Titled
<1>5. revision # 0
  BY DEF TitleInv, Unborn, Idle
<1>6. Unborn'
  BY <1>5 DEF Unborn
<1>7. NoDuplicatePolicies'
  <2>1. \A j \in Ids \ {i} : policies'[j] # None => policies'[j].title # policies'[i].title
    BY <1>1 DEF Titled
  <2>2. QED
    BY <2>1 DEF TitleInv, NoDuplicatePolicies
<1>8. CopiesInOrder(order)'
  BY <1>2 DEF TitleInv, CopiesInOrder, Upto
<1>9. \A o \in PolicyCopies' : /\ o.id \in {None, i}
                               /\ Upto(order, title, o.spec.title)
                               /\ \E p \in PolicyCopies : p.spec.title = o.spec.title
  BY <1>a, <1>1, <1>2 DEF PolicyCopies, TitleInv, CopiesInOrder, Upto
<1>10. PoliciesInOrder(order)'
  <2>1. ASSUME NEW j \in Ids, policies'[j] # None, NEW o \in PolicyCopies'
        PROVE  Upto(order, policies'[j].title, o.spec.title)
    <3>1. PICK p \in PolicyCopies : p.spec.title = o.spec.title
      BY <1>9
    <3>2. CASE j = i
      BY <1>a, <1>9, <3>2
    <3>3. CASE j # i
      BY <2>1, <3>1, <3>3 DEF TitleInv, PoliciesInOrder
    <3>4. QED
      BY <3>2, <3>3
  <2>2. QED
    BY <2>1 DEF PoliciesInOrder, Upto
<1>11. OnePolicy'
  <2>1. ASSUME NEW o \in PolicyCopies', o.id # None, NEW j \in Ids,
               Titled(j, o.spec.title)'
        PROVE  j = o.id
    <3>1. o.id = i
      BY <1>9, <2>1
    <3>2. SUFFICES ASSUME j # i PROVE FALSE
      BY <3>1
    <3>3. Titled(j, o.spec.title)
      BY <1>4, <2>1, <3>2
    <3>4. o.spec.title # title
      BY <1>a, <3>2, <3>3
    <3>5. o \in PolicyCopies
      BY <1>a, <1>2, <3>4 DEF PolicyCopies
    <3>6. QED
      BY <2>1, <3>1, <3>2, <3>3, <3>5 DEF TitleInv, OnePolicy
  <2>2. QED
    BY <1>9, <2>1 DEF OnePolicy
<1>12. IdsKept'
  BY <1>1, <1>3 DEF TitleInv, IdsKept, Idle
<1>13. SearchFinds'
  BY <1>a, <1>3, <1>4 DEF SearchFinds, Idle
<1>14. IdToCome'
  <2>1. ASSUME cache.object # None, cache.object.id = None, store # None, store.id # None
        PROVE  store.id = i /\ cache.object.spec.title = title
    BY <1>a, <2>1 DEF TitleInv, IdToCome
  <2>2. worker'.pc # "idle" => worker'.object.spec.title = title
    BY <1>a, <1>2
  <2>3. worker'.pc \notin Deletion
    BY <1>3 DEF Deletion
  <2>4. QED
    BY <1>4, <2>1, <2>2, <2>3 DEF IdToCome, Titled
<1>15. QED
  BY <1>6, <1>7, <1>8, <1>10, <1>11, <1>12, <1>13, <1>14 DEF TitleInv

LEMMA CreateTitles ==
  ASSUME TypeOK, TypeOK', NEW order, TitleInv(order), CreatePolicy
  PROVE  TitleInv(order)'
<1>1. /\ worker.pc = "create" /\ worker.object \in Object
      /\ worker.object.spec.title \in Titles
      /\ UNCHANGED <<store, revision, cache>>
  BY WorkerBusy, ObjectFields, PolicyFields DEF CreatePolicy, cluster
<1>2. CASE UNCHANGED policies /\ worker' = Idle
  BY <1>1, <1>2, FailTitles
<1>3. CASE /\ NewPolicy(worker.object.spec.title)
           /\ \/ worker' = Idle
              \/ Go("conditions", "create", [worker.object EXCEPT !.id = FreshId])
  <2> DEFINE o == [worker.object EXCEPT !.id = FreshId]
             new == [title |-> worker.object.spec.title, channels |-> {}]
  <2>1. FreshId \in Ids
    BY <1>3 DEF NewPolicy, FreshId
  <2>2. o.spec = worker.object.spec /\ o.id = FreshId /\ o # None
    <3>1. o.id = FreshId
      BY <1>1 DEF Object
    <3>2. o.spec = worker.object.spec
      BY <1>1, ObjectUpdates
    <3>3. o \in Object
      BY <1>1, <2>1, ObjectFields
    <3>4. QED
      BY <3>1, <3>2, <3>3, ConstantsAssumption
  <2>3. new # None /\ new.title = worker.object.spec.title
    BY <1>1, ConstantsAssumption
  <2>4. policies' = [policies EXCEPT ![FreshId] = new]
    BY <1>3 DEF NewPolicy
  <2> HIDE DEF o, new
  <2>5. policies'[FreshId] = new /\ \A j \in Ids \ {FreshId} : policies'[j] = policies[j]
    BY <2>1, <2>4 DEF TypeOK
  <2>6. /\ \A j \in Ids : ~Titled(j, worker.object.spec.title)
        /\ \A p \in {cache.object, store} \ {None} : p.id = None
    BY <1>1 DEF TitleInv, SearchFinds
  <2>7. \/ worker' = Idle
        \/ /\ worker'.pc \in After /\ worker'.rev = worker.rev /\ worker'.object = o
    <3>1. "conditions" \in After
      BY DEF After, Steps, Deletion
    <3>2. QED
      BY <1>3, <3>1, GoFields DEF o
  <2>8. QED
    BY <1>1, <2>1, <2>2, <2>3, <2>5, <2>6, <2>7, GiveTitle DEF Deletion
<1>4. QED
  BY <1>2, <1>3 DEF CreatePolicy, Fail, newRelic

LEMMA UpdateTitles ==
  ASSUME TypeOK, TypeOK', NEW order, TitleInv(order), UpdatePolicy
  PROVE  TitleInv(order)'
<1> DEFINE i == worker.object.id
           title == worker.object.spec.title
<1>1. /\ worker.pc = "update" /\ worker.object \in Object
      /\ worker.object \in PolicyCopies
      /\ title \in Titles /\ i \in Ids \cup {None}
      /\ UNCHANGED <<store, revision, cache>>
  BY WorkerBusy, ObjectFields, PolicyFields DEF UpdatePolicy, cluster, PolicyCopies
<1>2. i \in Ids /\ i # None
  BY <1>1 DEF TitleInv, IdsKept
<1>3. CASE UNCHANGED policies /\ worker' = Idle
  BY <1>1, <1>3, FailTitles
<1>4. CASE /\ policies[i] # None
           /\ policies' = [policies EXCEPT ![i].title = title]
           /\ Go(AtConditions(worker.object), "update", worker.object)
  <2>1. policies[i] \in [title : Titles, channels : SUBSET Channels]
    BY <1>2, <1>4 DEF TypeOK
  <2>2. policies'[i] = [policies[i] EXCEPT !.title = title]
        /\ \A j \in Ids \ {i} : policies'[j] = policies[j]
    BY <1>2, <1>4 DEF TypeOK
  <2>3. policies'[i] # None /\ policies'[i].title = title
    BY <1>1, <2>1, <2>2, ConstantsAssumption
  <2>4. \A j \in Ids \ {i} : ~Titled(j, title)
    BY <1>1, <1>2 DEF TitleInv, OnePolicy
  <2>5. \A p \in {cache.object, store} \ {None} : p.id \in {None, i}
    BY <1>1, <1>2 DEF TitleInv, OnePolicy, PolicyCopies
  <2>6. /\ worker'.pc \in After /\ worker'.rev = worker.rev
        /\ worker'.object = worker.object
    <3>1. AtConditions(worker.object) \in After
      BY NextStep DEF After, Steps, Deletion
    <3>2. QED
      BY <1>4, <3>1, GoFields
  <2>7. worker.object # None
    BY <1>1, ObjectFields
  <2>8. QED
    BY <1>1, <1>2, <2>2, <2>3, <2>4, <2>5, <2>6, <2>7, GiveTitle DEF Deletion
<1>5. QED
  BY <1>3, <1>4 DEF UpdatePolicy, Fail

-----------------------------------------------------------------------------
(* The users.                                                              *)

LEMMA EditedTitle ==
  ASSUME TypeOK, NEW order, Renaming(order), UserEdit
  PROVE  Upto(order, store.spec.title, store'.spec.title)
<1>1. store \in Object
  BY DEF UserEdit, TypeOK
<1>2. PICK edit \in Edits :
        /\ edit[1] = WithoutNames(store.spec)
        /\ \E name : store' = [store EXCEPT !.spec = Named(edit[2], name)]
  BY DEF UserEdit, Put
<1>2a. PICK name : store' = [store EXCEPT !.spec = Named(edit[2], name)]
  BY <1>2
<1>3. edit[2] \in Plain
  BY ConstantsAssumption DEF Valid
<1>4. store'.spec = Named(edit[2], name)
  BY <1>1, <1>2a, ObjectUpdates
<1>5. store'.spec.title = edit[2].title /\ edit[1].title = store.spec.title
  <2>1. store.spec \in Policy
    BY <1>1, ObjectFields
  <2>2. edit[1].title = store.spec.title
    BY <1>2, <2>1, TitleOfPolicy
  <2>3. Named(edit[2], name).title = edit[2].title
    BY <1>3, TitleOfPlain
  <2>4. QED
    BY <1>4, <2>2, <2>3
<1>6. QED
  BY <1>5 DEF Renaming, Upto

LEMMA UptoTitle ==
  ASSUME NEW order, Renaming(order), NEW t \in Titles, NEW u \in Titles, NEW v \in Titles,
         Upto(order, t, u), Upto(order, u, v)
  PROVE  Upto(order, t, v) /\ (t = v => u = v)
BY DEF Renaming, Upto

LEMMA UserTitles ==
  ASSUME TypeOK, TypeOK', NEW order, Renaming(order), TitleInv(order), User
  PROVE  TitleInv(order)'
<1>1. /\ revision' = revision + 1 /\ revision \in Nat
      /\ UNCHANGED <<cache, worker, policies>>
  BY EditType
  DEF User, UserCreate, UserEdit, UserDelete, UserOp, Put, newRelic, TypeOK
<1>2. \A i, t : Titled(i, t)' = Titled(i, t)
  BY <1>1 DEF Titled
<1>3. Unborn' /\ NoDuplicatePolicies'
  BY <1>1 DEF TitleInv, Unborn, NoDuplicatePolicies
<1>4. CASE UserCreate
  <2>1. /\ cache.object = None /\ worker = Idle /\ \A i \in Ids : policies[i] = None
        /\ worker.pc = "idle" /\ worker.object = None
    BY <1>4 DEF UserCreate, TitleInv, Unborn, Idle
  <2>2. store'.id = None
    BY <1>4 DEF UserCreate, Put
  <2>3. PolicyCopies' \subseteq {store'}
    BY <1>1, <2>1 DEF PolicyCopies
  <2>4. PoliciesInOrder(order)' /\ OnePolicy'
    BY <1>1, <2>1, <2>2, <2>3 DEF PoliciesInOrder, OnePolicy
  <2>5. CopiesInOrder(order)' /\ IdsKept' /\ SearchFinds' /\ IdToCome'
    BY <1>1, <2>1
    DEF CopiesInOrder, IdsKept, SearchFinds, IdToCome, Deletion
  <2>6. QED
    BY <1>3, <2>4, <2>5 DEF TitleInv
<1>5. CASE UserEdit
  <2>1. /\ store \in Object /\ store # None /\ store \in PolicyCopies
        /\ store' \in Object /\ store' # None /\ store'.id = store.id
    <3>1. store # None /\ store \in Object
      BY <1>5 DEF UserEdit, TypeOK
    <3>2. store' \in Object /\ \E s : store' = [store EXCEPT !.spec = s]
      BY <1>5, EditType
    <3>3. store'.id = store.id
      BY <3>1, <3>2, ObjectUpdates
    <3>4. QED
      BY <3>1, <3>2, <3>3, ConstantsAssumption DEF PolicyCopies
  <2>2. Upto(order, store.spec.title, store'.spec.title)
    BY <1>5, EditedTitle
  <2>3. store.spec.title \in Titles /\ store'.spec.title \in Titles
    BY <2>1, ObjectFields, PolicyFields
  <2>4. \A o \in PolicyCopies' : o \in PolicyCopies \/ o = store'
    BY <1>1 DEF PolicyCopies
  <2>5. \A i \in Ids : policies[i] # None => policies[i].title \in Titles
    BY DEF TypeOK
  <2>6. CopiesInOrder(order)'
    <3>1. \A o \in {cache.object, worker.object} \ {None} :
            /\ o.spec.title \in Titles
            /\ Upto(order, o.spec.title, store.spec.title)
                 => Upto(order, o.spec.title, store'.spec.title)
      BY <2>2, <2>3, CopyType, UptoTitle DEF PolicyCopies
    <3>2. worker.pc # "idle" => worker.object # None
      BY WorkerBusy, ObjectFields
    <3>3. QED
      BY <1>1, <2>1, <3>1, <3>2 DEF TitleInv, CopiesInOrder, Upto
  <2>7. PoliciesInOrder(order)'
    <3>1. \A i \in Ids : policies[i] # None =>
            Upto(order, policies[i].title, store'.spec.title)
      BY <2>1, <2>2, <2>3, <2>5, UptoTitle DEF TitleInv, PoliciesInOrder
    <3>2. QED
      BY <1>1, <2>4, <3>1 DEF TitleInv, PoliciesInOrder, Upto
  <2>8. OnePolicy'
    <3>1. ASSUME NEW i \in Ids, Titled(i, store'.spec.title), store.id # None
          PROVE  i = store.id
      <4>1. Upto(order, policies[i].title, store.spec.title)
        BY <2>1, <3>1 DEF TitleInv, PoliciesInOrder, Titled
      <4>2. store.spec.title = store'.spec.title
        BY <2>2, <2>3, <3>1, <4>1, UptoTitle DEF Titled
      <4>3. QED
        BY <2>1, <3>1, <4>2 DEF TitleInv, OnePolicy
    <3>2. QED
      BY <1>2, <2>1, <2>4, <3>1 DEF TitleInv, OnePolicy
  <2>9. IdsKept' /\ SearchFinds' /\ IdToCome'
    BY <1>1, <1>2, <2>1 DEF TitleInv, IdsKept, SearchFinds, IdToCome
  <2>10. QED
    BY <1>3, <2>6, <2>7, <2>8, <2>9 DEF TitleInv
<1>6. CASE UserDelete
  <2>1. /\ store \in Object /\ store # None
        /\ \/ store' = None
           \/ store' # None /\ store'.id = store.id /\ store'.spec = store.spec
    <3>1. store \in Object /\ store # None
      BY <1>6, ObjectFields DEF UserDelete, TypeOK
    <3>2. [store EXCEPT !.deleting = TRUE].spec = store.spec
      BY <3>1 DEF Object
    <3>3. QED
      BY <1>6, <3>1, <3>2, ObjectUpdates DEF UserDelete, Put, Deleted
  <2>2. \A o \in PolicyCopies' : \E p \in PolicyCopies :
          p.id = o.id /\ p.spec.title = o.spec.title
    BY <1>1, <2>1 DEF PolicyCopies
  <2>3. FewerTitles
    BY <1>1 DEF FewerTitles
  <2>4. PoliciesInOrder(order)' /\ OnePolicy'
    BY <2>2, <2>3, Shrink DEF TitleInv
  <2>5. CopiesInOrder(order)' /\ IdsKept' /\ SearchFinds' /\ IdToCome'
    BY <1>1, <1>2, <2>1
    DEF TitleInv, CopiesInOrder, IdsKept, SearchFinds, IdToCome, Upto
  <2>6. QED
    BY <1>3, <2>4, <2>5 DEF TitleInv
<1>7. QED
  BY <1>4, <1>5, <1>6 DEF User

LEMMA StepTitles ==
  ASSUME NEW order, Renaming(order), "search" \notin FaultKinds,
         TypeOK, LeakInv, TitleInv(order), [Next]_vars
  PROVE  TitleInv(order)'
<1>1. TypeOK'
  BY StepType
<1>2. CASE UNCHANGED vars \/ Resync \/ Others
  BY <1>2, AsideTitles
  DEF vars, Resync, Others, ConditionSync, ConditionReleased, cluster, newRelic
<1>3. CASE PolicySync \/ Crash
  BY <1>3, SyncTitles DEF PolicySync, Crash, cluster, newRelic
<1>4. CASE Call
  BY <1>1, <1>4, SearchTitles, CreateTitles, UpdateTitles, ConditionTitles,
     LoopTitles, ChannelTitles, SaveTitles, DeleteTitles, ReleaseTitles DEF Call
<1>5. QED
  BY <1>1, <1>2, <1>3, <1>4, UserTitles, ReconcileTitles DEF Next

\* When no search fails and no policy is renamed back, New Relic never holds two
\* policies of one title: what was created and whose answer was lost is found by
\* its title, also by a worker whose copy is older than the id that was recorded,
\* and the title an update gives is one that no other policy ever had.
THEOREM NoneTwice ==
  ASSUME NEW order, Renaming(order), "search" \notin FaultKinds
  PROVE  Spec => []NoDuplicatePolicies
<1>1. TypeOK /\ LeakInv /\ TitleInv(order) /\ [Next]_vars => TitleInv(order)'
  BY StepTitles
<1>2. Init => TitleInv(order)
  BY InitTitles
<1>3. TitleInv(order) => NoDuplicatePolicies
  BY DEF TitleInv
<1>4. QED
  BY <1>1, <1>2, <1>3, TypeCorrect, LeakInvariant, PTL DEF Spec
=============================================================================
