----------------------- MODULE PolicyControllerProofs -----------------------
(* What is proved about the legacy Policy controller composed with the     *)
(* controllers of its condition resources, for every set of policies,      *)
(* conditions, names and ids, and every choice of faults.  The steps of    *)
(* the condition controllers are ConditionController's, and so are their   *)
(* proofs.                                                                 *)
EXTENDS PolicyController, SequenceTheorems, WellFoundedInduction, TLAPS

P == INSTANCE ConditionClaimsProofs

SomeName == Conditions \cup {None}

-----------------------------------------------------------------------------
(* ConditionController, as this module and as its proofs see it.           *)

LEMMA SameObjects ==
  C!Object = P!Object /\ C!Shown = P!Shown /\ C!AllFaults = P!AllFaults
BY DEF C!Object, P!Object, C!Shown, P!Shown, C!AllFaults, P!AllFaults

\* What the proofs of ConditionController assume of the constants.
LEMMA Assumed ==
  /\ KindOf \in [Conditions -> Kinds]
  /\ DOMAIN NameOf = Specs
  /\ SpecsFor \in [Conditions -> SUBSET Specs]
  /\ Edits \subseteq Specs \X Specs
  /\ None \notin Conditions \cup Specs \cup Ids
  /\ None \notin P!Object \cup P!Shown
  /\ FaultKinds \subseteq P!AllFaults
  /\ MaxFaults \in Nat
  /\ MaxUserOps \in Nat
BY ConstantsAssumption, SameObjects DEF NameOf, SpecsFor, Edits

LEMMA SameType == C!TypeOK <=> P!TypeOK
BY DEF C!TypeOK, P!TypeOK, C!Busy, P!Busy, C!Idle, P!Idle, C!Object, P!Object,
       C!Steps, P!Steps

LEMMA SameInit == C!Init <=> P!Init
BY DEF C!Init, P!Init, C!Idle, P!Idle

LEMMA SameLeak == C!LeakInv <=> P!LeakInv
BY DEF C!LeakInv, P!LeakInv, C!CacheCoherent, P!CacheCoherent,
       C!WorkerCoherent, P!WorkerCoherent, C!WorkerPhases, P!WorkerPhases,
       C!FinalizerKept, P!FinalizerKept, C!IdsUsed, P!IdsUsed

LEMMA SameManager ==
  ASSUME NEW c
  PROVE  (C!Crash <=> P!Crash) /\ (C!InformerSync(c) <=> P!InformerSync(c))
BY DEF C!Crash, P!Crash, C!Fault, P!Fault, C!Idle, P!Idle, C!cluster,
       P!cluster, C!newRelic, P!newRelic, C!InformerSync, P!InformerSync

LEMMA SameReconcile ==
  ASSUME NEW k, NEW c PROVE C!Reconcile(k, c) <=> P!Reconcile(k, c)
BY DEF C!Reconcile, P!Reconcile, C!ReconcileFails, P!ReconcileFails,
       C!ReconcileNothing, P!ReconcileNothing, C!ReconcileDeletion,
       P!ReconcileDeletion, C!ReconcileSpec, P!ReconcileSpec, C!Ready, P!Ready,
       C!NothingToDo, P!NothingToDo, C!Begin, P!Begin, C!Prepared, P!Prepared,
       C!Fault, P!Fault, C!cluster, P!cluster, C!newRelic, P!newRelic

LEMMA SameSearch ==
  ASSUME NEW k PROVE C!Search(k) <=> P!Search(k)
BY DEF C!Search, P!Search, C!SameName, P!SameName, C!GoOn, P!GoOn, C!Adopt,
       P!Adopt, C!Fault, P!Fault, C!cluster, P!cluster, C!newRelic, P!newRelic

LEMMA SameWrite ==
  ASSUME NEW k
  PROVE  /\ C!UpdateCondition(k) <=> P!UpdateCondition(k)
         /\ C!CreateCondition(k) <=> P!CreateCondition(k)
BY DEF C!UpdateCondition, P!UpdateCondition, C!CreateCondition,
       P!CreateCondition, C!Applied, P!Applied, C!NewCondition, P!NewCondition,
       C!FreshId, P!FreshId, C!GoOn, P!GoOn, C!Fault, P!Fault, C!cluster,
       P!cluster, C!newRelic, P!newRelic

LEMMA SameSave ==
  ASSUME NEW k
  PROVE  /\ C!Save(k) <=> P!Save(k)
         /\ C!Release(k) <=> P!Release(k)
BY DEF C!Save, P!Save, C!Release, P!Release, C!Conflict, P!Conflict,
       C!Put, P!Put, C!Return, P!Return, C!Fail, P!Fail, C!Idle, P!Idle,
       C!Fault, P!Fault, C!cluster, P!cluster, C!newRelic, P!newRelic

LEMMA SameDelete ==
  ASSUME NEW k PROVE C!DeleteCondition(k) <=> P!DeleteCondition(k)
BY DEF C!DeleteCondition, P!DeleteCondition, C!AfterDelete, P!AfterDelete,
       C!Tolerated, P!Tolerated, C!GoOn, P!GoOn, C!Fail, P!Fail, C!Idle,
       P!Idle, C!Fault, P!Fault, C!cluster, P!cluster

LEMMA SameEnds ==
  ASSUME NEW k
  PROVE  /\ C!Return(k) <=> P!Return(k)
         /\ \A o : C!GoOn(k, "save", o) <=> P!GoOn(k, "save", o)
         /\ \A c, o : C!Put(c, o) <=> P!Put(c, o)
BY DEF C!Return, P!Return, C!Idle, P!Idle, C!GoOn, P!GoOn, C!Put, P!Put

-----------------------------------------------------------------------------
(* The model's operators on policies and resources.                        *)

LEMMA PolicyFields ==
  ASSUME NEW p \in Policy
  PROVE  /\ p.title \in Titles
         /\ p.conditions \in Seq(Entry)
         /\ \A i \in DOMAIN p.conditions : p.conditions[i] \in Entry
         /\ DOMAIN p.conditions = 1 .. Len(p.conditions)
         /\ Len(p.conditions) \in Nat
<1>1. p.title \in Titles /\ p.conditions \in Seq(Entry)
  BY DEF Policy
<1>2. QED
  BY <1>1, LenProperties, ElementOfSeq

LEMMA ListedType ==
  ASSUME NEW p \in Policy \cup {Nothing}
  PROVE  Listed(p) \subseteq Entry
<1>1. CASE p \in Policy
  BY <1>1, PolicyFields DEF Listed
<1>2. CASE p = Nothing
  <2>1. p.conditions = << >>
    BY <1>2 DEF Nothing
  <2>2. DOMAIN p.conditions = {}
    BY <2>1
  <2>3. QED
    BY <2>2 DEF Listed
<1>3. QED
  BY <1>1, <1>2

\* What a user writes, with names for its conditions' resources, is a policy.
LEMMA NamedType ==
  ASSUME NEW p \in Plain, NEW name,
         \A i \in DOMAIN p.conditions : name[i] \in SomeName
  PROVE  Named(p, name) \in Policy
<1> DEFINE seq == p.conditions
           new == [i \in DOMAIN seq |-> [name |-> name[i], spec |-> seq[i]]]
<1>1. seq \in Seq(ConditionSpecs) /\ p.title \in Titles
  BY DEF Plain
<1>2. DOMAIN seq = 1 .. Len(seq) /\ Len(seq) \in Nat
      /\ \A i \in 1 .. Len(seq) : seq[i] \in ConditionSpecs
  BY <1>1, LenProperties, ElementOfSeq
<1>3. \A i \in 1 .. Len(seq) : [name |-> name[i], spec |-> seq[i]] \in Entry
  BY <1>2 DEF Entry, SomeName
<1>4. new \in [1 .. Len(seq) -> Entry]
  BY <1>2, <1>3
<1>5. new \in Seq(Entry)
  <2>1. Seq(Entry) = UNION {[1 .. n -> Entry] : n \in Nat}
    BY SeqDef
  <2>2. [1 .. Len(seq) -> Entry] \in {[1 .. n -> Entry] : n \in Nat}
    BY <1>2
  <2> HIDE DEF new
  <2>3. QED
    BY <1>4, <2>1, <2>2
<1>6. Named(p, name) = [p EXCEPT !.conditions = new]
  BY DEF Named
<1>7. QED
  BY <1>1, <1>5, <1>6 DEF Policy, Plain

\* Giving a condition the name of its resource changes nothing but names.
LEMMA RenamedType ==
  ASSUME NEW p \in Policy, NEW k \in DOMAIN p.conditions, NEW n \in SomeName
  PROVE  LET q == [p EXCEPT !.conditions[k].name = n] IN
         q \in Policy /\ WithoutNames(q) = WithoutNames(p)
<1> DEFINE seq == p.conditions
           e   == [seq[k] EXCEPT !.name = n]
           new == [seq EXCEPT ![k] = e]
           q   == [p EXCEPT !.conditions[k].name = n]
<1>1. seq \in Seq(Entry) /\ seq[k] \in Entry /\ k \in 1 .. Len(seq)
      /\ DOMAIN seq = 1 .. Len(seq)
  BY PolicyFields
<1>2. e \in Entry /\ e.spec = seq[k].spec
  BY <1>1 DEF Entry, SomeName
<1>3. new \in Seq(Entry)
  BY <1>1, <1>2, ExceptSeq
<1>4. DOMAIN new = DOMAIN seq
  OBVIOUS
<1>5. \A i \in DOMAIN seq : new[i].spec = seq[i].spec
  BY <1>2
<1>6. q = [p EXCEPT !.conditions = new]
  BY DEF Policy
<1>7. q \in Policy /\ q.conditions = new
  BY <1>3, <1>6 DEF Policy
<1>8. [i \in DOMAIN new |-> new[i].spec] = [i \in DOMAIN seq |-> seq[i].spec]
  BY <1>4, <1>5
<1>9. WithoutNames(q) = WithoutNames(p)
  <2>1. WithoutNames(q) = [q EXCEPT !.conditions = [i \in DOMAIN new |-> new[i].spec]]
    BY <1>7 DEF WithoutNames
  <2>2. WithoutNames(p) = [p EXCEPT !.conditions = [i \in DOMAIN seq |-> seq[i].spec]]
    BY DEF WithoutNames
  <2>3. \A c : [[p EXCEPT !.conditions = new] EXCEPT !.conditions = c]
                 = [p EXCEPT !.conditions = c]
    BY DEF Policy
  <2>4. QED
    BY <1>6, <1>8, <2>1, <2>2, <2>3
<1>10. QED
  BY <1>7, <1>9

LEMMA ObjectFields ==
  ASSUME NEW o \in Object
  PROVE  /\ o # None
         /\ o.spec \in Policy /\ o.deleting \in BOOLEAN /\ o.finalizer \in BOOLEAN
         /\ o.id \in PolicyIds \cup {None} /\ o.applied \in Policy \cup {Nothing}
         /\ [o EXCEPT !.finalizer = TRUE] \in Object
         /\ [o EXCEPT !.deleting = TRUE] \in Object
         /\ \A s \in Policy : [o EXCEPT !.spec = s] \in Object
         /\ \A i \in PolicyIds : [o EXCEPT !.id = i] \in Object
         /\ [o EXCEPT !.applied = o.spec] \in Object
BY ConstantsAssumption DEF Object

\* What the others keep of a resource when one field of it is written.
LEMMA ObjectUpdates ==
  ASSUME NEW o \in Object
  PROVE  /\ LET q == [o EXCEPT !.finalizer = TRUE] IN
            /\ q.spec = o.spec /\ q.deleting = o.deleting /\ q.id = o.id
            /\ q.applied = o.applied /\ q.finalizer
         /\ LET q == [o EXCEPT !.deleting = TRUE] IN
            /\ q.finalizer = o.finalizer /\ q.id = o.id
         /\ \A s : LET q == [o EXCEPT !.spec = s] IN
            /\ q.deleting = o.deleting /\ q.id = o.id /\ q.finalizer = o.finalizer
            /\ q.spec = s
         /\ \A i : LET q == [o EXCEPT !.id = i] IN
            /\ q.deleting = o.deleting /\ q.spec = o.spec /\ q.finalizer = o.finalizer
            /\ q.id = i
         /\ LET q == [o EXCEPT !.applied = o.spec] IN
            /\ q.spec = o.spec /\ q.deleting = o.deleting /\ q.id = o.id
            /\ q.finalizer = o.finalizer
BY DEF Object

\* The Spec that a condition's resource gets, once the policy has an id.
LEMMA InheritedType ==
  ASSUME NEW s \in ConditionSpecs, NEW i \in PolicyIds
  PROVE  [spec |-> s, policy |-> i] \in Specs
BY DEF Specs

Pcs   == {"search", "create", "update", "conditions", "stragglers", "save",
          "deleteConditions", "delete", "release"}
Modes == {"create", "update", "delete"}

LEMMA RunBusy ==
  ASSUME TypeOK, run.pc # "idle"
  PROVE  /\ run \in Busy
         /\ run.pc \in Pcs
         /\ run.mode \in Modes
         /\ run.object \in Object
         /\ run.rev \in Nat
         /\ run.left \in SUBSET Entry
<1>1. run \in Busy
  BY DEF TypeOK, Idle
<1>2. QED
  BY <1>1 DEF Busy, Pcs, Modes

LEMMA AtType ==
  ASSUME NEW step \in Pcs, NEW mode \in Modes, NEW o \in Object, NEW rev \in Nat
  PROVE  /\ At(step, mode, o, rev) \in Busy
         /\ At(step, mode, o, rev).pc = step
         /\ At(step, mode, o, rev).object = o
         /\ At(step, mode, o, rev).rev = rev
<1>1. Listed(o.applied) \subseteq Entry
  BY ObjectFields, ListedType
<1>2. At(step, mode, o, rev).left \in SUBSET Entry
  BY <1>1 DEF At
<1>3. At(step, mode, o, rev).next \in Nat
  BY DEF At
<1>4. QED
  BY <1>2, <1>3 DEF At, Busy, Pcs, Modes

LEMMA NextStep ==
  ASSUME NEW o
  PROVE  /\ AtConditions(o) \in {"save", "conditions"}
         /\ AtUpdate(o) \in {"save", "conditions", "update"}
BY DEF AtConditions, AtUpdate

\* A set of numbers that is not empty has a least one.
LEMMA LeastOne ==
  ASSUME NEW S \in SUBSET Nat, S # {}
  PROVE  \E i \in S : \A j \in S : i <= j
<1>1. PICK i \in S : \A j \in S : <<j, i>> \notin OpToRel(<, Nat)
  BY NatLessThanWellFounded, WFMin
<1>2. \A j, l \in Nat : l < j => <<l, j>> \in OpToRel(<, Nat)
  BY DEF OpToRel
<1>3. \A j \in S : i \in Nat /\ j \in Nat /\ ~(j < i)
  BY <1>1, <1>2
<1>4. QED
  BY <1>3

\* The resource of a condition is one that the spec or the status names.
LEMMA ResourceOfType ==
  ASSUME NEW e \in Entry, NEW applied \in Policy \cup {Nothing}
  PROVE  ResourceOf(e, applied) \in SomeName
<1> DEFINE seq  == applied.conditions
           same == {i \in DOMAIN seq : TitleOf[seq[i].spec] = TitleOf[e.spec]}
<1>1. CASE e.name # None \/ same = {}
  BY <1>1 DEF ResourceOf, Entry, SomeName
<1>2. CASE e.name = None /\ same # {}
  <2>1. applied \in Policy
    <3>1. DOMAIN Nothing.conditions = {}
      BY DEF Nothing
    <3>2. QED
      BY <1>2, <3>1
  <2>2. \A i \in DOMAIN seq : i \in Nat /\ seq[i] \in Entry
    BY <2>1, PolicyFields
  <2>3. \E i \in same : \A j \in same : i <= j
    <3>1. same \subseteq Nat /\ same # {}
      BY <1>2, <2>2
    <3> HIDE DEF same
    <3>2. QED
      BY <3>1, LeastOne
  <2>4. QED
    BY <1>2, <2>2, <2>3 DEF ResourceOf, Entry, SomeName
<1>3. QED
  BY <1>1, <1>2

-----------------------------------------------------------------------------
(* The steps, as the condition resources and their controllers see them.   *)

LEMMA CurrentType ==
  ASSUME TypeOK, Step("conditions"), InLoop
  PROVE  /\ run.pc # "idle"
         /\ run.object \in Object
         /\ Current \in Entry
         /\ Current.spec \in ConditionSpecs /\ Current.name \in SomeName
         /\ ResourceOf(Current, run.object.applied) \in SomeName
<1>1. run.pc # "idle" /\ run.object \in Object
  BY RunBusy DEF Step
<1>2. Current \in Entry
  BY <1>1, ObjectFields, PolicyFields DEF InLoop, Current
<1>3. QED
  BY <1>1, <1>2, ObjectFields, ResourceOfType DEF Entry, SomeName

\* A step of ConditionController that is no user's.
OfControllers == [P!Next]_(P!vars) /\ userOps' = userOps

\* The policy's worker writes a condition resource: a new one, or one that is
\* there and is as the worker knows it, which it keeps being deleted.
Handed(c, o) ==
  /\ P!Put(c, o)
  /\ UNCHANGED <<cache, queue, worker, nr, used, userOps>>
  /\ faults' \in Nat
  /\ run' # run
  /\ \/ revision[c] = 0 /\ o # None /\ o.id = None
     \/ /\ store[c] # None
        /\ o # None => /\ o.id = store[c].id
                       /\ o.finalizer = store[c].finalizer
                       /\ store[c].deleting => o.deleting

ConditionSide ==
  \/ OfControllers
  \/ P!Withheld
  \/ \E c \in Conditions, o \in P!Object \cup {None} : Handed(c, o)

LEMMA Quiet ==
  ASSUME P!TypeOK, UNCHANGED <<cluster, cache, worker, newRelic>>,
         queue' \subseteq Conditions, faults' \in Nat, userOps' \in Nat
  PROVE  P!Withheld
BY DEF P!Withheld, P!TypeOK, cluster, newRelic

LEMMA Typed ==
  ASSUME TypeOK
  PROVE  /\ P!TypeOK
         /\ queue \subseteq Conditions
         /\ faults \in Nat /\ userOps \in Nat
         /\ \A kind : C!Fault(kind) => faults' \in Nat
BY SameType DEF TypeOK, P!TypeOK, C!Fault

LEMMA OutsideSide ==
  ASSUME TypeOK, User \/ PolicySync \/ Resync \/ Reconcile
  PROVE  P!Withheld
<1>1. CASE User
  BY <1>1, Typed, Quiet
  DEF User, UserCreate, UserEdit, UserDelete, UserOp, ofConditions
<1>2. CASE PolicySync
  BY <1>2, Typed, Quiet DEF PolicySync, ofConditions
<1>3. CASE Resync
  BY <1>3, Typed, Quiet DEF Resync
<1>4. CASE Reconcile
  BY <1>4, Typed, Quiet
  DEF Reconcile, ReconcileFails, ReconcileNothing, ReconcileDeletion,
      ReconcileSpec, Ready, Begin, ofConditions
<1>5. QED
  BY <1>1, <1>2, <1>3, <1>4

LEMMA CallSide ==
  ASSUME TypeOK,
         \/ Search \/ CreatePolicy \/ UpdatePolicy \/ EndConditions \/ EndDeletes
         \/ Save \/ Release
  PROVE  P!Withheld
<1>1. UNCHANGED <<ofConditions, userOps>>
  BY DEF Search, CreatePolicy, UpdatePolicy, EndConditions, EndDeletes, Save,
         Release, Step
<1>2. faults' \in Nat
  BY Typed DEF Search, CreatePolicy, UpdatePolicy, EndConditions, EndDeletes,
               Save, Release
<1>3. QED
  BY <1>1, <1>2, Typed, Quiet DEF ofConditions

LEMMA DeletePolicySide ==
  ASSUME TypeOK, DeletePolicy PROVE P!Withheld
<1>1. /\ UNCHANGED <<cluster, cache, queue, worker, used, userOps>>
      /\ faults' \in Nat
  BY Typed DEF DeletePolicy, Step
<1>2. CASE UNCHANGED nr
  BY <1>1, <1>2, Typed, Quiet DEF newRelic
<1>3. CASE DropPolicy(run.object.id)
  <2>1. /\ nr' \in [Ids -> Specs \cup {None}]
        /\ \A i \in Ids : nr'[i] \in {nr[i], None}
    BY <1>3, Typed DEF DropPolicy, P!TypeOK
  <2>2. QED
    BY <1>1, <2>1, Typed DEF P!Withheld, P!TypeOK, cluster
<1>4. QED
  BY <1>2, <1>3 DEF DeletePolicy

LEMMA ControllersSide ==
  ASSUME TypeOK, ConditionControllers \/ Crash
  PROVE  OfControllers \/ P!Withheld
<1>1. CASE Crash
  BY <1>1, SameManager DEF Crash, OfControllers, P!Next, P!Crash
<1>2. ASSUME NEW c \in Conditions, C!InformerSync(c) PROVE OfControllers
  BY <1>2, SameManager DEF OfControllers, P!Next, P!Informer, P!InformerSync
<1>3. ASSUME NEW k \in Kinds, NEW c \in Conditions, C!Reconcile(k, c) PROVE OfControllers
  <2>1. userOps' = userOps
    BY <1>3 DEF C!Reconcile, C!ReconcileFails, C!ReconcileNothing,
                C!ReconcileDeletion, C!ReconcileSpec, C!Begin
  <2>2. QED
    BY <1>3, <2>1, SameReconcile DEF OfControllers, P!Next
<1>4. ASSUME NEW k \in Kinds, P!Call(k) PROVE OfControllers
  <2>1. userOps' = userOps
    BY <1>4 DEF P!Call, P!Search, P!UpdateCondition, P!CreateCondition, P!Save,
                P!DeleteCondition, P!Release
  <2>2. QED
    BY <1>4, <2>1 DEF OfControllers, P!Next
<1>5. ASSUME NEW k \in Kinds, worker[k].pc # "idle",
             \/ C!Return(k)
             \/ /\ worker[k].pc = "write"
                /\ C!GoOn(k, "save", worker[k].object)
                /\ UNCHANGED queue,
             UNCHANGED <<cluster, cache, newRelic, faults, userOps>>
      PROVE  P!Withheld
  <2>1. UNCHANGED <<P!cluster, cache, P!newRelic, faults, userOps>>
    BY <1>5 DEF P!cluster, cluster, P!newRelic, newRelic
  <2>2. faults' \in Nat
    BY <1>5, Typed DEF P!TypeOK
  <2>3. QED
    BY <1>5, <2>1, <2>2, SameEnds, Typed, Assumed, P!Refusal
<1>6. ASSUME NEW k \in Kinds, ConditionCall(k) PROVE OfControllers \/ P!Withheld
  <2>1. CASE C!Search(k) \/ C!DeleteCondition(k) \/ C!Release(k)
    BY <1>4, <2>1, SameSearch, SameDelete, SameSave DEF P!Call
  <2>2. CASE ConditionWrite(k)
    BY <1>4, <1>5, <2>2, SameWrite DEF ConditionWrite, P!Call
  <2>3. CASE ConditionSave(k)
    BY <1>4, <1>5, <2>3, SameSave DEF ConditionSave, P!Call
  <2>4. QED
    BY <1>6, <2>1, <2>2, <2>3 DEF ConditionCall
<1>7. QED
  BY <1>1, <1>2, <1>3, <1>6 DEF ConditionControllers

\* Renaming a condition of the local copy keeps all that a user wrote in it.
LEMMA ProcessedType ==
  ASSUME TypeOK, Step("conditions"), InLoop,
         NEW name \in SomeName, NEW error \in BOOLEAN, Processed(name, error)
  PROVE  /\ run' \in Busy /\ run' # run
         /\ run'.pc = run.pc
         /\ run'.rev = run.rev
         /\ run'.object.deleting = run.object.deleting
         /\ run'.object.finalizer = run.object.finalizer
         /\ run'.object.id = run.object.id
         /\ WithoutNames(run'.object.spec) = WithoutNames(run.object.spec)
<1> DEFINE k == run.next
           s == run.object.spec
           q == [s EXCEPT !.conditions[k].name = name]
           o == [run.object EXCEPT !.spec = q]
           d == run.done \cup ({name} \ {None})
           f == run.failed \/ error
<1>1. run \in Busy /\ run.object \in Object /\ s \in Policy
  BY CurrentType, RunBusy, ObjectFields
<1>2. run.done \in SUBSET Conditions /\ run.failed \in BOOLEAN /\ run.next \in Nat
  BY <1>1 DEF Busy
<1>3. q \in Policy /\ WithoutNames(q) = WithoutNames(s)
  BY <1>1, RenamedType DEF InLoop
<1>4. [run.object EXCEPT !.spec.conditions[k].name = name] = o
  BY <1>1 DEF Object
<1>5. run' = [run EXCEPT !.next = k + 1, !.object = o, !.done = d, !.failed = f]
  BY <1>1, <1>4 DEF Processed, Busy
<1> HIDE DEF q
<1>6. o \in Object
  BY <1>1, <1>3, ObjectFields
<1>7. /\ o.spec = q /\ o.deleting = run.object.deleting
      /\ o.finalizer = run.object.finalizer /\ o.id = run.object.id
  BY <1>1, ObjectUpdates
<1>8. d \in SUBSET Conditions /\ f \in BOOLEAN /\ k + 1 \in Nat /\ k + 1 # k
  BY <1>2 DEF SomeName
<1> HIDE DEF o, d, f
<1>9. run' \in Busy
  BY <1>1, <1>2, <1>5, <1>6, <1>8 DEF Busy
<1>10. run'.pc = run.pc /\ run'.rev = run.rev /\ run'.object = o /\ run'.next = k + 1
  BY <1>1, <1>5 DEF Busy
<1>11. QED
  BY <1>3, <1>7, <1>8, <1>9, <1>10

\* What the worker gives a condition's resource, once its policy has an id.
LEMMA InheritedObject ==
  ASSUME TypeOK, IdKnown, Step("conditions"), InLoop
  PROVE  /\ Inherited(Current) \in Specs
         /\ [spec |-> Inherited(Current), deleting |-> FALSE, finalizer |-> FALSE,
             id |-> None, applied |-> None] \in P!Object
<1>1. run.object.id \in PolicyIds
  BY CurrentType, ObjectFields DEF IdKnown, Step
<1>2. Inherited(Current) \in Specs
  BY <1>1, CurrentType, InheritedType DEF Inherited
<1>3. QED
  BY <1>2 DEF P!Object

LEMMA CreateSide ==
  ASSUME TypeOK, IdKnown, CreateCondition
  PROVE  /\ ConditionSide
         /\ \E name \in SomeName, error \in BOOLEAN : Processed(name, error)
<1>1. Step("conditions") /\ InLoop
  BY DEF CreateCondition
<1>2. PICK c \in Conditions :
        /\ revision[c] = 0
        /\ \/ NewResource(c, Current) /\ Processed(c, FALSE) /\ UNCHANGED faults
           \/ /\ Processed(Current.name, TRUE) /\ UNCHANGED cluster
              /\ UNCHANGED faults \/ C!Fault("save")
  <2> DEFINE c == CHOOSE c \in Unused(TypeOf[Current.spec]) : TRUE
  <2>1. c \in Unused(TypeOf[Current.spec])
    BY DEF CreateCondition
  <2>2. c \in Conditions /\ revision[c] = 0
    BY <2>1 DEF Unused
  <2>3. \/ NewResource(c, Current) /\ Processed(c, FALSE) /\ UNCHANGED faults
        \/ /\ policies[run.object.id] = None
           /\ Processed(Current.name, TRUE)
           /\ UNCHANGED <<cluster, faults>>
        \/ C!Fault("save") /\ Processed(Current.name, TRUE) /\ UNCHANGED cluster
    BY DEF CreateCondition
  <2> HIDE DEF c
  <2>4. QED
    BY <2>2, <2>3
<1>3. \E name \in SomeName, error \in BOOLEAN : Processed(name, error)
  BY <1>1, <1>2, CurrentType DEF SomeName
<1>4. UNCHANGED <<cache, queue, worker, newRelic, userOps>> /\ faults' \in Nat
  BY <1>2, Typed DEF CreateCondition, Step
<1>5. CASE UNCHANGED cluster
  BY <1>3, <1>4, <1>5, Typed, Quiet DEF ConditionSide
<1>6. CASE NewResource(c, Current)
  <2> DEFINE o == [spec |-> Inherited(Current), deleting |-> FALSE,
                   finalizer |-> FALSE, id |-> None, applied |-> None]
  <2>1. o \in P!Object
    BY <1>1, InheritedObject
  <2>2. P!Put(c, o)
    BY <1>6, SameEnds DEF NewResource
  <2>3. o # None /\ o.id = None
    BY <2>1, Assumed
  <2> HIDE DEF o
  <2>4. run' # run
    BY <1>1, <1>3, ProcessedType
  <2>5. Handed(c, o)
    BY <1>2, <1>4, <2>2, <2>3, <2>4 DEF Handed, newRelic
  <2>6. QED
    BY <1>3, <2>1, <2>5 DEF ConditionSide
<1>7. QED
  BY <1>2, <1>3, <1>5, <1>6

\* A resource that is found, as the cache has it.
LEMMA RetrievedType ==
  ASSUME TypeOK, NEW e, e.name \in SomeName, Retrieved(e) # None
  PROVE  /\ e.name \in Conditions
         /\ Retrieved(e) = cache[e.name].object
         /\ Retrieved(e) \in P!Object
BY Typed DEF Retrieved, SomeName, P!TypeOK

LEMMA UpdateSide ==
  ASSUME TypeOK, Inv, UpdateCondition
  PROVE  /\ ConditionSide
         /\ \E name \in SomeName, error \in BOOLEAN : Processed(name, error)
<1> DEFINE c   == ResourceOf(Current, run.object.applied)
           e   == [Current EXCEPT !.name = c]
           old == Retrieved(e)
           new == [old EXCEPT !.spec = Inherited(Current)]
<1>1. Step("conditions") /\ InLoop
  BY DEF UpdateCondition
<1>2. c \in SomeName /\ Current \in Entry
  BY <1>1, CurrentType
<1>3. e.name = c
  BY <1>2 DEF Entry
<1>4. /\ Processed(c, FALSE) \/ Processed(c, TRUE)
      /\ UNCHANGED faults \/ C!Fault("save")
      /\ UNCHANGED <<cache, queue, worker, newRelic, userOps>>
      /\ \/ UNCHANGED cluster
         \/ /\ old # None /\ cache[c].rev = revision[c]
            /\ C!Put(c, new)
  BY DEF UpdateCondition, Step
<1>5. \E name \in SomeName, error \in BOOLEAN : Processed(name, error)
  BY <1>2, <1>4
<1>6. faults' \in Nat
  BY <1>4, Typed
<1>7. CASE UNCHANGED cluster
  BY <1>4, <1>5, <1>6, <1>7, Typed, Quiet DEF ConditionSide
<1>8. CASE /\ old # None /\ cache[c].rev = revision[c]
           /\ C!Put(c, new)
  <2> HIDE DEF e, c
  <2>1. c \in Conditions /\ old = cache[c].object /\ old \in P!Object
    BY <1>2, <1>3, <1>8, RetrievedType
  <2>2. old = store[c]
    BY <1>8, <2>1, SameLeak DEF Inv, P!LeakInv, P!CacheCoherent
  <2>3. Inherited(Current) \in Specs
    BY <1>1, InheritedObject DEF Inv, PolicyInv
  <2> HIDE DEF old
  <2>4. /\ new \in P!Object
        /\ new.id = old.id /\ new.finalizer = old.finalizer
        /\ new.deleting = old.deleting
    BY <2>1, <2>3 DEF P!Object
  <2>5. P!Put(c, new)
    BY <1>8, SameEnds
  <2>6. run' # run
    BY <1>1, <1>5, ProcessedType
  <2> HIDE DEF new
  <2>7. Handed(c, new)
    BY <1>4, <1>6, <1>8, <2>2, <2>4, <2>5, <2>6 DEF Handed, newRelic
  <2>8. QED
    BY <1>5, <2>1, <2>4, <2>7 DEF ConditionSide
<1>9. QED
  BY <1>4, <1>7, <1>8

\* A Delete of a resource that is there leaves it absent or being deleted.
LEMMA DeletedType ==
  ASSUME NEW r \in P!Object
  PROVE  /\ Deleted(r) \in P!Object \cup {None}
         /\ Deleted(r) # None => /\ Deleted(r).id = r.id
                                 /\ Deleted(r).finalizer = r.finalizer
                                 /\ Deleted(r).deleting
BY DEF Deleted, P!Object

\* A loop that deletes: each step takes one entry off its list, and either the
\* entry's resource is not there to stay or the loop has failed.
LEMMA DeletingStep ==
  ASSUME TypeOK, Written, DeleteCondition
  PROVE  /\ ConditionSide
         /\ run' \in Busy
         /\ run'.pc = run.pc /\ run'.rev = run.rev
         /\ run'.object = run.object
         /\ run.failed => run'.failed
         /\ \E e \in run.left : /\ run'.left = run.left \ {e}
                                /\ run'.failed \/ OnItsWayOut(e)'
<1>1. run.pc # "idle" /\ run \in Busy /\ run.left \in SUBSET Entry
  BY RunBusy DEF DeleteCondition
<1>2. PICK e \in run.left, error \in BOOLEAN :
        /\ run' = [run EXCEPT !.left = @ \ {e}, !.failed = @ \/ error]
        /\ \/ /\ ~error
              /\ Retrieved(e) # None /\ store[e.name] # None
              /\ IF Deleted(store[e.name]) = store[e.name] THEN UNCHANGED cluster
                 ELSE C!Put(e.name, Deleted(store[e.name]))
           \/ error /\ UNCHANGED cluster
        /\ UNCHANGED faults \/ C!Fault("delete")
  BY DEF DeleteCondition, Collected
<1>3. /\ run' \in Busy
      /\ run'.pc = run.pc /\ run'.rev = run.rev /\ run'.object = run.object
      /\ run'.left = run.left \ {e} /\ run'.failed = (run.failed \/ error)
  BY <1>1, <1>2 DEF Busy
<1>4. run' # run
  BY <1>2, <1>3
<1>5. UNCHANGED <<cache, queue, worker, newRelic, userOps>> /\ faults' \in Nat
  BY <1>2, Typed DEF DeleteCondition
<1>6. UNCHANGED cluster => ConditionSide
  BY <1>5, Typed, Quiet DEF ConditionSide
<1>7. CASE error /\ UNCHANGED cluster
  BY <1>2, <1>3, <1>6, <1>7
<1>8. CASE /\ Retrieved(e) # None /\ store[e.name] # None
           /\ IF Deleted(store[e.name]) = store[e.name] THEN UNCHANGED cluster
              ELSE C!Put(e.name, Deleted(store[e.name]))
  <2> DEFINE c == e.name
             r == store[c]
  <2>1. c \in Conditions
    BY <1>1, <1>8, RetrievedType DEF Entry, SomeName
  <2>2. c # None /\ r \in P!Object /\ revision[c] \in Nat /\ revision[c] > 0
    BY <1>8, <2>1, Assumed, Typed DEF P!TypeOK, Written
  <2>3. CASE Deleted(r) = r /\ UNCHANGED cluster
    <3>1. r.deleting
      BY <1>8, <2>2, <2>3, DeletedType
    <3>2. OnItsWayOut(e)'
      BY <2>2, <2>3, <3>1 DEF OnItsWayOut, Live, cluster
    <3>3. QED
      BY <1>3, <1>6, <2>3, <3>2
  <2>4. CASE C!Put(c, Deleted(r))
    <3> DEFINE o == Deleted(r)
    <3>1. /\ o \in P!Object \cup {None}
          /\ o # None => o.id = r.id /\ o.finalizer = r.finalizer /\ o.deleting
      BY <2>2, DeletedType
    <3>2. P!Put(c, o)
      BY <2>4, SameEnds
    <3>3. store'[c] = o /\ revision'[c] = revision[c] + 1
      BY <2>1, <3>2, Typed DEF P!Put, P!TypeOK
    <3>4. OnItsWayOut(e)'
      BY <2>2, <3>1, <3>3 DEF OnItsWayOut, Live
    <3> HIDE DEF o
    <3>5. Handed(c, o)
      BY <1>4, <1>5, <1>8, <3>1, <3>2 DEF Handed, newRelic
    <3>6. QED
      BY <1>3, <2>1, <3>1, <3>4, <3>5 DEF ConditionSide
  <2>5. QED
    BY <1>8, <2>3, <2>4
<1>9. QED
  BY <1>2, <1>7, <1>8

\* Every step is one of these for the condition resources and their controllers.
LEMMA StepSide ==
  ASSUME TypeOK, Inv, [Next]_vars PROVE ConditionSide
<1>1. CASE UNCHANGED vars
  <2>1. UNCHANGED <<ofConditions, faults, userOps>>
    BY <1>1 DEF vars
  <2>2. QED
    BY <2>1, Typed, Quiet DEF ofConditions, ConditionSide
<1>2. CASE Call
  BY <1>2, CallSide, CreateSide, UpdateSide, DeletingStep, DeletePolicySide
  DEF Call, Inv, PolicyInv, ConditionSide
<1>3. QED
  BY <1>1, <1>2, OutsideSide, ControllersSide DEF Next, ConditionSide

-----------------------------------------------------------------------------
(* What no step does to the condition resources.                           *)

LEMMA SideType ==
  ASSUME TypeOK, ConditionSide PROVE P!TypeOK'
<1>1. P!TypeOK
  BY Typed
<1>2. CASE OfControllers
  BY <1>1, <1>2, Assumed, P!StepType DEF OfControllers
<1>3. CASE P!Withheld
  BY <1>1, <1>3, Assumed, P!WithheldType
<1>4. ASSUME NEW c \in Conditions, NEW o \in P!Object \cup {None}, Handed(c, o)
      PROVE  P!TypeOK'
  <2>1. /\ P!Put(c, o) /\ UNCHANGED <<cache, queue, worker, nr, used>>
        /\ faults' \in Nat /\ userOps' \in Nat
    BY <1>1, <1>4 DEF Handed, P!TypeOK
  <2>2. QED
    BY <1>1, <2>1, Assumed, P!PutType
<1>5. QED
  BY <1>2, <1>3, <1>4 DEF ConditionSide

LEMMA SideLeak ==
  ASSUME TypeOK, C!LeakInv, ConditionSide PROVE P!LeakInv'
<1>1. P!TypeOK /\ P!LeakInv
  BY Typed, SameLeak
<1>2. CASE OfControllers
  BY <1>1, <1>2, Assumed, P!StepLeak DEF OfControllers
<1>3. CASE P!Withheld
  BY <1>1, <1>3, Assumed, P!WithheldLeak
<1>4. ASSUME NEW c \in Conditions, NEW o \in P!Object \cup {None}, Handed(c, o)
      PROVE  P!LeakInv'
  BY <1>1, <1>4, Assumed, P!PutLeak DEF Handed
<1>5. QED
  BY <1>2, <1>3, <1>4 DEF ConditionSide

\* Nothing comes back to life, and what is written has a revision.
LEMMA SideIntent ==
  ASSUME TypeOK, C!LeakInv, Written, ConditionSide, NEW c \in Conditions
  PROVE  /\ revision[c] > 0 /\ ~Live(c) => revision'[c] > 0 /\ ~Live(c)'
         /\ store'[c] # None => revision'[c] > 0
         /\ run' = run /\ store[c] # None =>
              IF store'[c] = None THEN store[c].deleting
              ELSE /\ store'[c].spec = store[c].spec
                   /\ store'[c].deleting = store[c].deleting
<1>1. P!TypeOK /\ P!LeakInv /\ revision[c] \in Nat
  BY Typed, SameLeak DEF P!TypeOK
<1>2. CASE OfControllers
  <2>1. /\ store[c] = None => store'[c] = None
        /\ store[c] # None =>
             IF store'[c] = None THEN store[c].deleting
             ELSE /\ store'[c].spec = store[c].spec
                  /\ store'[c].deleting = store[c].deleting
    BY <1>1, <1>2, Assumed, P!StepIntent DEF OfControllers
  <2>2. \/ store'[c] = store[c] /\ revision'[c] = revision[c]
        \/ revision'[c] = revision[c] + 1
    BY <1>1, <1>2, Assumed, P!Revisions DEF OfControllers
  <2>3. QED
    BY <1>1, <2>1, <2>2 DEF Live, Written
<1>3. CASE P!Withheld
  BY <1>3 DEF P!Withheld, Live, Written
<1>4. ASSUME NEW d \in Conditions, NEW o \in P!Object \cup {None}, Handed(d, o)
      PROVE  /\ revision[c] > 0 /\ ~Live(c) => revision'[c] > 0 /\ ~Live(c)'
             /\ store'[c] # None => revision'[c] > 0
             /\ run' # run
  <2>1. /\ store' = [store EXCEPT ![d] = o]
        /\ revision' = [revision EXCEPT ![d] = @ + 1]
        /\ run' # run
        /\ revision[d] = 0 \/ (store[d] # None /\ (o # None /\ store[d].deleting => o.deleting))
    BY <1>4 DEF Handed, P!Put
  <2>2. CASE c = d
    <3>1. store'[c] = o /\ revision'[c] = revision[c] + 1
      BY <1>1, <2>1, <2>2 DEF P!TypeOK
    <3>2. QED
      BY <1>1, <2>1, <2>2, <3>1 DEF Live
  <2>3. CASE c # d
    <3>1. store'[c] = store[c] /\ revision'[c] = revision[c]
      BY <1>1, <2>1, <2>3 DEF P!TypeOK
    <3>2. QED
      BY <2>1, <3>1 DEF Live, Written
  <2>4. QED
    BY <2>2, <2>3
<1>5. QED
  BY <1>2, <1>3, <1>4 DEF ConditionSide

LEMMA StayOnTheWayOut ==
  ASSUME TypeOK, C!LeakInv, Written, ConditionSide,
         NEW e \in Entry, OnItsWayOut(e)
  PROVE  OnItsWayOut(e)'
<1>1. e.name \in Conditions /\ e.name # None
  BY DEF OnItsWayOut, Entry
<1>2. QED
  BY <1>1, SideIntent DEF OnItsWayOut

-----------------------------------------------------------------------------
(* Type correctness of the policy, its worker and New Relic's policies.    *)

UpstreamType ==
  policies \in [PolicyIds -> Titles \cup {None}] /\ given \subseteq PolicyIds

OwnType ==
  /\ policy \in Versioned /\ copy \in Versioned
  /\ queued \in BOOLEAN /\ run \in Busy \cup {Idle} /\ UpstreamType

LEMMA TypeParts ==
  ASSUME TypeOK, Inv, [Next]_vars, OwnType' PROVE TypeOK'
<1>1. P!TypeOK'
  BY StepSide, SideType DEF Inv
<1>2. C!TypeOK'
  BY <1>1, SameType, PTL
<1>3. QED
  BY <1>2 DEF OwnType, UpstreamType, TypeOK

LEMMA PutPolicyType ==
  ASSUME TypeOK, NEW o \in Object \cup {None}, Put(o)
  PROVE  policy' \in Versioned /\ policy'.object = o /\ policy'.rev = policy.rev + 1
BY DEF TypeOK, Versioned, Put

LEMMA FoundType ==
  ASSUME TypeOK
  PROVE  /\ policy.object # None => policy.object \in Object
         /\ copy.object # None => copy.object \in Object
         /\ policy.rev \in Nat /\ copy.rev \in Nat
BY DEF TypeOK, Versioned

\* An edit keeps the names of at most the conditions that there were.
LEMMA EditType ==
  ASSUME TypeOK, UserEdit
  PROVE  \E s \in Policy : Put([policy.object EXCEPT !.spec = s])
<1>1. PICK edit \in PolicyEdits, keep \in BOOLEAN :
        Put([policy.object EXCEPT !.spec = Named(edit[2],
          [i \in DOMAIN edit[2].conditions |->
             IF keep /\ i \in DOMAIN policy.object.spec.conditions
             THEN policy.object.spec.conditions[i].name ELSE None])])
  BY DEF UserEdit
<1> DEFINE name == [i \in DOMAIN edit[2].conditions |->
             IF keep /\ i \in DOMAIN policy.object.spec.conditions
             THEN policy.object.spec.conditions[i].name ELSE None]
<1>2. edit[2] \in Plain
  BY ConstantsAssumption
<1>3. policy.object \in Object
  BY FoundType DEF UserEdit
<1>4. \A i \in DOMAIN policy.object.spec.conditions :
        policy.object.spec.conditions[i].name \in SomeName
  BY <1>3, ObjectFields, PolicyFields DEF Entry, SomeName
<1>5. \A i \in DOMAIN edit[2].conditions : name[i] \in SomeName
  BY <1>4 DEF SomeName
<1>6. Put([policy.object EXCEPT !.spec = Named(edit[2], name)])
  BY <1>1
<1> HIDE DEF name
<1>7. Named(edit[2], name) \in Policy
  BY <1>2, <1>5, NamedType
<1>8. QED
  BY <1>6, <1>7

\* What the users write is well formed, and keeps a recorded id with its
\* finalizer.
LEMMA UserWrites ==
  ASSUME TypeOK, User
  PROVE  /\ UNCHANGED <<copy, queued, run, upstream>>
         /\ userOps' # userOps
         /\ \E o \in Object \cup {None} :
              /\ Put(o)
              /\ o # None => \/ o.id = None
                             \/ /\ policy.object # None
                                /\ o.id = policy.object.id
                                /\ o.finalizer = policy.object.finalizer
              /\ o = None => policy.object # None /\ ~policy.object.finalizer
<1>1. UNCHANGED <<copy, queued, run, upstream>> /\ userOps' # userOps
  BY Typed DEF User, UserCreate, UserEdit, UserDelete, UserOp
<1>2. CASE UserCreate
  <2>1. PICK p \in Given :
          Put([spec |-> Named(p, [i \in DOMAIN p.conditions |-> None]),
               deleting |-> FALSE, finalizer |-> FALSE, id |-> None,
               applied |-> Nothing])
    BY <1>2 DEF UserCreate
  <2>2. Named(p, [i \in DOMAIN p.conditions |-> None]) \in Policy
    BY ConstantsAssumption, NamedType DEF SomeName
  <2> DEFINE o == [spec |-> Named(p, [i \in DOMAIN p.conditions |-> None]),
                   deleting |-> FALSE, finalizer |-> FALSE, id |-> None,
                   applied |-> Nothing]
  <2>3. o \in Object /\ o.id = None
    BY <2>2 DEF Object
  <2>4. o # None
    BY <2>3, ObjectFields
  <2>5. QED
    BY <1>1, <2>1, <2>3, <2>4
<1>3. CASE UserEdit
  <2>1. PICK s \in Policy : Put([policy.object EXCEPT !.spec = s])
    BY <1>3, EditType
  <2>2. policy.object # None /\ policy.object \in Object
    BY <1>3, FoundType DEF UserEdit
  <2> DEFINE o == [policy.object EXCEPT !.spec = s]
  <2>3. o \in Object
    BY <2>2, ObjectFields
  <2>4. o.id = policy.object.id /\ o.finalizer = policy.object.finalizer
    BY <2>2, ObjectUpdates
  <2>5. o # None
    BY <2>3, ObjectFields
  <2>6. QED
    BY <1>1, <2>1, <2>2, <2>3, <2>4, <2>5
<1>4. CASE UserDelete
  <2>1. policy.object # None /\ policy.object \in Object
    BY <1>4, FoundType DEF UserDelete
  <2> DEFINE o == [policy.object EXCEPT !.deleting = TRUE]
  <2>2. o \in Object /\ o.id = policy.object.id
        /\ o.finalizer = policy.object.finalizer
    BY <2>1, ObjectFields, ObjectUpdates
  <2>3. o # None
    BY <2>2, ObjectFields
  <2>4. CASE policy.object.finalizer
    BY <1>1, <1>4, <2>1, <2>2, <2>3, <2>4 DEF UserDelete, Deleted
  <2>5. CASE ~policy.object.finalizer
    BY <1>1, <1>4, <2>1, <2>5 DEF UserDelete, Deleted
  <2>6. QED
    BY <2>4, <2>5
<1>5. QED
  BY <1>2, <1>3, <1>4 DEF User

LEMMA OutsideType ==
  ASSUME TypeOK, User \/ PolicySync \/ Resync \/ Crash PROVE OwnType'
<1>1. CASE User
  <2>1. PICK o \in Object \cup {None} : Put(o)
    BY <1>1, UserWrites
  <2>2. policy' \in Versioned
    BY <2>1, PutPolicyType
  <2>3. QED
    BY <1>1, <2>2, UserWrites DEF TypeOK, OwnType, UpstreamType, upstream
<1>2. CASE PolicySync \/ Resync \/ Crash
  BY <1>2 DEF PolicySync, Resync, Crash, TypeOK, OwnType, UpstreamType, upstream
<1>3. QED
  BY <1>1, <1>2

\* A reconcile begins from the copy, with the finalizer if nothing is deleted.
LEMMA ReconcileBegins ==
  ASSUME TypeOK, Reconcile
  PROVE  /\ UNCHANGED <<policy, copy, upstream>>
         /\ queued' \in {queued, FALSE}
         /\ \/ run' = run
            \/ /\ copy.object \in Object /\ copy.object.deleting
               /\ copy.object.id # None
               /\ run' = At("deleteConditions", "delete", copy.object, copy.rev)
            \/ /\ copy.object \in Object /\ ~copy.object.deleting
               /\ \E step \in {"search", "update", "conditions", "save"},
                     mode \in Modes :
                    /\ step = "search" <=> copy.object.id = None
                    /\ run' = At(step, mode, [copy.object EXCEPT !.finalizer = TRUE],
                                 copy.rev)
<1>1. UNCHANGED <<policy, copy, upstream>> /\ queued' \in {queued, FALSE}
  BY DEF Reconcile, ReconcileFails, ReconcileNothing, ReconcileDeletion,
         ReconcileSpec, Ready, Begin
<1>2. CASE ReconcileFails \/ ReconcileNothing
  BY <1>1, <1>2 DEF ReconcileFails, ReconcileNothing
<1>3. ASSUME ~NothingToDo(copy.object) PROVE copy.object \in Object
  BY <1>3, FoundType DEF NothingToDo
<1>4. CASE ReconcileDeletion
  BY <1>1, <1>3, <1>4 DEF ReconcileDeletion, NothingToDo, Begin
<1>5. CASE ReconcileSpec
  <2> DEFINE o == [copy.object EXCEPT !.finalizer = TRUE]
  <2>1. copy.object \in Object /\ ~copy.object.deleting
    BY <1>3, <1>5 DEF ReconcileSpec
  <2>2. o.id = copy.object.id
    BY <2>1, ObjectUpdates
  <2>3. IF o.id = None THEN Begin("search", "create", o)
                       ELSE Begin(AtUpdate(o), "update", o)
    BY <1>5 DEF ReconcileSpec
  <2> HIDE DEF o
  <2>4. \E step \in {"search", "update", "conditions", "save"}, mode \in Modes :
          /\ step = "search" <=> copy.object.id = None
          /\ run' = At(step, mode, o, copy.rev)
    BY <2>2, <2>3, NextStep DEF Begin, Modes
  <2>5. QED
    BY <1>1, <2>1, <2>4 DEF o
<1>6. QED
  BY <1>2, <1>4, <1>5 DEF Reconcile

LEMMA ReconcileType ==
  ASSUME TypeOK, Reconcile PROVE OwnType'
<1>1. copy.rev \in Nat
  BY FoundType
<1>2. ASSUME copy.object \in Object
      PROVE  [copy.object EXCEPT !.finalizer = TRUE] \in Object
  BY <1>2, ObjectFields
<1>3. run' \in Busy \cup {Idle}
  <2>1. {"deleteConditions", "search", "update", "conditions", "save"} \subseteq Pcs
        /\ "delete" \in Modes
    BY DEF Pcs, Modes
  <2>2. CASE run' = run
    BY <2>2 DEF TypeOK
  <2>3. CASE /\ copy.object \in Object
             /\ run' = At("deleteConditions", "delete", copy.object, copy.rev)
    BY <1>1, <2>1, <2>3, AtType
  <2>4. CASE /\ copy.object \in Object
             /\ \E step \in {"search", "update", "conditions", "save"},
                   mode \in Modes :
                  run' = At(step, mode, [copy.object EXCEPT !.finalizer = TRUE],
                            copy.rev)
    BY <1>1, <1>2, <2>1, <2>4, AtType
  <2>5. QED
    BY <2>2, <2>3, <2>4, ReconcileBegins
<1>4. UNCHANGED <<policy, copy, policies, given>> /\ queued' \in BOOLEAN
  BY ReconcileBegins DEF upstream, TypeOK
<1>5. QED
  BY <1>3, <1>4 DEF OwnType, UpstreamType, TypeOK

\* A call of the policy's worker that leaves the policy and its copy alone.
LEMMA CallOwn ==
  ASSUME TypeOK, run' \in Busy \cup {Idle}, UpstreamType',
         queued' \in {queued, TRUE}, UNCHANGED <<policy, copy>>
  PROVE  OwnType'
BY DEF TypeOK, OwnType

LEMMA GoType ==
  ASSUME TypeOK, run.pc # "idle", NEW step \in Pcs, NEW mode \in Modes,
         NEW o \in Object, Go(step, mode, o)
  PROVE  /\ run' \in Busy /\ queued' = queued
         /\ run'.pc = step /\ run'.object = o /\ run'.rev = run.rev
BY RunBusy, AtType DEF Go

LEMMA NewPolicyType ==
  ASSUME TypeOK, NEW title \in Titles, NewPolicy(title)
  PROVE  /\ FreshId \in PolicyIds /\ UpstreamType'
         /\ \A i \in PolicyIds : policies[i] # None => policies'[i] # None
<1>1. FreshId \in PolicyIds
  BY DEF NewPolicy, FreshId, TypeOK
<1>2. QED
  BY <1>1, ConstantsAssumption DEF NewPolicy, TypeOK, UpstreamType

-----------------------------------------------------------------------------
(* The calls of a reconcile that deletes nothing.                          *)

Making == Pcs \ Deletion

\* They keep what the users wrote in the local copy, and the policy's id once
\* there is one, whatever they do to the conditions and to New Relic.
Kept ==
  /\ run' \in Busy
  /\ run'.pc \in Making
  /\ run'.rev = run.rev
  /\ WithoutNames(run'.object.spec) = WithoutNames(run.object.spec)
  /\ run'.object.deleting = run.object.deleting
  /\ run'.object.finalizer = run.object.finalizer
  /\ run'.pc \notin {"search", "create"} => run'.object.id # None

Made ==
  /\ run.pc \in Making
  /\ run' = Idle \/ Kept
  /\ UNCHANGED <<policy, copy>>
  /\ queued' \in {queued, TRUE}
  /\ UpstreamType'
  /\ \A i \in PolicyIds : policies[i] # None => policies'[i] # None

LEMMA MakingBusy ==
  ASSUME TypeOK, run.pc \in Making
  PROVE  run.pc # "idle" /\ run \in Busy /\ run.object \in Object /\ run.mode \in Modes
BY RunBusy DEF Making, Pcs

\* Calls after which the local copy is the same, but for the id.
LEMMA KeptGo ==
  ASSUME TypeOK, run.pc \in Making, NEW step \in Making, NEW mode \in Modes,
         NEW o, o = run.object \/ \E i \in PolicyIds : o = [run.object EXCEPT !.id = i],
         step \notin {"search", "create"} => o.id # None,
         Go(step, mode, o)
  PROVE  Kept /\ queued' = queued
<1>1. run.pc # "idle" /\ run.object \in Object
  BY MakingBusy
<1>2. ASSUME NEW i \in PolicyIds
      PROVE  LET q == [run.object EXCEPT !.id = i] IN
             /\ q \in Object
             /\ q.spec = run.object.spec /\ q.deleting = run.object.deleting
             /\ q.finalizer = run.object.finalizer
  BY <1>1 DEF Object
<1>3. /\ o \in Object
      /\ o.spec = run.object.spec /\ o.deleting = run.object.deleting
      /\ o.finalizer = run.object.finalizer
  BY <1>1, <1>2
<1>4. step \in Pcs
  BY DEF Making
<1>5. /\ run' \in Busy /\ queued' = queued
      /\ run'.pc = step /\ run'.object = o /\ run'.rev = run.rev
  BY <1>1, <1>3, <1>4, GoType
<1>6. QED
  BY <1>3, <1>5 DEF Kept

LEMMA MakingSteps ==
  /\ {"search", "create", "update", "conditions", "stragglers", "save"} \subseteq Making
  /\ \A o : AtConditions(o) \in Making /\ AtConditions(o) \notin {"search", "create"}
  /\ \A o : AtUpdate(o) \in Making /\ AtUpdate(o) \notin {"search", "create"}
  /\ {"create", "update"} \subseteq Modes
<1>1. {"search", "create", "update", "conditions", "stragglers", "save"} \subseteq Making
  BY DEF Making, Pcs, Deletion
<1>2. QED
  BY <1>1, NextStep DEF Modes

LEMMA UpstreamKept ==
  ASSUME TypeOK, UNCHANGED upstream
  PROVE  /\ UpstreamType'
         /\ \A i \in PolicyIds : policies[i] # None => policies'[i] # None
BY DEF TypeOK, UpstreamType, upstream

LEMMA SearchMade ==
  ASSUME TypeOK, Search PROVE Made
<1> DEFINE goOn(o) == IF o.id = None THEN Go("create", "create", o)
                                     ELSE Go(AtUpdate(o), "update", o)
<1>1. run.pc \in Making /\ UNCHANGED <<policy, copy, upstream>>
  BY MakingSteps DEF Search, Step
<1>2. goOn(run.object) \/ \E i \in PolicyIds : goOn([run.object EXCEPT !.id = i])
  BY DEF Search, Adopt
<1>3. ASSUME NEW o, goOn(o),
             o = run.object \/ \E i \in PolicyIds : o = [run.object EXCEPT !.id = i]
      PROVE  Kept /\ queued' = queued
  BY <1>1, <1>3, KeptGo, MakingSteps
<1>4. Kept /\ queued' = queued
  BY <1>2, <1>3
<1>5. QED
  BY <1>1, <1>4, UpstreamKept DEF Made

LEMMA PolicyCallMade ==
  ASSUME TypeOK, IdKnown, CreatePolicy \/ UpdatePolicy PROVE Made
<1>1. run.pc \in Making /\ UNCHANGED <<policy, copy>>
  BY MakingSteps DEF CreatePolicy, UpdatePolicy, Step
<1>2. run.object \in Object /\ run.object.spec.title \in Titles
  BY <1>1, MakingBusy, ObjectFields, PolicyFields
<1>3. CASE CreatePolicy
  <2>1. /\ UpstreamType'
        /\ \A i \in PolicyIds : policies[i] # None => policies'[i] # None
    BY <1>2, <1>3, NewPolicyType, UpstreamKept DEF CreatePolicy
  <2>2. CASE Fail
    BY <1>1, <2>1, <2>2 DEF Made, Fail
  <2>3. CASE /\ NewPolicy(run.object.spec.title)
             /\ Go("conditions", "create", [run.object EXCEPT !.id = FreshId])
    <3>1. FreshId \in PolicyIds
      BY <1>2, <2>3, NewPolicyType
    <3>2. [run.object EXCEPT !.id = FreshId].id # None
      BY <1>2, <3>1, ConstantsAssumption, ObjectUpdates
    <3>3. Kept /\ queued' = queued
      BY <1>1, <2>3, <3>1, <3>2, KeptGo, MakingSteps
    <3>4. QED
      BY <1>1, <2>1, <3>3 DEF Made
  <2>4. QED
    BY <1>3, <2>2, <2>3 DEF CreatePolicy
<1>4. CASE UpdatePolicy
  <2>1. /\ UpstreamType'
        /\ \A i \in PolicyIds : policies[i] # None => policies'[i] # None
    <3>1. given' = given /\ (policies' = policies \/
            policies' = [policies EXCEPT ![run.object.id] = run.object.spec.title])
      BY <1>4 DEF UpdatePolicy
    <3>2. QED
      BY <1>2, <3>1, ConstantsAssumption DEF TypeOK, UpstreamType
  <2>2. run.object.id # None
    BY <1>4 DEF UpdatePolicy, Step, IdKnown
  <2>3. Fail \/ Go(AtConditions(run.object), "update", run.object)
    BY <1>4 DEF UpdatePolicy
  <2>4. (run' = Idle /\ queued' = TRUE) \/ (Kept /\ queued' = queued)
    BY <1>1, <2>2, <2>3, KeptGo, MakingSteps DEF Fail
  <2>5. QED
    BY <1>1, <2>1, <2>4 DEF Made
<1>5. QED
  BY <1>3, <1>4

LEMMA ConditionCallMade ==
  ASSUME TypeOK, Inv, CreateCondition \/ UpdateCondition PROVE Made
<1>1. /\ Step("conditions") /\ InLoop
      /\ UNCHANGED <<policy, copy, queued, upstream>>
  BY DEF CreateCondition, UpdateCondition, Step
<1>2. PICK name \in SomeName, error \in BOOLEAN : Processed(name, error)
  BY CreateSide, UpdateSide DEF Inv, PolicyInv
<1>3. run.pc = "conditions" /\ run.object.id # None
  BY <1>1 DEF Step, Inv, PolicyInv, IdKnown
<1>4. Kept
  BY <1>1, <1>2, <1>3, ProcessedType, MakingSteps DEF Kept
<1>5. QED
  BY <1>1, <1>3, <1>4, MakingSteps, UpstreamKept DEF Made

LEMMA EndConditionsMade ==
  ASSUME TypeOK, IdKnown, EndConditions PROVE Made
<1>1. /\ run.pc = "conditions" /\ UNCHANGED <<policy, copy, queued, upstream>>
      /\ run.object.id # None
  BY DEF EndConditions, Step, IdKnown
<1>2. run \in Busy /\ run.object \in Object
  BY <1>1, RunBusy
<1>3. Stragglers \subseteq Listed(run.object.applied)
  BY DEF Stragglers, Listed
<1>4. Stragglers \subseteq Entry
  BY <1>2, <1>3, ObjectFields, ListedType
<1>5. /\ run' \in Busy /\ run'.pc = "stragglers"
      /\ run'.rev = run.rev /\ run'.object = run.object
  BY <1>2, <1>4 DEF EndConditions, Busy
<1>6. QED
  BY <1>1, <1>5, MakingSteps, UpstreamKept DEF Made, Kept

LEMMA StragglersMade ==
  ASSUME TypeOK, IdKnown, Written, run.pc = "stragglers",
         DeleteCondition \/ EndDeletes
  PROVE  Made
<1>1. /\ run.pc \in Making /\ UNCHANGED <<policy, copy, upstream>>
      /\ run.object.id # None
  BY MakingSteps DEF DeleteCondition, EndDeletes, IdKnown
<1>2. CASE DeleteCondition
  <2>1. Kept
    BY <1>1, <1>2, DeletingStep DEF Kept
  <2>2. QED
    BY <1>1, <1>2, <2>1, UpstreamKept DEF Made, DeleteCondition
<1>3. CASE EndDeletes
  <2>1. Fail \/ Go("save", run.mode, run.object)
    BY <1>3 DEF EndDeletes
  <2>2. (run' = Idle /\ queued' = TRUE) \/ (Kept /\ queued' = queued)
    BY <1>1, <2>1, KeptGo, MakingSteps, MakingBusy DEF Fail
  <2>3. QED
    BY <1>1, <2>2, UpstreamKept DEF Made
<1>4. QED
  BY <1>2, <1>3

-----------------------------------------------------------------------------
(* The calls of a reconcile that deletes the policy.                       *)

\* The worker goes on with its local copy as it is.
Onward(step) ==
  run' \in Busy /\ run'.pc = step /\ run'.rev = run.rev /\ run'.object = run.object

LEMMA EndDeletesStep ==
  ASSUME TypeOK, run.pc = "deleteConditions", EndDeletes
  PROVE  /\ UNCHANGED <<policy, copy, upstream>> /\ queued' \in {queued, TRUE}
         /\ run' = Idle \/ (Onward("delete") /\ run.left = {} /\ ~run.failed)
<1>1. run.object \in Object /\ run.mode \in Modes
  BY RunBusy
<1>2. Fail \/ (Go("delete", run.mode, run.object) /\ run.left = {} /\ ~run.failed)
  BY DEF EndDeletes
<1>3. "delete" \in Pcs
  BY DEF Pcs
<1>4. ASSUME Go("delete", run.mode, run.object)
      PROVE  Onward("delete") /\ queued' = queued
  BY <1>1, <1>3, <1>4, GoType DEF Onward
<1>5. QED
  BY <1>2, <1>4 DEF Fail, EndDeletes

LEMMA DeletePolicyStep ==
  ASSUME TypeOK, IdKnown, DeletePolicy
  PROVE  /\ UNCHANGED <<policy, copy>> /\ queued' \in {queued, TRUE}
         /\ UpstreamType'
         /\ UNCHANGED <<policies, nr>> \/ DropPolicy(run.object.id)
         /\ run.object.id \in PolicyIds
         /\ run' = Idle \/ (Onward("release") /\ policies'[run.object.id] = None)
<1> DEFINE i == run.object.id
<1>1. /\ run.pc = "delete" /\ UNCHANGED <<policy, copy, given>>
      /\ UNCHANGED <<policies, nr>> \/ DropPolicy(i)
  BY DEF DeletePolicy, Step
<1>2. run.object \in Object /\ i \in PolicyIds
  BY <1>1, RunBusy, ObjectFields DEF IdKnown
<1>3. UpstreamType'
  BY <1>1 DEF TypeOK, UpstreamType, DropPolicy
<1>4. Fail \/ (DropPolicy(i) /\ Go("release", "delete", run.object))
  BY DEF DeletePolicy
<1>5. "release" \in Pcs /\ "delete" \in Modes
  BY DEF Pcs, Modes
<1>6. CASE Fail
  BY <1>1, <1>2, <1>3, <1>6 DEF Fail
<1>7. CASE DropPolicy(i) /\ Go("release", "delete", run.object)
  <2>1. Onward("release") /\ queued' = queued
    BY <1>1, <1>2, <1>5, <1>7, GoType DEF Onward
  <2>2. policies'[i] = None
    BY <1>2, <1>7 DEF TypeOK, DropPolicy
  <2>3. QED
    BY <1>1, <1>2, <1>3, <2>1, <2>2
<1>8. QED
  BY <1>4, <1>6, <1>7

LEMMA WriteStep ==
  ASSUME TypeOK, Save \/ Release
  PROVE  /\ run' = Idle /\ UNCHANGED <<copy, upstream, userOps>>
         /\ queued' \in {queued, TRUE}
         /\ run.object \in Object
         /\ \/ UNCHANGED policy
            \/ /\ Save /\ ~Conflict
               /\ [run.object EXCEPT !.applied = run.object.spec] \in Object
               /\ Put([run.object EXCEPT !.applied = run.object.spec])
            \/ Release /\ ~Conflict /\ Put(None)
<1>1. run.object \in Object
  BY RunBusy DEF Save, Release, Step
<1>2. [run.object EXCEPT !.applied = run.object.spec] \in Object
  BY <1>1, ObjectFields
<1>3. QED
  BY <1>1, <1>2 DEF Save, Release, Return, Fail, Step

LEMMA CallType ==
  ASSUME TypeOK, Inv, Call PROVE OwnType'
<1>1. IdKnown /\ Written
  BY DEF Inv, PolicyInv
<1>2. CASE Made
  BY <1>2, CallOwn DEF Made, Kept
<1>3. CASE run.pc # "stragglers" /\ DeleteCondition
  BY <1>1, <1>3, DeletingStep, CallOwn, UpstreamKept DEF DeleteCondition
<1>4. CASE run.pc # "stragglers" /\ EndDeletes
  BY <1>4, EndDeletesStep, CallOwn, UpstreamKept DEF EndDeletes, Onward
<1>5. CASE DeletePolicy
  BY <1>1, <1>5, DeletePolicyStep, CallOwn DEF Onward
<1>6. CASE Save \/ Release
  <2>1. policy' \in Versioned
    BY <1>6, WriteStep, PutPolicyType DEF TypeOK
  <2>2. QED
    BY <1>6, <2>1, WriteStep, UpstreamKept DEF TypeOK, OwnType
<1>7. QED
  BY <1>1, <1>2, <1>3, <1>4, <1>5, <1>6, SearchMade, PolicyCallMade,
     ConditionCallMade, EndConditionsMade, StragglersMade DEF Call

LEMMA InitType == Init => TypeOK /\ Inv
<1> SUFFICES ASSUME Init PROVE TypeOK /\ Inv
  OBVIOUS
<1>1. C!TypeOK /\ C!LeakInv
  BY SameInit, SameType, SameLeak, Assumed, P!InitType, P!InitLeak DEF Init
<1>2. /\ store = [c \in Conditions |-> None]
      /\ nr = [i \in Ids |-> None]
  BY DEF Init, C!Init
<1>3. /\ policy = [object |-> None, rev |-> 0] /\ copy = policy
      /\ queued = FALSE /\ run = Idle
      /\ policies = [i \in PolicyIds |-> None] /\ given = {}
  BY DEF Init
<1>4. TypeOK
  BY <1>1, <1>3 DEF TypeOK, Versioned
<1>5. CopyCoherent /\ FinalizerKept /\ NoOrphans /\ Written
  BY <1>2, <1>3 DEF CopyCoherent, FinalizerKept, NoOrphans, Written
<1>6. RunCoherent /\ RunPhases /\ IdKnown /\ DeletionSoFar
  BY <1>3 DEF RunCoherent, RunPhases, IdKnown, DeletionSoFar, Idle, Deletion
<1>7. QED
  BY <1>1, <1>4, <1>5, <1>6 DEF Inv, PolicyInv

LEMMA StepType ==
  ASSUME TypeOK, Inv, [Next]_vars PROVE TypeOK'
<1>1. CASE UNCHANGED vars
  BY <1>1, TypeParts DEF vars, ofPolicy, upstream, TypeOK, OwnType, UpstreamType
<1>2. CASE ConditionControllers
  BY <1>2, TypeParts DEF ConditionControllers, ofPolicy, upstream, TypeOK,
                         OwnType, UpstreamType
<1>3. QED
  BY <1>1, <1>2, TypeParts, OutsideType, ReconcileType, CallType DEF Next

-----------------------------------------------------------------------------
(* The inductive invariant of the policy and its worker.                   *)

OwnInv ==
  CopyCoherent /\ RunCoherent /\ RunPhases /\ IdKnown /\ FinalizerKept
    /\ DeletionSoFar

\* What a deletion got rid of stays so.
LEMMA StillGone ==
  ASSUME TypeOK, Inv, [Next]_vars, run.pc # "idle"
  PROVE  \A e \in Listed(run.object.applied) : OnItsWayOut(e) => OnItsWayOut(e)'
<1>1. Listed(run.object.applied) \subseteq Entry
  BY RunBusy, ObjectFields, ListedType
<1>2. QED
  BY <1>1, StepSide, StayOnTheWayOut DEF Inv, PolicyInv

LEMMA SameRun ==
  ASSUME TypeOK, Inv, [Next]_vars, run' = run, UNCHANGED policies
  PROVE  RunPhases' /\ IdKnown' /\ DeletionSoFar'
<1>1. RunPhases' /\ IdKnown'
  BY DEF Inv, PolicyInv, RunPhases, IdKnown
<1>2. DeletionSoFar'
  <2>1. CASE run.pc = "idle"
    BY <2>1 DEF DeletionSoFar
  <2>2. CASE run.pc # "idle"
    <3>1. \A e \in Listed(run.object.applied) : OnItsWayOut(e) => OnItsWayOut(e)'
      BY <2>2, StillGone
    <3>2. QED
      BY <3>1 DEF Inv, PolicyInv, DeletionSoFar
  <2>3. QED
    BY <2>1, <2>2
<1>3. QED
  BY <1>1, <1>2

LEMMA IdleInv ==
  ASSUME run' = Idle
  PROVE  RunCoherent' /\ RunPhases' /\ IdKnown' /\ DeletionSoFar'
BY DEF RunCoherent, RunPhases, IdKnown, DeletionSoFar, Idle, Deletion

\* Edits and deletions give the policy a new revision, and keep its id.
LEMMA UserInv ==
  ASSUME TypeOK, Inv, User PROVE OwnInv'
<1>1. PICK o \in Object \cup {None} :
        /\ Put(o)
        /\ o # None => \/ o.id = None
                       \/ /\ policy.object # None
                          /\ o.id = policy.object.id
                          /\ o.finalizer = policy.object.finalizer
  BY UserWrites
<1>2. /\ policy'.object = o /\ policy'.rev = policy.rev + 1
      /\ copy' = copy /\ run' = run /\ policies' = policies
      /\ policy.rev \in Nat /\ copy.rev \in Nat
  BY <1>1, UserWrites, PutPolicyType, FoundType DEF upstream
<1>3. CopyCoherent'
  BY <1>2 DEF Inv, PolicyInv, CopyCoherent
<1>4. RunCoherent'
  <2>1. run.pc # "idle" => run.rev \in Nat
    BY RunBusy
  <2>2. QED
    BY <1>2, <2>1 DEF Inv, PolicyInv, RunCoherent
<1>5. FinalizerKept'
  BY <1>1, <1>2 DEF Inv, PolicyInv, FinalizerKept
<1>6. RunPhases' /\ IdKnown' /\ DeletionSoFar'
  BY <1>2, SameRun DEF Next
<1>7. QED
  BY <1>3, <1>4, <1>5, <1>6 DEF OwnInv

LEMMA ManagerInv ==
  ASSUME TypeOK, Inv, PolicySync \/ Resync \/ Crash \/ ConditionControllers
  PROVE  OwnInv'
<1>1. /\ UNCHANGED <<policy, policies>>
      /\ copy' \in {copy, policy}
      /\ run' \in {run, Idle}
  BY DEF PolicySync, Resync, Crash, ConditionControllers, ofPolicy, upstream
<1>2. CopyCoherent' /\ FinalizerKept'
  BY <1>1, FoundType DEF Inv, PolicyInv, CopyCoherent, FinalizerKept
<1>3. CASE run' = Idle
  BY <1>2, <1>3, IdleInv DEF OwnInv
<1>4. CASE run' = run
  <2>1. RunCoherent'
    BY <1>1, <1>4 DEF Inv, PolicyInv, RunCoherent
  <2>2. RunPhases' /\ IdKnown' /\ DeletionSoFar'
    BY <1>1, <1>4, SameRun DEF Next
  <2>3. QED
    BY <1>2, <2>1, <2>2 DEF OwnInv
<1>5. QED
  BY <1>1, <1>3, <1>4

\* A reconcile begins from a copy that is the policy, or one too old to save.
LEMMA ReconcileInv ==
  ASSUME TypeOK, Inv, Reconcile PROVE OwnInv'
<1>1. UNCHANGED <<policy, copy, policies>>
  BY ReconcileBegins DEF upstream
<1>2. CopyCoherent' /\ FinalizerKept'
  BY <1>1 DEF Inv, PolicyInv, CopyCoherent, FinalizerKept
<1>3. CASE run' = run
  <2>1. RunCoherent'
    BY <1>1, <1>3 DEF Inv, PolicyInv, RunCoherent
  <2>2. QED
    BY <1>1, <1>2, <1>3, <2>1, SameRun DEF Next, OwnInv
<1>4. copy.object \in Object =>
        copy.object # None /\ copy.rev <= policy.rev
          /\ (copy.rev = policy.rev => copy = policy)
  BY ObjectFields DEF Inv, PolicyInv, CopyCoherent
<1>5. CASE /\ copy.object \in Object /\ copy.object.deleting
           /\ copy.object.id # None
           /\ run' = At("deleteConditions", "delete", copy.object, copy.rev)
  <2>1. /\ run'.pc = "deleteConditions" /\ run'.object = copy.object
        /\ run'.rev = copy.rev
        /\ run'.left = Listed(copy.object.applied)
    BY <1>5 DEF At
  <2>2. RunCoherent'
    BY <1>1, <1>4, <1>5, <2>1 DEF RunCoherent
  <2>3. RunPhases' /\ IdKnown' /\ DeletionSoFar'
    BY <1>5, <2>1 DEF RunPhases, IdKnown, DeletionSoFar, Deletion
  <2>4. QED
    BY <1>2, <2>2, <2>3 DEF OwnInv
<1>6. ASSUME copy.object \in Object, ~copy.object.deleting,
             NEW step \in {"search", "update", "conditions", "save"},
             NEW mode \in Modes,
             step # "search" => copy.object.id # None,
             run' = At(step, mode, [copy.object EXCEPT !.finalizer = TRUE], copy.rev)
      PROVE  OwnInv'
  <2> DEFINE o == [copy.object EXCEPT !.finalizer = TRUE]
  <2>1. /\ o.spec = copy.object.spec /\ o.deleting = copy.object.deleting
        /\ o.id = copy.object.id /\ o.finalizer
    BY <1>6, ObjectUpdates
  <2>2. run'.pc = step /\ run'.object = o /\ run'.rev = copy.rev
    BY <1>6 DEF At
  <2> HIDE DEF o
  <2>3. RunCoherent'
    BY <1>1, <1>4, <1>6, <2>1, <2>2 DEF RunCoherent, Deletion
  <2>4. RunPhases' /\ IdKnown' /\ DeletionSoFar'
    BY <1>6, <2>1, <2>2 DEF RunPhases, IdKnown, DeletionSoFar, Deletion
  <2>5. QED
    BY <1>2, <2>3, <2>4 DEF OwnInv
<1>7. QED
  BY <1>3, <1>5, <1>6, ReconcileBegins

LEMMA MadeInv ==
  ASSUME TypeOK, Inv, Made PROVE OwnInv'
<1>1. run.pc \notin Deletion \cup {"idle"} /\ UNCHANGED <<policy, copy>>
  BY DEF Made, Making, Pcs, Deletion
<1>2. CopyCoherent' /\ FinalizerKept'
  BY <1>1 DEF Inv, PolicyInv, CopyCoherent, FinalizerKept
<1>3. CASE run' = Idle
  BY <1>2, <1>3, IdleInv DEF OwnInv
<1>4. CASE Kept
  <2>1. run'.pc \notin Deletion /\ run'.pc # "idle"
    BY <1>4 DEF Kept, Making, Pcs
  <2>2. RunCoherent'
    BY <1>1, <1>4, <2>1 DEF Inv, PolicyInv, RunCoherent, Kept
  <2>3. RunPhases' /\ IdKnown'
    BY <1>1, <1>4, <2>1 DEF Inv, PolicyInv, RunPhases, IdKnown, Kept
  <2>4. DeletionSoFar'
    BY <2>1 DEF DeletionSoFar, Deletion
  <2>5. QED
    BY <1>2, <2>2, <2>3, <2>4 DEF OwnInv
<1>5. QED
  BY <1>3, <1>4 DEF Made

\* A step of a deletion that keeps the local copy.
LEMMA DeletingOn ==
  ASSUME TypeOK, Inv, run.pc \in Deletion, UNCHANGED <<policy, copy>>,
         run'.pc \in Deletion, run'.rev = run.rev, run'.object = run.object,
         DeletionSoFar'
  PROVE  OwnInv'
<1>1. CopyCoherent' /\ FinalizerKept'
  BY DEF Inv, PolicyInv, CopyCoherent, FinalizerKept
<1>2. run.pc \notin {"idle", "search", "create"}
      /\ run'.pc \notin {"idle", "search", "create"}
  BY DEF Deletion
<1>3. RunCoherent'
  BY <1>2 DEF Inv, PolicyInv, RunCoherent
<1>4. RunPhases' /\ IdKnown'
  BY <1>2 DEF Inv, PolicyInv, RunPhases, IdKnown
<1>5. QED
  BY <1>1, <1>3, <1>4 DEF OwnInv

LEMMA DeletingStopped ==
  ASSUME Inv, UNCHANGED <<policy, copy>>, run' = Idle PROVE OwnInv'
<1>1. CopyCoherent' /\ FinalizerKept'
  BY DEF Inv, PolicyInv, CopyCoherent, FinalizerKept
<1>2. QED
  BY <1>1, IdleInv DEF OwnInv

LEMMA DeleteConditionInv ==
  ASSUME TypeOK, Inv, run.pc # "stragglers", DeleteCondition PROVE OwnInv'
<1>1. run.pc = "deleteConditions" /\ UNCHANGED <<policy, copy>>
  BY DEF DeleteCondition
<1>2. /\ run'.pc = "deleteConditions" /\ run'.rev = run.rev
      /\ run'.object = run.object
      /\ run.failed => run'.failed
  BY <1>1, DeletingStep DEF Inv, PolicyInv
<1>3. PICK e \in run.left : /\ run'.left = run.left \ {e}
                            /\ run'.failed \/ OnItsWayOut(e)'
  BY DeletingStep DEF Inv, PolicyInv
<1>4. \A f \in Listed(run.object.applied) : OnItsWayOut(f) => OnItsWayOut(f)'
  BY <1>1, StillGone DEF Next, Call
<1>5. ASSUME ~run'.failed, NEW f \in Listed(run.object.applied) \ run'.left
      PROVE  OnItsWayOut(f)'
  <2>1. ~run.failed /\ OnItsWayOut(e)'
    BY <1>2, <1>3, <1>5
  <2>2. CASE f = e
    BY <2>1, <2>2
  <2>3. CASE f \notin run.left
    BY <1>1, <1>4, <1>5, <2>1, <2>3 DEF Inv, PolicyInv, DeletionSoFar
  <2>4. QED
    BY <1>3, <1>5, <2>2, <2>3
<1>6. DeletionSoFar'
  BY <1>2, <1>5 DEF DeletionSoFar
<1>7. QED
  BY <1>1, <1>2, <1>6, DeletingOn DEF Deletion

\* The policy is only deleted after a loop without an error.
LEMMA EndDeletesInv ==
  ASSUME TypeOK, Inv, run.pc # "stragglers", EndDeletes PROVE OwnInv'
<1>1. run.pc = "deleteConditions"
  BY DEF EndDeletes
<1>2. /\ UNCHANGED <<policy, copy, upstream>>
      /\ run' = Idle \/ (Onward("delete") /\ run.left = {} /\ ~run.failed)
  BY <1>1, EndDeletesStep
<1>3. CASE Onward("delete") /\ run.left = {} /\ ~run.failed
  <2>1. \A f \in Listed(run.object.applied) : OnItsWayOut(f)'
    BY <1>1, <1>3, StillGone DEF Next, Call, Inv, PolicyInv, DeletionSoFar
  <2>2. DeletionSoFar'
    BY <1>3, <2>1 DEF Onward, DeletionSoFar
  <2>3. QED
    BY <1>1, <1>2, <1>3, <2>2, DeletingOn DEF Onward, Deletion
<1>4. QED
  BY <1>2, <1>3, DeletingStopped

\* The finalizer only goes once New Relic has deleted the policy.
LEMMA DeletePolicyInv ==
  ASSUME TypeOK, Inv, DeletePolicy PROVE OwnInv'
<1>1. run.pc = "delete" /\ IdKnown
  BY DEF DeletePolicy, Step, Inv, PolicyInv
<1>2. /\ UNCHANGED <<policy, copy>>
      /\ run' = Idle \/ (Onward("release") /\ policies'[run.object.id] = None)
  BY <1>1, DeletePolicyStep
<1>3. CASE Onward("release") /\ policies'[run.object.id] = None
  <2>1. \A f \in Listed(run.object.applied) : OnItsWayOut(f)'
    BY <1>1, StillGone DEF Next, Call, Inv, PolicyInv, DeletionSoFar
  <2>2. DeletionSoFar'
    BY <1>3, <2>1 DEF Onward, DeletionSoFar
  <2>3. QED
    BY <1>1, <1>2, <1>3, <2>2, DeletingOn DEF Onward, Deletion
<1>4. QED
  BY <1>2, <1>3, DeletingStopped

LEMMA WriteInv ==
  ASSUME TypeOK, Inv, Save \/ Release PROVE OwnInv'
<1>1. run' = Idle /\ copy' = copy
  BY WriteStep
<1>2. RunCoherent' /\ RunPhases' /\ IdKnown' /\ DeletionSoFar'
  BY <1>1, IdleInv
<1>3. CASE UNCHANGED policy
  BY <1>1, <1>3, DeletingStopped
<1>4. ASSUME NEW o \in Object \cup {None}, Put(o), o # None => o.finalizer
      PROVE  OwnInv'
  <2>1. policy'.object = o /\ policy'.rev = policy.rev + 1
    BY <1>4, PutPolicyType
  <2>2. CopyCoherent' /\ FinalizerKept'
    BY <1>1, <1>4, <2>1, FoundType DEF Inv, PolicyInv, CopyCoherent, FinalizerKept
  <2>3. QED
    BY <1>2, <2>2 DEF OwnInv
<1>5. CASE /\ Save
           /\ [run.object EXCEPT !.applied = run.object.spec] \in Object
           /\ Put([run.object EXCEPT !.applied = run.object.spec])
  <2>1. run.object \in Object /\ run.object.finalizer
    BY <1>5, WriteStep DEF Save, Step, Inv, PolicyInv, RunPhases, Deletion
  <2>2. [run.object EXCEPT !.applied = run.object.spec].finalizer
    BY <2>1, ObjectUpdates
  <2>3. QED
    BY <1>4, <1>5, <2>2
<1>6. QED
  BY <1>3, <1>4, <1>5, WriteStep

LEMMA StepOwn ==
  ASSUME TypeOK, Inv, [Next]_vars PROVE OwnInv'
<1>1. CASE UNCHANGED vars
  <2>1. UNCHANGED <<policy, copy, run, policies>>
    BY <1>1 DEF vars, ofPolicy, upstream
  <2>2. CopyCoherent' /\ FinalizerKept' /\ RunCoherent'
    BY <2>1 DEF Inv, PolicyInv, CopyCoherent, FinalizerKept, RunCoherent
  <2>3. QED
    BY <2>1, <2>2, SameRun DEF OwnInv
<1>2. CASE Call
  <2>1. IdKnown /\ Written
    BY DEF Inv, PolicyInv
  <2>2. CASE Made
    BY <2>2, MadeInv
  <2>3. CASE ~Made
    BY <1>2, <2>1, <2>3, SearchMade, PolicyCallMade, ConditionCallMade,
       EndConditionsMade, StragglersMade, DeleteConditionInv, EndDeletesInv,
       DeletePolicyInv, WriteInv DEF Call
  <2>4. QED
    BY <2>2, <2>3
<1>3. QED
  BY <1>1, <1>2, UserInv, ManagerInv, ReconcileInv DEF Next

\* Conditions are written only in policies that New Relic holds.
LEMMA NoneOrphaned ==
  ASSUME TypeOK, NoOrphans, UNCHANGED policies,
         \A i \in Ids : \/ nr'[i] \in {nr[i], None}
                        \/ nr'[i] \in Specs /\ policies[nr'[i].policy] # None
  PROVE  NoOrphans'
BY DEF NoOrphans

LEMMA WriteOrphans ==
  ASSUME TypeOK, NoOrphans, UNCHANGED policies, NEW k \in Kinds, ConditionWrite(k)
  PROVE  NoOrphans'
<1> DEFINE s == worker[k].object.spec
<1>1. P!TypeOK /\ worker[k].pc # "idle"
  BY Typed DEF ConditionWrite
<1>2. s \in Specs
  BY <1>1, Assumed, P!BusyType DEF P!Object
<1>3. CASE policies[s.policy] = None
  BY <1>3, NoneOrphaned DEF ConditionWrite, newRelic
<1>4. CASE policies[s.policy] # None
  <2>1. C!UpdateCondition(k) \/ C!CreateCondition(k)
    BY <1>4 DEF ConditionWrite
  <2>2. nr' = nr \/ \E i \in Ids \cup {worker[k].object.id} : nr' = [nr EXCEPT ![i] = s]
    <3>1. CASE C!UpdateCondition(k)
      BY <3>1 DEF C!UpdateCondition
    <3>2. CASE C!CreateCondition(k)
      <4>1. nr' = nr \/ (Ids \ used # {} /\ nr' = [nr EXCEPT ![C!FreshId] = s])
        BY <3>2 DEF C!CreateCondition, C!NewCondition, C!newRelic
      <4>2. Ids \ used # {} => C!FreshId \in Ids
        BY DEF C!FreshId
      <4>3. QED
        BY <4>1, <4>2
    <3>3. QED
      BY <2>1, <3>1, <3>2
  <2>3. \A j \in Ids : nr'[j] \in {nr[j], s}
    BY <1>1, <2>2 DEF P!TypeOK
  <2> HIDE DEF s
  <2>4. QED
    BY <1>2, <1>4, <2>3, NoneOrphaned
<1>5. QED
  BY <1>3, <1>4

LEMMA ControllersOrphans ==
  ASSUME TypeOK, NoOrphans, ConditionControllers PROVE NoOrphans'
<1>1. UNCHANGED policies
  BY DEF ConditionControllers, ofPolicy, upstream
<1>2. ASSUME nr' = nr PROVE NoOrphans'
  BY <1>1, <1>2, NoneOrphaned
<1>3. ASSUME NEW c \in Conditions, C!InformerSync(c) PROVE nr' = nr
  BY <1>3 DEF C!InformerSync, C!newRelic
<1>4. ASSUME NEW k, NEW c, C!Reconcile(k, c) PROVE nr' = nr
  BY <1>4 DEF C!Reconcile, C!ReconcileFails, C!ReconcileNothing,
              C!ReconcileDeletion, C!ReconcileSpec, C!Begin, C!newRelic
<1>5. ASSUME NEW k \in Kinds, C!Search(k) \/ ConditionSave(k) \/ C!Release(k)
      PROVE  nr' = nr
  BY <1>5 DEF C!Search, ConditionSave, C!Save, C!Release, C!newRelic, newRelic
<1>6. ASSUME NEW k \in Kinds, C!DeleteCondition(k) PROVE NoOrphans'
  <2>1. nr' = nr \/ nr' = [nr EXCEPT ![worker[k].object.id] = None]
    BY <1>6 DEF C!DeleteCondition
  <2>2. \A i \in Ids : nr'[i] \in {nr[i], None}
    BY <2>1, Typed DEF P!TypeOK
  <2>3. QED
    BY <1>1, <2>2, NoneOrphaned
<1>7. QED
  BY <1>1, <1>2, <1>3, <1>4, <1>5, <1>6, WriteOrphans
  DEF ConditionControllers, ConditionCall

LEMMA DropOrphans ==
  ASSUME TypeOK, NoOrphans, DropPolicy(run.object.id) PROVE NoOrphans'
<1>1. \A i \in Ids : /\ nr'[i] = IF nr[i] # None /\ nr[i].policy = run.object.id
                                THEN None ELSE nr[i]
                     /\ nr[i] # None => nr[i].policy \in PolicyIds
  BY Typed DEF DropPolicy, P!TypeOK, Specs
<1>2. \A p \in PolicyIds : p # run.object.id => policies'[p] = policies[p]
  BY DEF DropPolicy, TypeOK
<1>3. QED
  BY <1>1, <1>2 DEF NoOrphans

LEMMA StepOrphans ==
  ASSUME TypeOK, Inv, [Next]_vars PROVE NoOrphans'
<1>1. NoOrphans /\ IdKnown /\ Written
  BY DEF Inv, PolicyInv
<1>2. ASSUME nr' = nr, \A p \in PolicyIds : policies[p] # None => policies'[p] # None
      PROVE  NoOrphans'
  <2>1. \A i \in Ids : nr[i] # None => nr[i].policy \in PolicyIds
    BY Typed DEF P!TypeOK, Specs
  <2>2. QED
    BY <1>1, <1>2, <2>1 DEF NoOrphans
<1>3. CASE UNCHANGED vars \/ User \/ PolicySync \/ Resync \/ Crash \/ Reconcile
  BY <1>2, <1>3
  DEF vars, ofPolicy, ofConditions, upstream, newRelic, User, UserCreate,
      UserEdit, UserDelete, UserOp, PolicySync, Resync, Crash, C!Crash,
      C!newRelic, Reconcile, ReconcileFails, ReconcileNothing,
      ReconcileDeletion, ReconcileSpec, Ready
<1>4. CASE Call /\ ~DeletePolicy
  <2>1. nr' = nr
    BY <1>4 DEF Call, Search, CreatePolicy, UpdatePolicy, CreateCondition,
                UpdateCondition, EndConditions, DeleteCondition, EndDeletes,
                Save, Release, ofConditions, newRelic
  <2>2. CASE Made
    BY <1>2, <2>1, <2>2 DEF Made
  <2>3. CASE UNCHANGED upstream
    BY <1>2, <2>1, <2>3, UpstreamKept
  <2>4. QED
    BY <1>1, <1>4, <2>2, <2>3, SearchMade, PolicyCallMade, ConditionCallMade,
       EndConditionsMade
    DEF Call, DeleteCondition, EndDeletes, Save, Release
<1>5. CASE DeletePolicy
  BY <1>1, <1>2, <1>5, DeletePolicyStep, DropOrphans
<1>6. QED
  BY <1>1, <1>3, <1>4, <1>5, ControllersOrphans DEF Next, Call

LEMMA StepInv ==
  ASSUME TypeOK, Inv, [Next]_vars PROVE Inv'
<1>1. ConditionSide /\ C!LeakInv /\ Written
  BY StepSide DEF Inv, PolicyInv
<1>2. P!LeakInv'
  BY <1>1, SideLeak
<1>3. C!LeakInv'
  BY <1>2, SameLeak, PTL
<1>4. Written'
  BY <1>1, SideIntent DEF Written
<1>5. OwnInv' /\ NoOrphans'
  BY StepOwn, StepOrphans
<1>6. QED
  BY <1>3, <1>4, <1>5 DEF Inv, PolicyInv, OwnInv

\* The types and the invariant hold together: that the policy has an id when a
\* resource inherits it, and that the cached resource that an Update is made
\* from is the one in the cluster, is what makes the resources well formed.
LEMMA Together == Spec => [](TypeOK /\ Inv)
<1>1. TypeOK /\ Inv /\ [Next]_vars => (TypeOK /\ Inv)'
  BY StepType, StepInv
<1>2. QED
  BY <1>1, InitType, PTL DEF Spec

\* Every variable of the composition stays in its type: in particular every
\* condition resource has the id of a policy, and every name that the loops write
\* back into the policy's spec is one that the API server generated.
THEOREM TypeCorrect == Spec => []TypeOK
BY Together, PTL

\* The policy, its copies, the condition resources, their controllers' copies
\* and New Relic stay related as Inv says, in every interleaving of the users,
\* the informers, the three workers, the faults and the crashes.
THEOREM Invariant == Spec => []Inv
BY Together, PTL

-----------------------------------------------------------------------------
(* What follows from it.                                                   *)

\* Who writes the policy.
LEMMA Writers ==
  ASSUME TypeOK, [Next]_vars
  PROVE  \/ UNCHANGED policy
         \/ User
         \/ /\ Save /\ ~Conflict /\ run.object \in Object
            /\ policy'.object = [run.object EXCEPT !.applied = run.object.spec]
         \/ Release /\ ~Conflict /\ policy'.object = None
<1>1. CASE UNCHANGED vars \/ PolicySync \/ Resync \/ Crash \/ Reconcile
             \/ ConditionControllers
  BY <1>1, ReconcileBegins
  DEF vars, ofPolicy, PolicySync, Resync, Crash, ConditionControllers
<1>2. CASE Save \/ Release
  BY <1>2, WriteStep, PutPolicyType
<1>3. CASE Call /\ ~Save /\ ~Release
  BY <1>3 DEF Call, Search, CreatePolicy, UpdatePolicy, CreateCondition,
              UpdateCondition, EndConditions, DeleteCondition, EndDeletes,
              DeletePolicy
<1>4. QED
  BY <1>1, <1>2, <1>3 DEF Next

\* Save and Release write what the users last wrote.
LEMMA StepIntent ==
  ASSUME TypeOK, Inv, [Next]_vars, userOps' = userOps, policy.object # None
  PROVE  IF policy'.object = None THEN policy.object.deleting
         ELSE /\ WithoutNames(policy'.object.spec) = WithoutNames(policy.object.spec)
              /\ policy'.object.deleting = policy.object.deleting
<1>1. ~User
  BY UserWrites
<1>2. CASE UNCHANGED policy
  BY <1>2
<1>3. CASE /\ Save /\ ~Conflict /\ run.object \in Object
           /\ policy'.object = [run.object EXCEPT !.applied = run.object.spec]
  <2>1. /\ WithoutNames(policy.object.spec) = WithoutNames(run.object.spec)
        /\ policy.object.deleting = run.object.deleting
    BY <1>3 DEF Save, Step, Conflict, Inv, PolicyInv, RunCoherent
  <2>2. policy'.object # None
    BY <1>3, ObjectFields
  <2>3. /\ policy'.object.spec = run.object.spec
        /\ policy'.object.deleting = run.object.deleting
    BY <1>3, ObjectUpdates
  <2>4. QED
    BY <2>1, <2>2, <2>3
<1>4. CASE Release /\ ~Conflict /\ policy'.object = None
  BY <1>4 DEF Release, Step, Conflict, Inv, PolicyInv, RunCoherent, RunPhases,
              Deletion
<1>5. QED
  BY <1>1, <1>2, <1>3, <1>4, Writers

\* However long a reconcile takes and however stale the copy it began with, it
\* changes nothing that a user wrote but the names of the conditions' resources,
\* and removes nothing that no user deleted.
THEOREM IntentSurvives == Spec => UserIntentSurvives
<1>1. TypeOK /\ Inv /\ [Next]_vars
        => [userOps' = userOps /\ policy.object # None =>
              IF policy'.object = None THEN policy.object.deleting
              ELSE /\ WithoutNames(policy'.object.spec)
                        = WithoutNames(policy.object.spec)
                   /\ policy'.object.deleting = policy.object.deleting]_vars
  BY StepIntent
<1>2. QED
  BY <1>1, Together, PTL DEF Spec, UserIntentSurvives

LEMMA StepWrites ==
  ASSUME TypeOK, Inv, [Next]_vars, run' = run, NEW c \in Conditions, store[c] # None
  PROVE  IF store'[c] = None THEN store[c].deleting
         ELSE /\ store'[c].spec = store[c].spec
              /\ store'[c].deleting = store[c].deleting
BY StepSide, SideIntent DEF Inv, PolicyInv

\* Of the two controllers that write the whole of one condition resource, its own
\* never takes back what the policy's worker wrote: however stale the copy it
\* works on, its Update is refused or repeats the spec and the deletion.
THEOREM WritesSurvive == Spec => PolicyWritesSurvive
<1>1. TypeOK /\ Inv /\ [Next]_vars
        => [run' = run =>
              \A c \in Conditions : store[c] # None =>
                IF store'[c] = None THEN store[c].deleting
                ELSE /\ store'[c].spec = store[c].spec
                     /\ store'[c].deleting = store[c].deleting]_vars
  BY StepWrites
<1>2. QED
  BY <1>1, Together, PTL DEF Spec, PolicyWritesSurvive

\* Whoever removes the policy leaves neither it nor its conditions in New Relic,
\* and no resource of its conditions that is there to stay.
LEMMA StepNothingLeft ==
  ASSUME TypeOK, Inv, [Next]_vars,
         policy.object # None, policy'.object = None, policy.object.id # None
  PROVE  /\ policies[policy.object.id] = None
         /\ \A i \in Ids : nr[i] # None => nr[i].policy # policy.object.id
         /\ \A e \in Listed(policy.object.applied) : ~Live(e.name)
<1>1. policy.object.finalizer
  BY DEF Inv, PolicyInv, FinalizerKept
<1>2. ~User
  <2>1. ASSUME User PROVE FALSE
    <3>1. PICK o \in Object \cup {None} :
            Put(o) /\ (o = None => ~policy.object.finalizer)
      BY <2>1, UserWrites
    <3>2. QED
      BY <1>1, <3>1, PutPolicyType
  <2>2. QED
    BY <2>1
<1>3. Release /\ ~Conflict
  BY <1>2, Writers, ObjectFields
<1>4. /\ run.pc = "release" /\ run.rev = policy.rev
      /\ policy.object.id = run.object.id
      /\ policy.object.applied = run.object.applied
  BY <1>3 DEF Release, Step, Conflict, Inv, PolicyInv, RunCoherent, Deletion
<1>5. policies[policy.object.id] = None
  BY <1>4 DEF Inv, PolicyInv, DeletionSoFar
<1>6. QED
  BY <1>4, <1>5 DEF Inv, PolicyInv, NoOrphans, DeletionSoFar, OnItsWayOut

\* In every interleaving and whatever fails, the policy goes from New Relic with
\* its conditions, and the resources it recorded are on their way out, before the
\* policy's resource goes.
THEOREM NothingLeft == Spec => NothingOutlives
<1>1. TypeOK /\ Inv /\ [Next]_vars
        => [LET object == policy.object IN
            object # None /\ policy'.object = None /\ object.id # None =>
              /\ policies[object.id] = None
              /\ \A i \in Ids : nr[i] # None => nr[i].policy # object.id
              /\ \A e \in Listed(object.applied) : ~Live(e.name)]_vars
  BY StepNothingLeft
<1>2. QED
  BY <1>1, Together, PTL DEF Spec, NothingOutlives

-----------------------------------------------------------------------------
(* The names of the conditions in New Relic (NoDuplicates).  A worker      *)
(* creates a condition only when its search found none of the name.  What  *)
(* matters is that all copies of a resource have one name (OneName), and   *)
(* that the policy's worker, whichever resource it finds for a condition,  *)
(* writes the name that the resource has (PolicyNames).                    *)

\* ConditionController's names, as this module and as its proofs see them.
LEMMA SameNames ==
  /\ \A c : C!Copies(c) = P!Copies(c)
  /\ C!NoDuplicates <=> P!NoDuplicates
  /\ C!NameInv <=> P!NameInv
  /\ C!OwnWorker <=> P!OwnWorker
BY DEF C!Copies, P!Copies, C!NoDuplicates, P!NoDuplicates, C!NameInv,
       P!NameInv, C!RecordedName, P!RecordedName, C!StillMissing,
       P!StillMissing, C!SameName, P!SameName, C!OwnWorker, P!OwnWorker

LEMMA SameNamesNext ==
  /\ \A c : C!Copies(c)' = P!Copies(c)'
  /\ C!NameInv' <=> P!NameInv'
  /\ C!OwnWorker' <=> P!OwnWorker'
BY DEF C!Copies, P!Copies, C!NoDuplicates, P!NoDuplicates, C!NameInv,
       P!NameInv, C!RecordedName, P!RecordedName, C!StillMissing,
       P!StillMissing, C!SameName, P!SameName, C!OwnWorker, P!OwnWorker

LEMMA NameFields ==
  ASSUME NEW s \in Specs
  PROVE  /\ s.spec \in ConditionSpecs /\ s.policy \in PolicyIds
         /\ NameOf[s] = <<TitleOf[s.spec], s.policy>>
BY DEF Specs, NameOf

LEMMA SameName ==
  ASSUME NEW s \in Specs, NEW t \in Specs, NameOf[s] = NameOf[t]
  PROVE  TitleOf[s.spec] = TitleOf[t.spec] /\ s.policy = t.policy
BY NameFields

LEMMA CopySpecs ==
  ASSUME TypeOK, NEW c \in Conditions, NEW o \in P!Copies(c)
  PROVE  o \in P!Object /\ o.spec \in Specs
<1>1. o \in P!Object
  BY Typed, Assumed, P!CopiesAre
<1>2. QED
  BY <1>1 DEF P!Object

LEMMA CopySpecsNext ==
  ASSUME TypeOK, Inv, [Next]_vars, NEW c \in Conditions, NEW o \in P!Copies(c)'
  PROVE  o.spec \in Specs
<1>1. P!TypeOK'
  BY StepSide, SideType
<1>2. o \in P!Object
  BY <1>1, Assumed, P!CopiesAreNext
<1>3. QED
  BY <1>2 DEF P!Object

\* There is no copy of a resource that was never written.
LEMMA Unwritten ==
  ASSUME TypeOK, Inv, NEW c \in Conditions, revision[c] = 0
  PROVE  P!Copies(c) = {}
<1>1. P!TypeOK /\ P!LeakInv
  BY Typed, SameLeak DEF Inv
<1>2. store[c] = None
  BY DEF Inv, PolicyInv, Written
<1>3. cache[c].object = None
  <2>1. cache[c].rev \in Nat
    BY <1>1 DEF P!TypeOK
  <2>2. QED
    BY <1>1, <1>2, <2>1 DEF P!LeakInv, P!CacheCoherent
<1>4. ASSUME NEW k \in Kinds, worker[k].key = c PROVE FALSE
  <2>1. worker[k].pc # "idle"
    BY <1>1, <1>4, Assumed DEF P!TypeOK, P!Idle, P!Busy, P!Steps
  <2>2. worker[k].rev \in Nat
    BY <1>1, <2>1, Assumed, P!BusyType
  <2>3. QED
    BY <1>1, <1>2, <1>4, <2>1, <2>2 DEF P!LeakInv, P!WorkerCoherent
<1>5. QED
  BY <1>1, <1>2, <1>3, <1>4, Assumed, P!CopiesAre

\* Without the names of the resources, each condition is what its user wrote.
LEMMA WithoutNamesFields ==
  ASSUME NEW p \in Policy
  PROVE  LET q == WithoutNames(p) IN
         /\ DOMAIN q.conditions = DOMAIN p.conditions
         /\ \A i \in DOMAIN p.conditions :
              /\ q.conditions[i] = p.conditions[i].spec
              /\ p.conditions[i].spec \in ConditionSpecs
              /\ p.conditions[i].name \in SomeName
<1> DEFINE s == [i \in DOMAIN p.conditions |-> p.conditions[i].spec]
<1>1. WithoutNames(p) = [p EXCEPT !.conditions = s]
  BY DEF WithoutNames
<1>2. WithoutNames(p).conditions = s
  <2> HIDE DEF s
  <2>1. QED
    BY <1>1 DEF Policy
<1>3. \A i \in DOMAIN p.conditions : p.conditions[i] \in Entry
  BY PolicyFields
<1>4. QED
  BY <1>2, <1>3 DEF Entry, SomeName

LEMMA NamedFields ==
  ASSUME NEW p \in Plain, NEW name
  PROVE  LET q == Named(p, name) IN
         /\ DOMAIN q.conditions = DOMAIN p.conditions
         /\ \A i \in DOMAIN p.conditions :
              q.conditions[i] = [name |-> name[i], spec |-> p.conditions[i]]
         /\ WithoutNames(q) = p
<1> DEFINE s == [i \in DOMAIN p.conditions |->
                   [name |-> name[i], spec |-> p.conditions[i]]]
           q == Named(p, name)
<1>1. q = [p EXCEPT !.conditions = s]
  BY DEF Named
<1>2. q.conditions = s
  <2> HIDE DEF s
  <2>1. QED
    BY <1>1 DEF Plain
<1>3. WithoutNames(q) = [q EXCEPT !.conditions = [i \in DOMAIN s |-> s[i].spec]]
  BY <1>2 DEF WithoutNames
<1>4. [i \in DOMAIN s |-> s[i].spec] = p.conditions
  <2>1. p.conditions = [i \in DOMAIN p.conditions |-> p.conditions[i]]
    <3>1. p.conditions \in Seq(ConditionSpecs)
      BY DEF Plain
    <3>2. QED
      BY <3>1
  <2>2. QED
    BY <2>1
<1>5. WithoutNames(q) = p
  <2> HIDE DEF s
  <2>1. WithoutNames(q) = [q EXCEPT !.conditions = p.conditions]
    BY <1>3, <1>4
  <2>2. QED
    BY <1>1, <2>1 DEF Plain
<1>6. QED
  BY <1>2, <1>5

-----------------------------------------------------------------------------
(* How the policy's worker writes the condition resources.                 *)

\* How the policy's worker makes a condition resource.
LEMMA CreateNames ==
  ASSUME TypeOK, IdKnown, CreateCondition
  PROVE  \/ P!Withheld /\ Processed(Current.name, TRUE)
         \/ \E c \in Conditions, o \in P!Object :
              /\ revision[c] = 0 /\ KindOf[c] = TypeOf[Current.spec]
              /\ Handed(c, o) /\ o.spec = Inherited(Current)
              /\ Processed(c, FALSE)
<1>1. Step("conditions") /\ InLoop
  BY DEF CreateCondition
<1>2. PICK c \in Conditions :
        /\ revision[c] = 0 /\ KindOf[c] = TypeOf[Current.spec]
        /\ \/ NewResource(c, Current) /\ Processed(c, FALSE) /\ UNCHANGED faults
           \/ /\ Processed(Current.name, TRUE) /\ UNCHANGED cluster
              /\ UNCHANGED faults \/ C!Fault("save")
  <2> DEFINE c == CHOOSE c \in Unused(TypeOf[Current.spec]) : TRUE
  <2>1. c \in Unused(TypeOf[Current.spec])
    BY DEF CreateCondition
  <2>2. c \in Conditions /\ revision[c] = 0 /\ KindOf[c] = TypeOf[Current.spec]
    BY <2>1 DEF Unused
  <2>3. \/ NewResource(c, Current) /\ Processed(c, FALSE) /\ UNCHANGED faults
        \/ /\ policies[run.object.id] = None
           /\ Processed(Current.name, TRUE)
           /\ UNCHANGED <<cluster, faults>>
        \/ C!Fault("save") /\ Processed(Current.name, TRUE) /\ UNCHANGED cluster
    BY DEF CreateCondition
  <2> HIDE DEF c
  <2>4. QED
    BY <2>2, <2>3
<1>3. UNCHANGED <<cache, queue, worker, newRelic, userOps>> /\ faults' \in Nat
  BY <1>2, Typed DEF CreateCondition, Step
<1>4. CASE UNCHANGED cluster /\ Processed(Current.name, TRUE)
  BY <1>3, <1>4, Typed, Quiet
<1>5. CASE NewResource(c, Current) /\ Processed(c, FALSE)
  <2> DEFINE o == [spec |-> Inherited(Current), deleting |-> FALSE,
                   finalizer |-> FALSE, id |-> None, applied |-> None]
  <2>1. o \in P!Object
    BY <1>1, InheritedObject
  <2>2. P!Put(c, o)
    BY <1>5, SameEnds DEF NewResource
  <2>3. o # None /\ o.id = None /\ o.spec = Inherited(Current)
    BY <2>1, Assumed
  <2> HIDE DEF o
  <2>4. run' # run
    BY <1>1, <1>5, ProcessedType DEF SomeName
  <2>5. Handed(c, o)
    BY <1>2, <1>3, <2>2, <2>3, <2>4 DEF Handed, newRelic
  <2>6. QED
    BY <1>2, <1>5, <2>1, <2>3, <2>5
<1>6. QED
  BY <1>2, <1>4, <1>5

\* How it updates one.
LEMMA UpdateNames ==
  ASSUME TypeOK, Inv, UpdateCondition
  PROVE  LET c == ResourceOf(Current, run.object.applied) IN
         /\ c \in Conditions
         /\ \/ P!Withheld /\ Processed(c, TRUE)
            \/ /\ KindOf[c] = TypeOf[Current.spec]
               /\ Processed(c, FALSE)
               /\ \/ P!Withheld
                  \/ \E o \in P!Object :
                       /\ store[c] # None
                       /\ Handed(c, o) /\ o.spec = Inherited(Current)
<1> DEFINE c   == ResourceOf(Current, run.object.applied)
           e   == [Current EXCEPT !.name = c]
           old == Retrieved(e)
           new == [old EXCEPT !.spec = Inherited(Current)]
<1>1. Step("conditions") /\ InLoop
  BY DEF UpdateCondition
<1>2. c \in SomeName /\ c # None /\ Current \in Entry
  BY <1>1, CurrentType DEF UpdateCondition
<1>3. c \in Conditions /\ e.name = c /\ e.spec = Current.spec
  BY <1>2 DEF Entry, SomeName
<1>4. /\ UNCHANGED faults \/ C!Fault("save")
      /\ UNCHANGED <<cache, queue, worker, newRelic, userOps>>
      /\ \/ UNCHANGED cluster /\ Processed(c, TRUE)
         \/ UNCHANGED cluster /\ Processed(c, FALSE) /\ old # None
         \/ /\ old # None /\ cache[c].rev = revision[c]
            /\ Processed(c, FALSE)
            /\ C!Put(c, new)
  BY DEF UpdateCondition, Step
<1>5. faults' \in Nat
  BY <1>4, Typed
<1>6. ASSUME old # None PROVE KindOf[c] = TypeOf[Current.spec]
  BY <1>3, <1>6 DEF Retrieved
<1>7. CASE UNCHANGED cluster
  <2>1. P!Withheld
    BY <1>4, <1>5, <1>7, Typed, Quiet
  <2>2. Processed(c, TRUE) \/ (Processed(c, FALSE) /\ old # None)
    BY <1>4
  <2> HIDE DEF c, old
  <2>3. QED
    BY <1>3, <1>6, <2>1, <2>2 DEF c
<1>8. CASE /\ old # None /\ cache[c].rev = revision[c]
           /\ Processed(c, FALSE)
           /\ C!Put(c, new)
  <2> HIDE DEF e, c
  <2>1. old = cache[c].object /\ old \in P!Object
    BY <1>2, <1>3, <1>8, RetrievedType
  <2>2. old = store[c]
    BY <1>3, <1>8, <2>1, SameLeak DEF Inv, P!LeakInv, P!CacheCoherent
  <2>3. Inherited(Current) \in Specs
    BY <1>1, InheritedObject DEF Inv, PolicyInv
  <2>4. KindOf[c] = TypeOf[Current.spec]
    BY <1>6, <1>8
  <2> HIDE DEF old
  <2>5. /\ new \in P!Object /\ new.spec = Inherited(Current)
        /\ new.id = old.id /\ new.finalizer = old.finalizer
        /\ new.deleting = old.deleting
    BY <2>1, <2>3 DEF P!Object
  <2>6. P!Put(c, new)
    BY <1>8, SameEnds
  <2>7. run' # run
    BY <1>1, <1>2, <1>8, ProcessedType
  <2> HIDE DEF new
  <2>8. Handed(c, new)
    BY <1>4, <1>5, <1>8, <2>2, <2>5, <2>6, <2>7 DEF Handed, newRelic
  <2>9. QED
    BY <1>3, <1>8, <2>2, <2>4, <2>5, <2>8 DEF c
<1>9. QED
  BY <1>4, <1>7, <1>8

\* How it deletes one.
LEMMA DeleteNames ==
  ASSUME TypeOK, Written, DeleteCondition
  PROVE  /\ run'.pc = run.pc /\ run'.object = run.object /\ run'.next = run.next
         /\ run.failed => run'.failed
         /\ \/ P!Withheld
            \/ \E c \in Conditions, o \in P!Object \cup {None} :
                 /\ store[c] # None
                 /\ Handed(c, o)
                 /\ o # None => o.spec = store[c].spec
<1>1. run.pc # "idle" /\ run \in Busy /\ run.left \in SUBSET Entry
  BY RunBusy DEF DeleteCondition
<1>2. PICK e \in run.left, error \in BOOLEAN :
        /\ run' = [run EXCEPT !.left = @ \ {e}, !.failed = @ \/ error]
        /\ \/ /\ Retrieved(e) # None /\ store[e.name] # None
              /\ IF Deleted(store[e.name]) = store[e.name] THEN UNCHANGED cluster
                 ELSE C!Put(e.name, Deleted(store[e.name]))
           \/ UNCHANGED cluster
        /\ UNCHANGED faults \/ C!Fault("delete")
  BY DEF DeleteCondition, Collected
<1>3. /\ run'.pc = run.pc /\ run'.object = run.object /\ run'.next = run.next
      /\ run.failed => run'.failed
      /\ run' # run
  BY <1>1, <1>2 DEF Busy
<1>4. UNCHANGED <<cache, queue, worker, newRelic, userOps>> /\ faults' \in Nat
  BY <1>2, Typed DEF DeleteCondition
<1>5. CASE UNCHANGED cluster
  BY <1>3, <1>4, <1>5, Typed, Quiet
<1>6. CASE /\ Retrieved(e) # None /\ store[e.name] # None
           /\ C!Put(e.name, Deleted(store[e.name]))
  <2> DEFINE c == e.name
             r == store[c]
             o == Deleted(r)
  <2>1. c \in Conditions
    BY <1>1, <1>6, RetrievedType DEF Entry, SomeName
  <2>2. r \in P!Object
    BY <1>6, <2>1, Typed DEF P!TypeOK
  <2>3. /\ o \in P!Object \cup {None}
        /\ o # None => o.id = r.id /\ o.finalizer = r.finalizer /\ o.deleting
    BY <2>2, DeletedType
  <2>4. o # None => o.spec = r.spec
    BY <2>2 DEF Deleted, P!Object
  <2>5. P!Put(c, o)
    BY <1>6, SameEnds
  <2> HIDE DEF o
  <2>6. Handed(c, o)
    BY <1>3, <1>4, <1>6, <2>3, <2>5 DEF Handed, newRelic
  <2>7. QED
    BY <1>3, <1>6, <2>1, <2>3, <2>4, <2>6
<1>7. QED
  BY <1>2, <1>5, <1>6

-----------------------------------------------------------------------------
(* A resource that the worker finds has the name of its condition.         *)

\* The resource that the worker finds for a condition, when it is of the
\* condition's kind, has the condition's name in this policy and belongs here.
LEMMA ResourceNamed ==
  ASSUME TypeOK, TitleInv, NeverRename, Step("conditions"), InLoop,
         NEW c \in Conditions, c = ResourceOf(Current, run.object.applied),
         KindOf[c] = TypeOf[Current.spec]
  PROVE  /\ BelongsAt(run.next, c, run.object.id)
         /\ \A o \in P!Copies(c) : /\ o.spec.policy = run.object.id
                                   /\ TitleOf[o.spec.spec] = TitleOf[Current.spec]
<1> DEFINE p == run.object.spec
           q == run.object.applied
           i == run.next
<1>1. /\ run.pc = "conditions" /\ run.pc # "idle"
      /\ run.object \in Object /\ p \in Policy /\ i \in DOMAIN p.conditions
      /\ q \in Policy \cup {Nothing}
  BY CurrentType, ObjectFields DEF InLoop, Step
<1>2. i \in Nat
  BY <1>1, RunBusy DEF Busy
<1>3. Asked(run.object) /\ InPlace(p, i, run.object.id)
  BY <1>1, <1>2 DEF TitleInv, PolicyNames, InVain
<1>4. /\ WithoutNames(p) \in Versions
      /\ i \in DOMAIN WithoutNames(p).conditions
      /\ WithoutNames(p).conditions[i] = Current.spec
      /\ Current.spec \in ConditionSpecs
  BY <1>1, <1>3, WithoutNamesFields DEF Asked, Current
<1>5. c # None
  BY ConstantsAssumption
<1>6. CASE Current.name # None
  <2>1. c = p.conditions[i].name
    BY <1>6 DEF ResourceOf, Current
  <2>2. BelongsAt(i, c, run.object.id)
    BY <1>3, <1>5, <2>1 DEF InPlace
  <2>3. QED
    BY <1>4, <2>2, SameNames DEF BelongsAt
<1>7. CASE Current.name = None
  <2> DEFINE same == {j \in DOMAIN q.conditions :
                        TitleOf[q.conditions[j].spec] = TitleOf[Current.spec]}
  <2>1. /\ same # {}
        /\ c = q.conditions[CHOOSE j \in same : \A l \in same : j <= l].name
    BY <1>5, <1>7 DEF ResourceOf
  <2>2. q \in Policy
    <3>1. DOMAIN Nothing.conditions = {}
      BY DEF Nothing
    <3>2. QED
      BY <1>1, <2>1, <3>1
  <2>3. q # Nothing
    BY <2>2, ConstantsAssumption DEF Policy, Nothing
  <2>4. PICK j \in DOMAIN q.conditions :
          /\ TitleOf[q.conditions[j].spec] = TitleOf[Current.spec]
          /\ c = q.conditions[j].name
    <3>1. (CHOOSE j \in same : \A l \in same : j <= l) \in same
      <4>1. \A j \in DOMAIN q.conditions : j \in Nat
        BY <2>2, PolicyFields
      <4>2. same \subseteq Nat
        BY <4>1
      <4> HIDE DEF same
      <4>3. \E j \in same : \A l \in same : j <= l
        BY <2>1, <4>2, LeastOne
      <4>4. QED
        BY <4>3
    <3>2. QED
      BY <2>1, <3>1
  <2>5. /\ WithoutNames(q) \in Versions
        /\ InPlace(q, j, run.object.id)
        /\ j \in DOMAIN WithoutNames(q).conditions
        /\ WithoutNames(q).conditions[j] = q.conditions[j].spec
        /\ q.conditions[j].spec \in ConditionSpecs
    BY <1>3, <2>2, <2>3, <2>4, WithoutNamesFields DEF Asked
  <2>6. TypeOf[q.conditions[j].spec] = KindOf[c]
    BY <1>4, <2>4, <2>5 DEF NeverRename
  <2>7. BelongsAt(j, c, run.object.id)
    BY <1>5, <2>4, <2>5 DEF InPlace
  <2>8. \A o \in P!Copies(c) : /\ o.spec.policy = run.object.id
                               /\ TitleOf[o.spec.spec] = TitleOf[Current.spec]
    BY <2>4, <2>5, <2>6, <2>7, SameNames DEF BelongsAt
  <2>9. ASSUME NEW v \in Versions, i \in DOMAIN v.conditions,
               TypeOf[v.conditions[i]] = KindOf[c]
        PROVE  TitleOf[v.conditions[i]] = TitleOf[Current.spec]
    BY <1>4, <2>9 DEF NeverRename
  <2>10. QED
    BY <2>7, <2>8, <2>9, SameNames DEF BelongsAt
<1>8. QED
  BY <1>6, <1>7

\* A write to a condition's resource by the policy's worker keeps the name of
\* one that was there and gives a new one the name of its condition.
Rehanded(c, o) ==
  /\ Handed(c, o)
  /\ o # None =>
       \/ store[c] # None /\ NameOf[o.spec] = NameOf[store[c].spec]
       \/ /\ revision[c] = 0
          /\ Step("conditions") /\ InLoop
          /\ KindOf[c] = TypeOf[Current.spec] /\ o.spec = Inherited(Current)

LEMMA UpdateKeepsName ==
  ASSUME TypeOK, Inv, TitleInv, NeverRename, UpdateCondition,
         NEW c \in Conditions, c = ResourceOf(Current, run.object.applied),
         KindOf[c] = TypeOf[Current.spec], store[c] # None
  PROVE  NameOf[Inherited(Current)] = NameOf[store[c].spec]
<1>1. Step("conditions") /\ InLoop
  BY DEF UpdateCondition
<1>2. store[c] \in P!Copies(c)
  BY Typed, Assumed, P!CopiesAre
<1>3. store[c].spec \in Specs
  BY <1>2, CopySpecs
<1>4. store[c].spec.policy = run.object.id
      /\ TitleOf[store[c].spec.spec] = TitleOf[Current.spec]
  BY <1>1, <1>2, ResourceNamed
<1>5. Inherited(Current) \in Specs
  BY <1>1, InheritedObject DEF Inv, PolicyInv
<1>6. /\ Inherited(Current).policy = run.object.id
      /\ Inherited(Current).spec = Current.spec
  BY DEF Inherited
<1>7. QED
  BY <1>3, <1>4, <1>5, <1>6, NameFields

LEMMA StepNamed ==
  ASSUME TypeOK, Inv, TitleInv, NeverRename, [Next]_vars
  PROVE  \/ OfControllers
         \/ P!Withheld
         \/ \E c \in Conditions, o \in P!Object \cup {None} : Rehanded(c, o)
<1>1. Inv => IdKnown /\ Written
  BY DEF Inv, PolicyInv
<1>2. CASE UNCHANGED vars
  <2>1. UNCHANGED <<ofConditions, faults, userOps>>
    BY <1>2 DEF vars
  <2>2. QED
    BY <2>1, Typed, Quiet DEF ofConditions
<1>3. CASE CreateCondition
  <2>1. Step("conditions") /\ InLoop
    BY <1>3 DEF CreateCondition
  <2>2. QED
    BY <1>1, <1>3, <2>1, CreateNames DEF Rehanded
<1>4. CASE UpdateCondition
  BY <1>4, UpdateNames, UpdateKeepsName DEF Rehanded
<1>5. CASE DeleteCondition
  BY <1>1, <1>5, DeleteNames DEF Rehanded
<1>6. CASE Call /\ ~CreateCondition /\ ~UpdateCondition /\ ~DeleteCondition
  BY <1>6, CallSide, DeletePolicySide DEF Call
<1>7. QED
  BY <1>2, <1>3, <1>4, <1>5, <1>6, OutsideSide, ControllersSide DEF Next

\* So the copies of a resource that was written keep its name.
LEMMA CopiesNamed ==
  ASSUME TypeOK, TypeOK', Inv, TitleInv, NeverRename, [Next]_vars,
         NEW c \in Conditions, NEW p \in P!Copies(c)'
  PROVE  \/ \E o \in P!Copies(c) : NameOf[p.spec] = NameOf[o.spec]
         \/ /\ revision[c] = 0
            /\ Step("conditions") /\ InLoop
            /\ KindOf[c] = TypeOf[Current.spec] /\ p.spec = Inherited(Current)
<1>1. P!TypeOK /\ P!LeakInv
  BY Typed, SameLeak DEF Inv
<1>2. P!TypeOK'
  BY StepSide, SideType
<1>3. CASE OfControllers
  BY <1>1, <1>2, <1>3, Assumed, P!CopiesKeepSpecs DEF OfControllers
<1>4. CASE P!Withheld
  BY <1>1, <1>4, Assumed, P!WithheldCopies
<1>5. ASSUME NEW d \in Conditions, NEW q \in P!Object \cup {None}, Rehanded(d, q)
      PROVE  \/ \E o \in P!Copies(c) : NameOf[p.spec] = NameOf[o.spec]
             \/ /\ revision[c] = 0
                /\ Step("conditions") /\ InLoop
                /\ KindOf[c] = TypeOf[Current.spec] /\ p.spec = Inherited(Current)
  <2>1. P!Put(d, q) /\ UNCHANGED <<cache, worker>>
    BY <1>5 DEF Rehanded, Handed
  <2>2. p \in P!Copies(c) \/ (c = d /\ p = q)
    BY <1>1, <1>2, <2>1, Assumed, P!PutCopies
  <2>3. p # None
    BY <1>2, Assumed, P!CopiesAreNext
  <2>4. store[d] # None => store[d] \in P!Copies(d)
    BY <1>1, Assumed, P!CopiesAre
  <2>5. QED
    BY <1>5, <2>2, <2>3, <2>4 DEF Rehanded
<1>6. QED
  BY <1>3, <1>4, <1>5, StepNamed

-----------------------------------------------------------------------------
(* What is said of resources and names holds after each step.              *)

LEMMA RevisionsGrow ==
  ASSUME TypeOK, ConditionSide, NEW c \in Conditions, revision[c] > 0
  PROVE  revision'[c] > 0
<1>1. P!TypeOK /\ revision[c] \in Nat
  BY Typed DEF P!TypeOK
<1>2. CASE OfControllers
  <2>1. \/ revision'[c] = revision[c]
        \/ revision'[c] = revision[c] + 1
    BY <1>1, <1>2, Assumed, P!Revisions DEF OfControllers
  <2>2. QED
    BY <1>1, <2>1
<1>3. CASE P!Withheld
  BY <1>3 DEF P!Withheld
<1>4. ASSUME NEW d \in Conditions, NEW o \in P!Object \cup {None}, Handed(d, o)
      PROVE  revision'[c] > 0
  <2>1. revision' = [revision EXCEPT ![d] = @ + 1]
    BY <1>4 DEF Handed, P!Put
  <2>2. QED
    BY <1>1, <2>1 DEF P!TypeOK
<1>5. QED
  BY <1>2, <1>3, <1>4 DEF ConditionSide

\* Where a resource belongs, it stays.
LEMMA BelongsKept ==
  ASSUME TypeOK, TypeOK', Inv, TitleInv, NeverRename, [Next]_vars,
         NEW i, NEW c \in Conditions, NEW id, BelongsAt(i, c, id)
  PROVE  BelongsAt(i, c, id)'
<1>1. id # None /\ revision[c] > 0
  BY DEF BelongsAt
<1>2. revision'[c] > 0
  BY <1>1, StepSide, RevisionsGrow
<1>3. ASSUME NEW p \in P!Copies(c)'
      PROVE  /\ p.spec.policy = id
             /\ \A v \in Versions :
                  i \in DOMAIN v.conditions /\ TypeOf[v.conditions[i]] = KindOf[c] =>
                    TitleOf[v.conditions[i]] = TitleOf[p.spec.spec]
  <2>1. PICK o \in P!Copies(c) : NameOf[p.spec] = NameOf[o.spec]
    BY <1>1, CopiesNamed
  <2>2. o.spec \in Specs
    BY CopySpecs
  <2>3. p.spec \in Specs
    BY CopySpecsNext
  <2>4. TitleOf[p.spec.spec] = TitleOf[o.spec.spec] /\ p.spec.policy = o.spec.policy
    BY <2>1, <2>2, <2>3, SameName
  <2>5. QED
    BY <2>4, SameNames DEF BelongsAt
<1>4. QED
  BY <1>1, <1>2, <1>3, SameNamesNext DEF BelongsAt

\* The resource that the worker makes for a condition belongs in its place.
LEMMA BelongsCreated ==
  ASSUME TypeOK, TypeOK', Inv, TitleInv, NeverRename, [Next]_vars,
         Step("conditions"), InLoop,
         NEW c \in Conditions, revision[c] = 0, KindOf[c] = TypeOf[Current.spec],
         NEW o, P!Put(c, o),
         NEW i, i = run.next, NEW id, id = run.object.id
  PROVE  BelongsAt(i, c, id)'
<1>1. id # None
  BY DEF Inv, PolicyInv, IdKnown, Step
<1>2. revision'[c] > 0
  BY Typed DEF P!Put, P!TypeOK
<1>3. P!Copies(c) = {}
  BY Unwritten
<1>4. ASSUME NEW p \in P!Copies(c)'
      PROVE  p.spec.policy = id /\ p.spec.spec = Current.spec
  BY <1>3, CopiesNamed DEF Inherited
<1>5. /\ run.pc = "conditions" /\ run.pc # "idle"
      /\ run.object \in Object /\ run.object.spec \in Policy
      /\ i \in DOMAIN run.object.spec.conditions
  BY CurrentType, ObjectFields DEF InLoop, Step
<1>6. WithoutNames(run.object.spec) \in Versions
  BY <1>5 DEF TitleInv, PolicyNames, Asked
<1>7. /\ i \in DOMAIN WithoutNames(run.object.spec).conditions
      /\ WithoutNames(run.object.spec).conditions[i] = Current.spec
  BY <1>5, WithoutNamesFields DEF Current
<1>8. ASSUME NEW v \in Versions, i \in DOMAIN v.conditions,
             TypeOf[v.conditions[i]] = KindOf[c]
      PROVE  TitleOf[v.conditions[i]] = TitleOf[Current.spec]
  BY <1>6, <1>7, <1>8 DEF NeverRename
<1>9. QED
  BY <1>1, <1>2, <1>4, <1>8, SameNamesNext DEF BelongsAt

LEMMA OneNameKept ==
  ASSUME TypeOK, TypeOK', Inv, TitleInv, NeverRename, [Next]_vars
  PROVE  OneName'
<1> SUFFICES ASSUME NEW c \in Conditions, NEW p \in P!Copies(c)', NEW q \in P!Copies(c)'
             PROVE  /\ NameOf[p.spec] = NameOf[q.spec]
                    /\ TypeOf[p.spec.spec] = KindOf[c]
  BY SameNamesNext DEF OneName
<1>1. p.spec \in Specs
  BY CopySpecsNext
<1>2. CASE revision[c] = 0
  <2>1. P!Copies(c) = {}
    BY <1>2, Unwritten
  <2>2. /\ KindOf[c] = TypeOf[Current.spec]
        /\ p.spec = Inherited(Current) /\ q.spec = Inherited(Current)
    BY <2>1, CopiesNamed
  <2>3. QED
    BY <2>2 DEF Inherited
<1>3. CASE revision[c] # 0
  <2>1. PICK o \in P!Copies(c) : NameOf[p.spec] = NameOf[o.spec]
    BY <1>3, CopiesNamed
  <2>2. PICK r \in P!Copies(c) : NameOf[q.spec] = NameOf[r.spec]
    BY <1>3, CopiesNamed
  <2>3. NameOf[o.spec] = NameOf[r.spec] /\ TypeOf[o.spec.spec] = KindOf[c]
    BY SameNames DEF TitleInv, OneName
  <2>4. o.spec \in Specs
    BY CopySpecs
  <2>5. TitleOf[p.spec.spec] = TitleOf[o.spec.spec]
    BY <1>1, <2>1, <2>4, SameName
  <2>6. p.spec.spec \in ConditionSpecs /\ o.spec.spec \in ConditionSpecs
    BY <1>1, <2>4, NameFields
  <2>7. QED
    BY <2>1, <2>2, <2>3, <2>5, <2>6 DEF NeverRename
<1>4. QED
  BY <1>2, <1>3

LEMMA OneWriter ==
  ASSUME TypeOK, TitleInv, NeverRename
  PROVE  P!DistinctWriters
<1> SUFFICES ASSUME NEW j \in Kinds, NEW k \in Kinds,
                    worker[j].pc = "write", worker[k].pc = "write",
                    NameOf[worker[j].object.spec] = NameOf[worker[k].object.spec]
             PROVE  j = k
  BY DEF P!DistinctWriters
<1>1. ASSUME NEW l \in Kinds, worker[l].pc = "write"
      PROVE  /\ worker[l].object.spec \in Specs
             /\ TypeOf[worker[l].object.spec.spec] = l
  <2>1. P!TypeOK /\ worker[l].pc # "idle"
    BY <1>1, Typed
  <2>2. worker[l].key \in Conditions /\ worker[l].object \in P!Object
    BY <2>1, Assumed, P!BusyType
  <2>3. worker[l].object \in P!Copies(worker[l].key)
    BY <2>1, <2>2, Assumed, P!CopiesAre
  <2>4. TypeOf[worker[l].object.spec.spec] = KindOf[worker[l].key]
    BY <2>2, <2>3, SameNames DEF TitleInv, OneName
  <2>5. KindOf[worker[l].key] = l
    BY <2>1 DEF TitleInv, C!OwnWorker
  <2>6. QED
    BY <2>2, <2>4, <2>5 DEF P!Object
<1>2. TitleOf[worker[j].object.spec.spec] = TitleOf[worker[k].object.spec.spec]
  BY <1>1, SameName
<1>3. worker[j].object.spec.spec \in ConditionSpecs
      /\ worker[k].object.spec.spec \in ConditionSpecs
  BY <1>1, NameFields
<1>4. QED
  BY <1>1, <1>2, <1>3 DEF NeverRename

LEMMA OwnWorkersKept ==
  ASSUME TypeOK, Inv, TitleInv, [Next]_vars
  PROVE  P!OwnWorker'
<1>1. P!TypeOK /\ P!LeakInv /\ P!OwnWorker
  BY Typed, SameLeak, SameNames DEF Inv, TitleInv
<1>2. CASE OfControllers
  BY <1>1, <1>2, Assumed, P!OwnWorkerKept DEF OfControllers
<1>3. CASE P!Withheld
  BY <1>1, <1>3, Assumed, P!WithheldOwnWorker
<1>4. CASE UNCHANGED <<cache, worker>>
  BY <1>1, <1>4 DEF P!OwnWorker
<1>5. QED
  BY <1>2, <1>3, <1>4, StepSide DEF ConditionSide, Handed

\* The names of the conditions in New Relic and of the copies stay in order.
LEMMA NamesKept ==
  ASSUME TypeOK, TypeOK', Inv, TitleInv, NeverRename, "search" \notin FaultKinds,
         [Next]_vars
  PROVE  P!NameInv'
<1>1. P!TypeOK /\ P!LeakInv /\ P!NameInv
  BY Typed, SameLeak, SameNames DEF Inv, TitleInv
<1>2. P!TypeOK'
  BY StepSide, SideType
<1>3. CASE OfControllers
  <2>1. P!DistinctWriters
    BY OneWriter
  <2>2. P!NeverRename
    BY DEF P!NeverRename, Edits
  <2>3. [P!Next]_(P!vars)
    BY <1>3 DEF OfControllers
  <2>4. P!RecordedName /\ P!StillMissing
    BY <1>1 DEF P!NameInv
  <2>5. P!RecordedName'
    BY <1>1, <1>2, <2>2, <2>3, <2>4, Assumed, P!RecordedNameKept
  <2>6. P!StillMissing'
    BY <1>1, <1>2, <2>1, <2>3, <2>4, Assumed, P!StillMissingKept
  <2>7. P!NoDuplicates'
    BY <1>1, <2>3, Assumed, P!NoDuplicatesKept
  <2>8. QED
    BY <2>5, <2>6, <2>7 DEF P!NameInv
<1>4. CASE P!Withheld
  BY <1>1, <1>4, Assumed, P!WithheldNames
<1>5. ASSUME NEW c \in Conditions, NEW o \in P!Object \cup {None}, Rehanded(c, o)
      PROVE  P!NameInv'
  <2>1. P!Put(c, o) /\ UNCHANGED <<cache, worker, nr>>
    BY <1>5 DEF Rehanded, Handed
  <2>2. o # None => \/ o.id = None
                    \/ /\ store[c] # None
                       /\ o.id = store[c].id
                       /\ NameOf[o.spec] = NameOf[store[c].spec]
    <3>1. revision[c] = 0 => store[c] = None
      BY DEF Inv, PolicyInv, Written
    <3>2. QED
      BY <1>5, <3>1 DEF Rehanded, Handed
  <2>3. QED
    BY <1>1, <1>2, <2>1, <2>2, Assumed, P!PutNames
<1>6. QED
  BY <1>3, <1>4, <1>5, StepNamed

-----------------------------------------------------------------------------
(* What is said of the policy and of its copies.                           *)

\* A copy of the policy, or of the worker, that PolicyNames allows.
Sound(object) ==
  /\ Asked(object)
  /\ \A i \in DOMAIN object.spec.conditions : InPlace(object.spec, i, object.id)

Vain(r, i) == r.pc \in {"conditions", "stragglers"} /\ r.failed /\ i < r.next

RunSound(r) ==
  /\ Asked(r.object)
  /\ \A i \in DOMAIN r.object.spec.conditions :
       Vain(r, i) \/ InPlace(r.object.spec, i, r.object.id)
  /\ r.pc \in {"search", "create"} => r.object.id = None

CopiesSound == \A object \in {policy.object, copy.object} \ {None} : Sound(object)

WorkerSound == \A r \in {run} : r.pc # "idle" => RunSound(r)

LEMMA NamesParts == PolicyNames <=> CopiesSound /\ WorkerSound
BY DEF PolicyNames, CopiesSound, WorkerSound, Sound, RunSound, Vain, InVain

LEMMA InPlaceKept ==
  ASSUME TypeOK, TypeOK', Inv, TitleInv, NeverRename, [Next]_vars,
         NEW p \in Policy, NEW i \in DOMAIN p.conditions, NEW id, InPlace(p, i, id)
  PROVE  InPlace(p, i, id)'
<1> SUFFICES ASSUME p.conditions[i].name # None
             PROVE  BelongsAt(i, p.conditions[i].name, id)'
  BY DEF InPlace
<1>1. p.conditions[i].name \in Conditions
  BY PolicyFields DEF Entry
<1>2. BelongsAt(i, p.conditions[i].name, id)
  BY DEF InPlace
<1>3. QED
  BY <1>1, <1>2, BelongsKept

LEMMA AskedKept ==
  ASSUME TypeOK, TypeOK', Inv, TitleInv, NeverRename, [Next]_vars,
         NEW o \in Object, Asked(o)
  PROVE  Asked(o)'
<1>1. o.applied \in Policy \cup {Nothing}
  BY ObjectFields
<1>2. WithoutNames(o.spec) \in Versions
  BY DEF Asked
<1>3. ASSUME o.applied # Nothing
      PROVE  /\ WithoutNames(o.applied) \in Versions
             /\ \A i \in DOMAIN o.applied.conditions : InPlace(o.applied, i, o.id)'
  <2>1. o.applied \in Policy
    BY <1>1, <1>3
  <2>2. WithoutNames(o.applied) \in Versions
    BY <1>3 DEF Asked
  <2>3. \A i \in DOMAIN o.applied.conditions : InPlace(o.applied, i, o.id)
    BY <1>3 DEF Asked
  <2>4. QED
    BY <2>1, <2>2, <2>3, InPlaceKept
<1>4. QED
  BY <1>2, <1>3 DEF Asked

LEMMA SoundKept ==
  ASSUME TypeOK, TypeOK', Inv, TitleInv, NeverRename, [Next]_vars,
         NEW o \in Object, Sound(o)
  PROVE  Sound(o)'
<1>1. o.spec \in Policy
  BY ObjectFields
<1>2. Asked(o) /\ \A i \in DOMAIN o.spec.conditions : InPlace(o.spec, i, o.id)
  BY DEF Sound
<1>3. Asked(o)'
  BY <1>2, AskedKept
<1>4. \A i \in DOMAIN o.spec.conditions : InPlace(o.spec, i, o.id)'
  BY <1>1, <1>2, InPlaceKept
<1>5. QED
  BY <1>3, <1>4 DEF Sound

LEMMA SoundAlike ==
  ASSUME NEW o, NEW q, Sound(o),
         q.spec = o.spec, q.applied = o.applied, q.id = o.id
  PROVE  Sound(q)
BY DEF Sound, Asked

\* A policy that has no id records no resource, and none can be out of place
\* when it gets one.
LEMMA AdoptSound ==
  ASSUME NEW o \in Object, Sound(o), o.id = None, NEW id \in PolicyIds
  PROVE  Sound([o EXCEPT !.id = id])
<1> DEFINE q == [o EXCEPT !.id = id]
<1>1. q.spec = o.spec /\ q.applied = o.applied /\ q.id = id
  BY DEF Object
<1>2. ASSUME NEW p, NEW i, InPlace(p, i, None) PROVE InPlace(p, i, id)
  BY <1>2 DEF InPlace, BelongsAt
<1> HIDE DEF q
<1>3. Asked(q)
  BY <1>1, <1>2 DEF Sound, Asked
<1>4. QED
  BY <1>1, <1>2, <1>3 DEF Sound, q

LEMMA SoundRun ==
  ASSUME TypeOK, TypeOK', Inv, TitleInv, NeverRename, [Next]_vars,
         NEW r, r.object \in Object, Sound(r.object),
         r.pc \in {"search", "create"} => r.object.id = None
  PROVE  RunSound(r)'
<1>1. Sound(r.object)'
  BY SoundKept
<1>2. QED
  BY <1>1 DEF Sound, RunSound

\* From one step of the worker to the next, with the same object.
LEMMA RunOn ==
  ASSUME TypeOK, TypeOK', Inv, TitleInv, NeverRename, [Next]_vars,
         NEW r \in Busy, RunSound(r),
         NEW s, s.object = r.object,
         s.pc \in {"search", "create"} => r.object.id = None,
         \A i : Vain(r, i) => Vain(s, i)
  PROVE  RunSound(s)'
<1>1. r.object \in Object /\ r.object.spec \in Policy
  BY ObjectFields DEF Busy
<1>2. Asked(r.object)'
  BY <1>1, AskedKept DEF RunSound
<1>3. ASSUME NEW i \in DOMAIN r.object.spec.conditions
      PROVE  Vain(s, i) \/ InPlace(r.object.spec, i, r.object.id)'
  <2>1. Vain(r, i) \/ InPlace(r.object.spec, i, r.object.id)
    BY DEF RunSound
  <2>2. QED
    BY <1>1, <2>1, InPlaceKept
<1>4. QED
  BY <1>2, <1>3 DEF RunSound, Vain

-----------------------------------------------------------------------------
(* The policy and the informer's copy of it.                               *)

LEMMA CopyMoves ==
  ASSUME TypeOK, [Next]_vars PROVE copy' \in {copy, policy}
<1>1. CASE UNCHANGED vars \/ PolicySync \/ Resync \/ Crash \/ ConditionControllers
  BY <1>1 DEF vars, ofPolicy, PolicySync, Resync, Crash, ConditionControllers
<1>2. CASE User \/ Reconcile
  BY <1>2, UserWrites, ReconcileBegins
<1>3. CASE Call
  BY <1>3 DEF Call, Search, CreatePolicy, UpdatePolicy, CreateCondition,
              UpdateCondition, EndConditions, DeleteCondition, EndDeletes,
              DeletePolicy, Save, Release, Step
<1>4. QED
  BY <1>1, <1>2, <1>3 DEF Next

\* What the users write: a new policy names no resource, an edited one keeps
\* names where they are or drops them.
LEMMA CreateSound ==
  ASSUME TypeOK, UserCreate
  PROVE  \E o \in Object : policy'.object = o /\ Sound(o)
<1>1. PICK p \in Given :
        Put([spec |-> Named(p, [i \in DOMAIN p.conditions |-> None]),
             deleting |-> FALSE, finalizer |-> FALSE, id |-> None,
             applied |-> Nothing])
  BY DEF UserCreate
<1> DEFINE name == [i \in DOMAIN p.conditions |-> None]
           s    == Named(p, name)
           o    == [spec |-> s, deleting |-> FALSE, finalizer |-> FALSE,
                    id |-> None, applied |-> Nothing]
<1>2. p \in Plain /\ p \in Versions
  BY ConstantsAssumption DEF Versions
<1>3. \A i \in DOMAIN p.conditions : name[i] = None
  OBVIOUS
<1>4. Put(o)
  BY <1>1
<1> HIDE DEF name
<1>5. /\ s \in Policy /\ WithoutNames(s) = p
      /\ \A i \in DOMAIN s.conditions : s.conditions[i].name = None
  <2>1. \A i \in DOMAIN p.conditions : name[i] \in SomeName
    BY <1>3 DEF SomeName
  <2>2. s \in Policy
    BY <1>2, <2>1, NamedType
  <2>3. /\ DOMAIN s.conditions = DOMAIN p.conditions
        /\ \A i \in DOMAIN p.conditions :
             s.conditions[i] = [name |-> name[i], spec |-> p.conditions[i]]
        /\ WithoutNames(s) = p
    BY <1>2, NamedFields
  <2>4. ASSUME NEW n, NEW e PROVE [name |-> n, spec |-> e].name = n
    OBVIOUS
  <2> HIDE DEF s
  <2>5. ASSUME NEW i \in DOMAIN s.conditions
        PROVE  s.conditions[i].name = None
    <3>1. name[i] = None
      BY <1>3, <2>3
    <3>2. s.conditions[i] = [name |-> name[i], spec |-> p.conditions[i]]
      BY <2>3
    <3>3. QED
      BY <2>4, <3>1, <3>2, Zenon
  <2>6. QED
    BY <2>2, <2>3, <2>5
<1> HIDE DEF s
<1>6. o \in Object
  BY <1>5 DEF Object
<1>7. Sound(o)
  BY <1>2, <1>5 DEF Sound, Asked, InPlace
<1> HIDE DEF o
<1>8. policy'.object = o
  BY <1>4, <1>6, PutPolicyType
<1>9. QED
  BY <1>6, <1>7, <1>8

LEMMA EditSound ==
  ASSUME TypeOK, TitleInv, UserEdit
  PROVE  \E o \in Object : policy'.object = o /\ Sound(o)
<1>1. PICK edit \in PolicyEdits, keep \in BOOLEAN :
        Put([policy.object EXCEPT !.spec = Named(edit[2],
          [i \in DOMAIN edit[2].conditions |->
             IF keep /\ i \in DOMAIN policy.object.spec.conditions
             THEN policy.object.spec.conditions[i].name ELSE None])])
  BY DEF UserEdit
<1> DEFINE old  == policy.object
           name == [i \in DOMAIN edit[2].conditions |->
                      IF keep /\ i \in DOMAIN old.spec.conditions
                      THEN old.spec.conditions[i].name ELSE None]
           s    == Named(edit[2], name)
           o    == [old EXCEPT !.spec = s]
<1>2. edit[2] \in Plain /\ edit[2] \in Versions
  BY ConstantsAssumption DEF Versions
<1>3. old \in Object /\ old # None
  BY FoundType DEF UserEdit
<1>4. Sound(old)
  BY <1>3, NamesParts DEF TitleInv, CopiesSound
<1>5. \A i \in DOMAIN old.spec.conditions :
        old.spec.conditions[i].name \in SomeName
  BY <1>3, ObjectFields, PolicyFields DEF Entry, SomeName
<1>6. \A i \in DOMAIN edit[2].conditions :
        /\ name[i] \in SomeName
        /\ \/ name[i] = None
           \/ /\ i \in DOMAIN old.spec.conditions
              /\ name[i] = old.spec.conditions[i].name
  BY <1>5 DEF SomeName
<1>7. Put(o)
  BY <1>1
<1> HIDE DEF name
<1>8. s \in Policy /\ WithoutNames(s) = edit[2]
  BY <1>2, <1>6, NamedType, NamedFields
<1>9. \A i \in DOMAIN s.conditions :
        \/ s.conditions[i].name = None
        \/ /\ i \in DOMAIN old.spec.conditions
           /\ s.conditions[i].name = old.spec.conditions[i].name
  <2>1. /\ DOMAIN s.conditions = DOMAIN edit[2].conditions
        /\ \A i \in DOMAIN edit[2].conditions :
             s.conditions[i] = [name |-> name[i], spec |-> edit[2].conditions[i]]
    BY <1>2, NamedFields
  <2> HIDE DEF s
  <2>2. ASSUME NEW i \in DOMAIN s.conditions
        PROVE  s.conditions[i].name = name[i]
    <3>1. s.conditions[i] = [name |-> name[i], spec |-> edit[2].conditions[i]]
      BY <2>1
    <3>2. QED
      BY <3>1
  <2>3. QED
    BY <1>6, <2>1, <2>2
<1> HIDE DEF s
<1>10. o \in Object
  BY <1>3, <1>8, ObjectFields
<1>11. o.spec = s /\ o.id = old.id /\ o.applied = old.applied
  BY <1>3 DEF Object
<1> HIDE DEF o, old
<1>12. Sound(o)
  BY <1>2, <1>4, <1>8, <1>9, <1>11 DEF Sound, Asked, InPlace
<1>13. policy'.object = o
  BY <1>7, <1>10, PutPolicyType
<1>14. QED
  BY <1>10, <1>12, <1>13

\* Whoever writes the policy writes a sound one: the worker only when no
\* condition has failed.
LEMMA WrittenSound ==
  ASSUME TypeOK, TitleInv, [Next]_vars, policy'.object # None
  PROVE  \E o \in Object : policy'.object = o /\ Sound(o)
<1>1. CASE UNCHANGED policy
  <2>1. policy.object \in Object /\ policy.object # None
    BY <1>1, FoundType
  <2>2. Sound(policy.object)
    BY <2>1, NamesParts DEF TitleInv, CopiesSound
  <2>3. QED
    BY <1>1, <2>1, <2>2
<1>2. CASE UserDelete
  <2>1. policy.object \in Object /\ policy.object # None
    BY <1>2, FoundType DEF UserDelete
  <2>2. Sound(policy.object)
    BY <2>1, NamesParts DEF TitleInv, CopiesSound
  <2>3. policy'.object = Deleted(policy.object)
    BY <1>2 DEF UserDelete, Put
  <2> DEFINE o == [policy.object EXCEPT !.deleting = TRUE]
  <2>4. policy'.object = o
    BY <2>3 DEF Deleted
  <2>5. o \in Object
    BY <2>1, ObjectFields
  <2>6. o.spec = policy.object.spec /\ o.applied = policy.object.applied
        /\ o.id = policy.object.id
    BY <2>1 DEF Object
  <2> HIDE DEF o
  <2>7. Sound(o)
    BY <2>2, <2>6, SoundAlike
  <2>8. QED
    BY <2>4, <2>5, <2>7
<1>3. ASSUME Save, run.object \in Object,
             policy'.object = [run.object EXCEPT !.applied = run.object.spec]
      PROVE  \E o \in Object : policy'.object = o /\ Sound(o)
  <2> DEFINE o == [run.object EXCEPT !.applied = run.object.spec]
  <2>1. run.pc = "save" /\ run.pc # "idle"
    BY <1>3 DEF Save, Step
  <2>2. RunSound(run)
    BY <2>1, NamesParts DEF TitleInv, WorkerSound
  <2>3. Sound(run.object)
    BY <2>1, <2>2 DEF RunSound, Vain, Sound
  <2>4. o \in Object
    BY <1>3, ObjectFields
  <2>5. o.spec = run.object.spec /\ o.applied = run.object.spec /\ o.id = run.object.id
    BY <1>3 DEF Object
  <2>6. policy'.object = o
    BY <1>3
  <2> HIDE DEF o
  <2>7. Sound(o)
    BY <2>3, <2>5 DEF Sound, Asked
  <2>8. QED
    BY <2>4, <2>6, <2>7
<1>4. QED
  BY <1>1, <1>2, <1>3, Writers, CreateSound, EditSound DEF User

LEMMA CopiesSoundKept ==
  ASSUME TypeOK, TypeOK', Inv, TitleInv, NeverRename, [Next]_vars
  PROVE  CopiesSound'
<1> SUFFICES ASSUME NEW o \in {policy'.object, copy'.object}, o # None
             PROVE  Sound(o)'
  BY DEF CopiesSound
<1>1. CASE o = policy'.object
  <2>1. o \in Object /\ Sound(o)
    BY <1>1, WrittenSound
  <2>2. QED
    BY <2>1, SoundKept
<1>2. CASE o = copy'.object
  <2>1. o \in {copy.object, policy.object}
    BY <1>2, CopyMoves
  <2>2. o \in Object
    BY <2>1, FoundType
  <2>3. Sound(o)
    BY <2>1, NamesParts DEF TitleInv, CopiesSound
  <2>4. QED
    BY <2>2, <2>3, SoundKept
<1>3. QED
  BY <1>1, <1>2

-----------------------------------------------------------------------------
(* The worker's copy: the loops.                                           *)

\* What a step of a loop leaves of the worker's copy: the name of one condition.
LEMMA ProcessedFields ==
  ASSUME TypeOK, Step("conditions"), InLoop,
         NEW name \in SomeName, NEW error \in BOOLEAN, Processed(name, error)
  PROVE  /\ run'.pc = "conditions"
         /\ run'.next = run.next + 1
         /\ run.failed \/ error => run'.failed
         /\ run'.object \in Object
         /\ run'.object.id = run.object.id
         /\ run'.object.applied = run.object.applied
         /\ WithoutNames(run'.object.spec) = WithoutNames(run.object.spec)
         /\ DOMAIN run'.object.spec.conditions = DOMAIN run.object.spec.conditions
         /\ run'.object.spec.conditions[run.next].name = name
         /\ \A i \in DOMAIN run.object.spec.conditions :
              i # run.next => run'.object.spec.conditions[i].name
                                = run.object.spec.conditions[i].name
<1> DEFINE k == run.next
           s == run.object.spec
           t == [s.conditions EXCEPT ![k].name = name]
           q == [s EXCEPT !.conditions[k].name = name]
           o == [run.object EXCEPT !.spec = q]
           d == run.done \cup ({name} \ {None})
           f == run.failed \/ error
<1>1. run \in Busy /\ run.object \in Object /\ s \in Policy /\ run.pc = "conditions"
  BY CurrentType, RunBusy, ObjectFields DEF Step
<1>2. run.next \in Nat
  BY <1>1 DEF Busy
<1>3. /\ q \in Policy /\ WithoutNames(q) = WithoutNames(s)
      /\ k \in DOMAIN s.conditions
  BY <1>1, RenamedType DEF InLoop
<1>4. [run.object EXCEPT !.spec.conditions[k].name = name] = o
  BY <1>1 DEF Object
<1>5. run' = [run EXCEPT !.next = k + 1, !.object = o, !.done = d, !.failed = f]
  BY <1>1, <1>4 DEF Processed, Busy
<1>6. q.conditions = t
  BY <1>1 DEF Policy
<1>7. \A i \in DOMAIN s.conditions : s.conditions[i] \in Entry
  BY <1>1, PolicyFields
<1>8. /\ DOMAIN t = DOMAIN s.conditions
      /\ t[k].name = name
      /\ \A i \in DOMAIN s.conditions : i # k => t[i] = s.conditions[i]
  BY <1>3, <1>7 DEF Entry
<1> HIDE DEF q, t
<1>9. o \in Object /\ o.spec = q /\ o.id = run.object.id
      /\ o.applied = run.object.applied
  BY <1>1, <1>3, ObjectFields DEF Object
<1> HIDE DEF o, d, f
<1>10. /\ run'.pc = run.pc /\ run'.object = o /\ run'.next = k + 1
       /\ run'.failed = f
  BY <1>1, <1>5 DEF Busy
<1>11. run.failed \/ error => run'.failed
  BY <1>10, Zenon DEF f
<1>12. QED
  BY <1>1, <1>3, <1>6, <1>8, <1>9, <1>10, <1>11

\* A condition gets the name of a resource that belongs in its place, or it has
\* failed.
LEMMA ProcessedSound ==
  ASSUME TypeOK, TypeOK', Inv, TitleInv, NeverRename, [Next]_vars,
         Step("conditions"), InLoop,
         NEW name \in SomeName, NEW error \in BOOLEAN, Processed(name, error),
         NEW k, k = run.next, NEW id, id = run.object.id,
         error \/ BelongsAt(k, name, id)'
  PROVE  WorkerSound'
<1> SUFFICES ASSUME NEW s, s = run' PROVE RunSound(s)'
  BY DEF WorkerSound
<1>1. PICK r \in Busy : r = run
  BY CurrentType, RunBusy
<1>2. RunSound(r) /\ r.pc = "conditions"
  BY <1>1, CurrentType, NamesParts DEF TitleInv, WorkerSound, Step
<1>3. /\ s.pc = "conditions"
      /\ s.next = k + 1
      /\ r.failed \/ error => s.failed
      /\ s.object.id = id /\ r.object.id = id
      /\ s.object.applied = r.object.applied
      /\ WithoutNames(s.object.spec) = WithoutNames(r.object.spec)
      /\ DOMAIN s.object.spec.conditions = DOMAIN r.object.spec.conditions
      /\ s.object.spec.conditions[k].name = name
      /\ \A i \in DOMAIN r.object.spec.conditions :
           i # k => s.object.spec.conditions[i].name
                      = r.object.spec.conditions[i].name
  BY <1>1, ProcessedFields
<1>4. r.object \in Object /\ r.object.spec \in Policy /\ k \in Nat /\ r.next = k
  BY <1>1, ObjectFields DEF Busy
<1>5. Asked(r.object)'
  BY <1>2, <1>4, AskedKept DEF RunSound
<1>6. Asked(s.object)'
  BY <1>3, <1>5 DEF Asked
<1>7. ASSUME NEW i \in DOMAIN r.object.spec.conditions
      PROVE  Vain(s, i) \/ InPlace(s.object.spec, i, id)'
  <2>1. i \in Nat
    BY <1>4, PolicyFields
  <2>2. CASE i = k
    <3>1. ~error => InPlace(s.object.spec, i, id)'
      BY <1>3, <2>2 DEF InPlace
    <3>2. error => Vain(s, i)
      BY <1>3, <1>4, <2>2 DEF Vain
    <3>3. QED
      BY <3>1, <3>2
  <2>3. CASE i # k
    <3>1. Vain(r, i) \/ InPlace(r.object.spec, i, id)
      BY <1>2, <1>3 DEF RunSound
    <3>2. Vain(r, i) => Vain(s, i)
      BY <1>2, <1>3, <1>4, <2>1 DEF Vain
    <3>3. InPlace(r.object.spec, i, id) => InPlace(r.object.spec, i, id)'
      BY <1>4, InPlaceKept
    <3>4. InPlace(r.object.spec, i, id)' => InPlace(s.object.spec, i, id)'
      BY <1>3, <2>3 DEF InPlace
    <3>5. QED
      BY <3>1, <3>2, <3>3, <3>4
  <2>4. QED
    BY <2>2, <2>3
<1>8. QED
  BY <1>3, <1>6, <1>7 DEF RunSound

LEMMA LoopSound ==
  ASSUME TypeOK, TypeOK', Inv, TitleInv, NeverRename, [Next]_vars,
         CreateCondition \/ UpdateCondition
  PROVE  WorkerSound'
<1>1. Step("conditions") /\ InLoop
  BY DEF CreateCondition, UpdateCondition
<1>2. IdKnown
  BY DEF Inv, PolicyInv
<1>3. PICK k, id : k = run.next /\ id = run.object.id
  OBVIOUS
<1>4. CASE CreateCondition
  <2>1. CASE Processed(Current.name, TRUE)
    BY <1>1, <1>3, <2>1, CurrentType, ProcessedSound
  <2>2. ASSUME NEW c \in Conditions, NEW o \in P!Object,
               revision[c] = 0, KindOf[c] = TypeOf[Current.spec],
               Handed(c, o), Processed(c, FALSE)
        PROVE  WorkerSound'
    <3>1. BelongsAt(k, c, id)'
      BY <1>1, <1>3, <2>2, BelongsCreated DEF Handed
    <3>2. QED
      BY <1>1, <1>3, <2>2, <3>1, ProcessedSound DEF SomeName
  <2>3. QED
    BY <1>2, <1>4, <2>1, <2>2, CreateNames
<1>5. CASE UpdateCondition
  <2>1. PICK c \in Conditions : c = ResourceOf(Current, run.object.applied)
    BY <1>5, UpdateNames
  <2>2. CASE Processed(c, TRUE)
    BY <1>1, <1>3, <2>2, ProcessedSound DEF SomeName
  <2>3. CASE KindOf[c] = TypeOf[Current.spec] /\ Processed(c, FALSE)
    <3>1. BelongsAt(k, c, id)
      BY <1>1, <1>3, <2>1, <2>3, ResourceNamed
    <3>2. BelongsAt(k, c, id)'
      BY <3>1, BelongsKept
    <3>3. QED
      BY <1>1, <1>3, <2>3, <3>2, ProcessedSound DEF SomeName
  <2>4. QED
    BY <1>5, <2>1, <2>2, <2>3, UpdateNames
<1>6. QED
  BY <1>4, <1>5

-----------------------------------------------------------------------------
(* The worker's copy: the other steps, and all together.                   *)

\* Where the worker goes on with an object that is sound.
LEMMA GoSound ==
  ASSUME TypeOK, TypeOK', Inv, TitleInv, NeverRename, [Next]_vars,
         run.pc # "idle", NEW step \in Pcs, NEW mode \in Modes,
         NEW o \in Object, Go(step, mode, o), Sound(o),
         step \in {"search", "create"} => o.id = None
  PROVE  WorkerSound'
<1> SUFFICES ASSUME NEW s, s = run' PROVE RunSound(s)'
  BY DEF WorkerSound
<1>1. s.pc = step /\ s.object = o
  BY GoType
<1>2. QED
  BY <1>1, SoundRun

LEMMA ReconcileSound ==
  ASSUME TypeOK, TypeOK', Inv, TitleInv, NeverRename, [Next]_vars,
         Reconcile, run' # run
  PROVE  WorkerSound'
<1> SUFFICES ASSUME NEW s, s = run' PROVE RunSound(s)'
  BY DEF WorkerSound
<1>1. copy.object \in Object
  BY ReconcileBegins
<1>2. Sound(copy.object) /\ copy.object # None
  BY <1>1, ObjectFields, NamesParts DEF TitleInv, CopiesSound
<1> DEFINE o == [copy.object EXCEPT !.finalizer = TRUE]
<1>3. o \in Object /\ copy.rev \in Nat
  BY <1>1, ObjectFields, FoundType
<1>4. o.spec = copy.object.spec /\ o.applied = copy.object.applied
      /\ o.id = copy.object.id
  BY <1>1, ObjectUpdates
<1>5. \/ s = At("deleteConditions", "delete", copy.object, copy.rev)
      \/ \E step \in {"search", "update", "conditions", "save"}, mode \in Modes :
           /\ step = "search" <=> copy.object.id = None
           /\ s = At(step, mode, o, copy.rev)
  BY ReconcileBegins
<1> HIDE DEF o
<1>6. {"deleteConditions", "search", "update", "conditions", "save"} \subseteq Pcs
      /\ "delete" \in Modes
  BY DEF Pcs, Modes
<1>7. Sound(o)
  BY <1>2, <1>4, SoundAlike
<1>8. CASE s = At("deleteConditions", "delete", copy.object, copy.rev)
  <2>1. s.pc = "deleteConditions" /\ s.object = copy.object
    BY <1>1, <1>3, <1>6, <1>8, AtType
  <2>2. QED
    BY <1>1, <1>2, <2>1, SoundRun
<1>9. ASSUME NEW step \in {"search", "update", "conditions", "save"},
             NEW mode \in Modes,
             step = "search" <=> copy.object.id = None,
             s = At(step, mode, o, copy.rev)
      PROVE  RunSound(s)'
  <2>1. s.pc = step /\ s.object = o
    BY <1>3, <1>6, <1>9, AtType
  <2>2. QED
    BY <1>3, <1>4, <1>7, <1>9, <2>1, SoundRun
<1>10. QED
  BY <1>5, <1>8, <1>9

LEMMA WorkerIs ==
  ASSUME TypeOK, TitleInv, run.pc # "idle"
  PROVE  /\ run \in Busy /\ run.object \in Object /\ RunSound(run)
         /\ run.pc \notin {"conditions", "stragglers"} \/ ~run.failed => Sound(run.object)
<1>1. run \in Busy /\ run.object \in Object
  BY RunBusy
<1>2. RunSound(run)
  BY NamesParts DEF TitleInv, WorkerSound
<1>3. QED
  BY <1>1, <1>2 DEF RunSound, Vain, Sound

LEMMA SearchSound ==
  ASSUME TypeOK, TypeOK', Inv, TitleInv, NeverRename, [Next]_vars, Search
  PROVE  WorkerSound'
<1> DEFINE goOn(o) == IF o.id = None THEN Go("create", "create", o)
                                     ELSE Go(AtUpdate(o), "update", o)
<1>1. run.pc = "search" /\ run.pc # "idle"
  BY DEF Search, Step
<1>2. goOn(run.object) \/ \E i \in PolicyIds : goOn([run.object EXCEPT !.id = i])
  BY DEF Search, Adopt
<1>3. Sound(run.object) /\ run.object \in Object /\ run.object.id = None
  BY <1>1, WorkerIs DEF RunSound
<1>4. /\ {"create", "save", "conditions", "update"} \subseteq Pcs
      /\ {"create", "update"} \subseteq Modes
  BY DEF Pcs, Modes
<1>5. ASSUME NEW o \in Object, goOn(o), Sound(o) PROVE WorkerSound'
  <2>1. CASE o.id = None
    <3>1. Go("create", "create", o)
      BY <1>5, <2>1
    <3>2. QED
      BY <1>1, <1>4, <1>5, <2>1, <3>1, GoSound
  <2>2. CASE o.id # None
    <3>1. Go(AtUpdate(o), "update", o)
      BY <1>5, <2>2
    <3>2. AtUpdate(o) \in {"save", "conditions", "update"}
      BY NextStep
    <3>3. QED
      BY <1>1, <1>4, <1>5, <3>1, <3>2, GoSound
  <2>3. QED
    BY <2>1, <2>2
<1>6. ASSUME NEW i \in PolicyIds
      PROVE  LET o == [run.object EXCEPT !.id = i] IN o \in Object /\ Sound(o)
  BY <1>3, ObjectFields, AdoptSound
<1> HIDE DEF goOn
<1>7. QED
  BY <1>2, <1>3, <1>5, <1>6

LEMMA CreatePolicySound ==
  ASSUME TypeOK, TypeOK', Inv, TitleInv, NeverRename, [Next]_vars,
         CreatePolicy, run' # Idle
  PROVE  WorkerSound'
<1>1. run.pc = "create" /\ run.pc # "idle"
  BY DEF CreatePolicy, Step
<1>2. Sound(run.object) /\ run.object \in Object /\ run.object.id = None
  BY <1>1, WorkerIs DEF RunSound
<1>3. /\ NewPolicy(run.object.spec.title)
      /\ Go("conditions", "create", [run.object EXCEPT !.id = FreshId])
  BY DEF CreatePolicy, Fail
<1>4. run.object.spec.title \in Titles
  BY <1>2, ObjectFields, PolicyFields
<1>5. FreshId \in PolicyIds
  BY <1>3, <1>4, NewPolicyType
<1>6. PICK o : o = [run.object EXCEPT !.id = FreshId]
  OBVIOUS
<1>7. o \in Object /\ Sound(o)
  BY <1>2, <1>5, <1>6, ObjectFields, AdoptSound
<1>8. "conditions" \in Pcs /\ "create" \in Modes /\ Go("conditions", "create", o)
  BY <1>3, <1>6 DEF Pcs, Modes
<1>9. QED
  BY <1>1, <1>7, <1>8, GoSound

LEMMA OnwardSound ==
  ASSUME TypeOK, TypeOK', Inv, TitleInv, NeverRename, [Next]_vars,
         UpdatePolicy \/ EndDeletes \/ DeletePolicy, run' # Idle
  PROVE  WorkerSound'
<1>1. PICK o : o = run.object
  OBVIOUS
<1>2. \E step \in Pcs \ {"search", "create"}, mode \in Modes : Go(step, mode, o)
  <2>1. CASE UpdatePolicy
    <3>1. Go(AtConditions(o), "update", o)
      BY <1>1, <2>1 DEF UpdatePolicy, Fail
    <3>2. QED
      BY <3>1, NextStep DEF Pcs, Modes
  <2>2. CASE EndDeletes
    <3>1. run.pc # "idle"
      BY <2>2 DEF EndDeletes
    <3>2. run.mode \in Modes
      BY <3>1, RunBusy
    <3>3. \/ Go("save", run.mode, o)
          \/ Go("delete", run.mode, o)
      BY <1>1, <2>2 DEF EndDeletes, Fail
    <3>4. {"save", "delete"} \subseteq Pcs \ {"search", "create"}
      BY DEF Pcs
    <3>5. QED
      BY <3>2, <3>3, <3>4
  <2>3. CASE DeletePolicy
    <3>1. Go("release", "delete", o)
      BY <1>1, <2>3 DEF DeletePolicy, Fail
    <3>2. QED
      BY <3>1 DEF Pcs, Modes
  <2>4. QED
    BY <2>1, <2>2, <2>3
<1>3. run.pc # "idle" /\ (run.pc \notin {"conditions", "stragglers"} \/ ~run.failed)
  BY DEF UpdatePolicy, EndDeletes, DeletePolicy, Step, Fail
<1>4. Sound(o) /\ o \in Object
  BY <1>1, <1>3, WorkerIs
<1>5. QED
  BY <1>2, <1>3, <1>4, GoSound

LEMMA SameObjectSound ==
  ASSUME TypeOK, TypeOK', Inv, TitleInv, NeverRename, [Next]_vars,
         run.pc # "idle", run'.object = run.object,
         \/ EndConditions
         \/ DeleteCondition
         \/ run' = run
  PROVE  WorkerSound'
<1> SUFFICES ASSUME NEW s, s = run' PROVE RunSound(s)'
  BY DEF WorkerSound
<1>1. PICK r \in Busy : r = run
  BY WorkerIs
<1>2. RunSound(r)
  BY <1>1, WorkerIs
<1>3. /\ s.next = r.next
      /\ r.failed => s.failed
      /\ \/ s.pc = r.pc
         \/ r.pc = "conditions" /\ s.pc = "stragglers"
  <2>1. CASE EndConditions
    BY <1>1, <2>1 DEF EndConditions, Step, Busy
  <2>2. CASE DeleteCondition
    BY <1>1, <2>2, DeleteNames DEF Inv, PolicyInv
  <2>3. CASE run' = run
    BY <1>1, <2>3
  <2>4. QED
    BY <2>1, <2>2, <2>3
<1>4. \A i : Vain(r, i) => Vain(s, i)
  BY <1>3 DEF Vain
<1>5. s.pc \in {"search", "create"} => r.object.id = None
  BY <1>2, <1>3 DEF RunSound
<1>6. s.object = r.object
  BY <1>1
<1>7. QED
  BY <1>2, <1>4, <1>5, <1>6, RunOn

LEMMA WorkerSoundKept ==
  ASSUME TypeOK, TypeOK', Inv, TitleInv, NeverRename, [Next]_vars
  PROVE  WorkerSound'
<1>1. CASE run' = Idle
  BY <1>1 DEF WorkerSound, Idle
<1>2. CASE run' = run
  <2>1. CASE run.pc = "idle"
    BY <1>2, <2>1 DEF WorkerSound
  <2>2. CASE run.pc # "idle"
    BY <1>2, <2>2, SameObjectSound
  <2>3. QED
    BY <2>1, <2>2
<1>3. ASSUME run' # Idle, run' # run PROVE WorkerSound'
  <2>1. CASE Reconcile
    BY <1>3, <2>1, ReconcileSound
  <2>2. CASE Search \/ CreatePolicy
    BY <1>3, <2>2, SearchSound, CreatePolicySound
  <2>3. CASE CreateCondition \/ UpdateCondition
    BY <2>3, LoopSound
  <2>4. CASE UpdatePolicy \/ EndDeletes \/ DeletePolicy
    BY <1>3, <2>4, OnwardSound
  <2>5. CASE EndConditions
    <3>1. run.pc # "idle"
      BY <2>5 DEF EndConditions, Step
    <3>2. run'.object = run.object
      BY <2>5, <3>1, RunBusy DEF EndConditions, Busy
    <3>3. QED
      BY <2>5, <3>1, <3>2, SameObjectSound
  <2>6. CASE DeleteCondition
    <3>1. run.pc # "idle"
      BY <2>6 DEF DeleteCondition
    <3>2. run'.object = run.object
      BY <2>6, DeleteNames DEF Inv, PolicyInv
    <3>3. QED
      BY <2>6, <3>1, <3>2, SameObjectSound
  <2>7. ~Save /\ ~Release
    BY <1>3, WriteStep
  <2>8. ~(UNCHANGED vars \/ User \/ PolicySync \/ Resync \/ Crash \/ ConditionControllers)
    BY <1>3, UserWrites DEF vars, ofPolicy, PolicySync, Resync, Crash,
                            ConditionControllers
  <2>9. QED
    BY <2>1, <2>2, <2>3, <2>4, <2>5, <2>6, <2>7, <2>8 DEF Next, Call
<1>4. QED
  BY <1>1, <1>2, <1>3

LEMMA InitTitle == Init => TitleInv
<1> SUFFICES ASSUME Init PROVE TitleInv
  OBVIOUS
<1>1. /\ store = [c \in Conditions |-> None]
      /\ cache = [c \in Conditions |-> [object |-> None, rev |-> 0]]
      /\ worker = [k \in Kinds |-> P!Idle]
      /\ nr = [i \in Ids |-> None]
  BY SameInit DEF Init, P!Init
<1>2. \A k \in Kinds : worker[k].pc = "idle" /\ worker[k].object = None
  BY <1>1 DEF P!Idle
<1>3. \A c \in Conditions : P!Copies(c) = {}
  BY <1>1, <1>2 DEF P!Copies
<1>4. P!OwnWorker /\ P!NameInv
  BY <1>1, <1>2, <1>3
  DEF P!OwnWorker, P!NameInv, P!RecordedName, P!StillMissing, P!NoDuplicates
<1>5. OneName
  BY <1>3, SameNames DEF OneName
<1>6. PolicyNames
  BY DEF Init, PolicyNames, Idle
<1>7. QED
  BY <1>4, <1>5, <1>6, SameNames DEF TitleInv

LEMMA StepTitle ==
  ASSUME TypeOK, TypeOK', Inv, TitleInv, NeverRename, "search" \notin FaultKinds,
         [Next]_vars
  PROVE  TitleInv'
<1>1. P!OwnWorker' /\ P!NameInv'
  BY OwnWorkersKept, NamesKept
<1>2. OneName'
  BY OneNameKept
<1>3. CopiesSound' /\ WorkerSound'
  BY CopiesSoundKept, WorkerSoundKept
<1>4. PolicyNames'
  BY <1>3, NamesParts, PTL
<1>5. QED
  BY <1>1, <1>2, <1>4, SameNamesNext DEF TitleInv

\* With conditions that are never renamed, and as long as the searches in New
\* Relic do not fail, the copies of a resource, their places in the policy and
\* the names in New Relic agree, in every interleaving and whatever else fails.
THEOREM TitleInvariant ==
  ASSUME NeverRename, "search" \notin FaultKinds
  PROVE  Spec => []TitleInv
<1>1. TypeOK /\ Inv /\ TypeOK' /\ TitleInv /\ [Next]_vars => TitleInv'
  BY StepTitle
<1>2. QED
  BY <1>1, InitTitle, Together, PTL DEF Spec

\* Then New Relic never holds two conditions of one name in one policy, although
\* a reconcile that failed, or a user who dropped the names, leaves resources
\* behind that share the condition with those made after them.
THEOREM NoneTwice ==
  ASSUME NeverRename, "search" \notin FaultKinds
  PROVE  Spec => []NoDuplicates
<1>1. TitleInv => NoDuplicates
  BY DEF TitleInv, C!NameInv, NoDuplicates
<1>2. QED
  BY <1>1, TitleInvariant, PTL
=============================================================================
