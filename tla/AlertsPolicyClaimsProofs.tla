---------------------- MODULE AlertsPolicyClaimsProofs ----------------------
(* An AppliedSpec that Equals the spec tells the truth of New Relic and of *)
(* the condition resources, for every set of titles, names, conditions,    *)
(* channels and ids and every choice of faults, for users who never go     *)
(* back.                                                                   *)
EXTENDS AlertsPolicyProofs

-----------------------------------------------------------------------------
(* The hypothesis under which an AppliedSpec tells the truth: users who    *)
(* never go back, so that what a version of the policy leaves behind is in *)
(* no later one.                                                           *)

Versions == Given \cup {e[1] : e \in Edits} \cup {e[2] : e \in Edits}

\* Equals, for what users write.
Alike(p, q) ==
  /\ p.title = q.title
  /\ p.key = q.key
  /\ Len(p.conditions) = Len(q.conditions)
  /\ Range(q.conditions) \subseteq Range(p.conditions)
  /\ Cardinality(p.channels) = Cardinality(q.channels)
  /\ q.channels \subseteq p.channels

\* What the condition at index i is, or is called, in an earlier and in a later
\* version, it is in those between.
Lasting(p, q, r, i) ==
  i \in DOMAIN p.conditions \cap DOMAIN r.conditions =>
    /\ p.conditions[i] = r.conditions[i] =>
         i \in DOMAIN q.conditions /\ q.conditions[i] = p.conditions[i]
    /\ NameOf[p.conditions[i]] = NameOf[r.conditions[i]] =>
         i \in DOMAIN q.conditions /\ NameOf[q.conditions[i]] = NameOf[p.conditions[i]]

\* Every edit goes forward in the order and changes what Equals compares; no
\* channel is removed; a title, a condition and its name that are given up do not
\* return; and conditions are edited, added and removed where they stand.
NeverBack(order) ==
  /\ \A e \in Edits : <<e[1], e[2]>> \in order
  /\ \A p, q \in Versions : <<p, q>> \in order =>
       ~Alike(q, p) /\ p.channels \subseteq q.channels
  /\ \A p, q, r \in Versions : <<p, q>> \in order /\ <<q, r>> \in order =>
       /\ <<p, r>> \in order
       /\ p.title = r.title => q.title = p.title
       /\ \A i \in Nat : Lasting(p, q, r, i)
  /\ \A p, q \in Versions : \A i \in DOMAIN p.conditions, j \in DOMAIN q.conditions :
       NameOf[p.conditions[i]] = NameOf[q.conditions[j]] => i = j

Written(o) == WithoutNames(o.spec)
Recorded(o) == WithoutNames(o.applied)

\* The version that the last reconcile to begin has read.
Seen == Written(IF worker.pc = "idle" THEN cache.object ELSE worker.object)

-----------------------------------------------------------------------------
(* The first part of the invariant: the copies of the policy.              *)

\* The worker's copy is no newer than the informer's, and that than the resource;
\* what a copy records is no newer than what it asks for, and what the resource
\* records no newer than what the worker has read.
VersionsInOrder(order) ==
  /\ \A o \in PolicyCopies :
       /\ Written(o) \in Versions
       /\ o.applied # Nothing =>
            Recorded(o) \in Versions /\ Upto(order, Recorded(o), Written(o))
  /\ worker.pc # "idle" =>
       /\ worker.rev <= cache.rev
       /\ store # None => cache.object # None
       /\ \A o \in {cache.object, store} \ {None} :
            Upto(order, Written(worker.object), Written(o))
  /\ cache.object # None /\ store # None =>
       Upto(order, Written(cache.object), Written(store))
  /\ store # None /\ store.applied # Nothing =>
       cache.object # None /\ Upto(order, Recorded(store), Seen)

\* The id and what was applied are recorded together; a worker has an id when it
\* goes on from the search and the creation; a deletion that a copy knows of goes
\* on; and there is nothing before the first write.
RecordedTogether ==
  /\ \A o \in {store, cache.object} \ {None} : o.id = None <=> o.applied = Nothing
  /\ worker.pc # "idle" =>
       (worker.object.id = None <=> worker.pc \in {"search", "create"})
  /\ worker.pc \in {"search", "create"} \/ worker.mode = "create" =>
       worker.object.applied = Nothing
  /\ \A o \in PolicyCopies : o.deleting => store = None \/ store.deleting
  /\ revision = 0 => store = None

\* The entries that the worker has not processed.
Untouched(i) ==
  \/ worker.pc \in {"search", "create", "update"} \cup Deletion
  \/ worker.pc = "conditions" /\ i >= worker.next

\* A name in a spec is that of the resource applied for its condition; before the
\* first save, it is one that the user wrote.
InPlace(o, i) ==
  o.spec.conditions[i].name \in
    IF o.applied = Nothing THEN {None, Manual}
    ELSE {None} \cup {o.applied.conditions[j].name :
                        j \in DOMAIN o.applied.conditions \cap {i}}

NamesInPlace ==
  /\ \A o \in {store, cache.object} \ {None} :
       \A i \in DOMAIN o.spec.conditions : InPlace(o, i)
  /\ worker.pc # "idle" =>
       \A i \in DOMAIN worker.object.spec.conditions :
         Untouched(i) => InPlace(worker.object, i)

\* A worker whose Update would be accepted has what the resource records, and has
\* changed no name but those of the conditions it has processed.  No worker finds
\* a channel to remove.
WorkerKnows ==
  /\ worker.pc \notin {"idle"} \cup Deletion /\ ~Conflict =>
       LET o == worker.object IN
       /\ o.applied = store.applied
       /\ store.id # None => o.id = store.id
       /\ \A i \in DOMAIN o.spec.conditions :
            Untouched(i) => o.spec.conditions[i] = store.spec.conditions[i]
  /\ worker.pc # "unlink"
  /\ worker.pc = "conditions" => worker.next >= 1

CopiesInv(order) ==
  VersionsInOrder(order) /\ RecordedTogether /\ NamesInPlace /\ WorkerKnows

-----------------------------------------------------------------------------
(* Versions.                                                               *)

LEMMA VersionsPlain ==
  ASSUME NEW p \in Versions
  PROVE  /\ Valid(p) /\ p \in Plain
         /\ DOMAIN p.conditions = 1 .. Len(p.conditions) /\ Len(p.conditions) \in Nat
         /\ \A i \in DOMAIN p.conditions : p.conditions[i] \in CondSpecs
<1>1. Valid(p) /\ p \in Plain
  BY ConstantsAssumption DEF Versions, Valid
<1>2. p.conditions \in Seq(CondSpecs)
  BY <1>1 DEF Plain
<1>3. QED
  BY <1>1, <1>2

LEMMA UptoTrans ==
  ASSUME NEW order, NeverBack(order), NEW p \in Versions, NEW q \in Versions,
         NEW r \in Versions, Upto(order, p, q), Upto(order, q, r)
  PROVE  Upto(order, p, r)
BY DEF NeverBack, Upto

LEMMA UptoKeeps ==
  ASSUME NEW order, NeverBack(order), NEW p \in Versions, NEW q \in Versions,
         Upto(order, p, q)
  PROVE  p.channels \subseteq q.channels
BY DEF NeverBack, Upto

\* Between two versions that agree there is nothing else.
LEMMA Between ==
  ASSUME NEW order, NeverBack(order), NEW p \in Versions, NEW q \in Versions,
         NEW r \in Versions, Upto(order, p, q), Upto(order, q, r)
  PROVE  /\ p.title = r.title => q.title = p.title
         /\ \A i \in DOMAIN p.conditions \cap DOMAIN r.conditions :
              /\ p.conditions[i] = r.conditions[i] =>
                   i \in DOMAIN q.conditions /\ q.conditions[i] = p.conditions[i]
              /\ NameOf[p.conditions[i]] = NameOf[r.conditions[i]] =>
                   /\ i \in DOMAIN q.conditions
                   /\ NameOf[q.conditions[i]] = NameOf[p.conditions[i]]
<1>1. \A i \in DOMAIN p.conditions : i \in Nat
  BY VersionsPlain
<1>2. CASE <<p, q>> \in order /\ <<q, r>> \in order
  <2>1. /\ p.title = r.title => q.title = p.title
        /\ \A i \in Nat : Lasting(p, q, r, i)
    BY <1>2 DEF NeverBack
  <2>2. QED
    BY <1>1, <2>1 DEF Lasting
<1>3. CASE p = q \/ q = r
  BY <1>3
<1>4. QED
  BY <1>2, <1>3 DEF Upto

\* A version that Equals takes for a later one is that one, and so are those between.
LEMMA NoneBetween ==
  ASSUME NEW order, NeverBack(order), NEW p \in Versions, NEW q \in Versions,
         NEW r \in Versions, Upto(order, p, q), Upto(order, q, r), Alike(r, p)
  PROVE  p = r /\ q = p
<1>1. p = r
  <2>1. Upto(order, p, r)
    BY UptoTrans
  <2>2. QED
    BY <2>1 DEF Upto, NeverBack
<1>2. <<p, p>> \notin order
  BY <1>1 DEF NeverBack
<1>3. QED
  BY <1>1, <1>2 DEF Upto, NeverBack

LEMMA WithoutNamesFields ==
  ASSUME NEW p \in Policy \cup {Nothing}
  PROVE  LET q == WithoutNames(p) IN
         /\ q.title = p.title /\ q.key = p.key /\ q.channels = p.channels
         /\ DOMAIN q.conditions = DOMAIN p.conditions
         /\ DOMAIN p.conditions = 1 .. Len(p.conditions) /\ Len(p.conditions) \in Nat
         /\ Len(q.conditions) = Len(p.conditions)
         /\ \A i \in DOMAIN p.conditions : q.conditions[i] = p.conditions[i].spec
<1> DEFINE new == [i \in DOMAIN p.conditions |-> p.conditions[i].spec]
<1>1. WithoutNames(p) = [p EXCEPT !.conditions = new]
  BY DEF WithoutNames
<1>2. DOMAIN p.conditions = 1 .. Len(p.conditions) /\ Len(p.conditions) \in Nat
  BY PolicyFields DEF Nothing
<1>3. Len(new) = Len(p.conditions)
  BY <1>2
<1>4. DOMAIN new = DOMAIN p.conditions
  OBVIOUS
<1>5. \A i \in DOMAIN p.conditions : new[i] = p.conditions[i].spec
  OBVIOUS
<1> HIDE DEF new
<1>6. LET q == [p EXCEPT !.conditions = new] IN
      q.title = p.title /\ q.key = p.key /\ q.channels = p.channels /\ q.conditions = new
  BY DEF Policy, Nothing
<1>7. QED
  BY <1>1, <1>2, <1>3, <1>4, <1>5, <1>6

\* Names come and go without changing what the users wrote.
LEMMA NamedFields ==
  ASSUME NEW p \in Plain, NEW name
  PROVE  /\ WithoutNames(Named(p, name)) = p
         /\ DOMAIN Named(p, name).conditions = DOMAIN p.conditions
         /\ \A i \in DOMAIN p.conditions :
              Named(p, name).conditions[i] = [name |-> name[i], spec |-> p.conditions[i]]
<1> DEFINE new == [i \in DOMAIN p.conditions |->
                     [name |-> name[i], spec |-> p.conditions[i]]]
           q   == [p EXCEPT !.conditions = new]
           old == [i \in DOMAIN new |-> new[i].spec]
<1>1. Named(p, name) = q
  BY DEF Named
<1>2. DOMAIN new = DOMAIN p.conditions
      /\ \A i \in DOMAIN p.conditions : new[i] = [name |-> name[i], spec |-> p.conditions[i]]
  OBVIOUS
<1>3. p.conditions = [i \in DOMAIN p.conditions |-> p.conditions[i]]
  <2>1. p.conditions \in Seq(CondSpecs)
    BY DEF Plain
  <2>2. p.conditions \in [1 .. Len(p.conditions) -> CondSpecs]
    BY <2>1
  <2>3. QED
    BY <2>2
<1>4. old = p.conditions
  BY <1>2, <1>3
<1> HIDE DEF new
<1>5. q.conditions = new /\ [q EXCEPT !.conditions = p.conditions] = p
  BY DEF Plain
<1>6. WithoutNames(q) = [q EXCEPT !.conditions = old]
  BY <1>5 DEF WithoutNames
<1> HIDE DEF q, old
<1>7. WithoutNames(Named(p, name)) = p
  BY <1>1, <1>4, <1>5, <1>6
<1>8. QED
  BY <1>1, <1>2, <1>5, <1>7

-----------------------------------------------------------------------------
(* The copies of the policy.                                               *)

\* What follows for one copy.
LEMMA CopyVersion ==
  ASSUME TypeOK, NEW order, CopiesInv(order), NEW o \in PolicyCopies
  PROVE  /\ o \in Object /\ o.spec \in Policy /\ o.applied \in Policy \cup {Nothing}
         /\ Written(o) \in Versions
         /\ o.applied # Nothing =>
              Recorded(o) \in Versions /\ Upto(order, Recorded(o), Written(o))
<1>1. o \in Object
  BY CopyType
<1>2. QED
  BY <1>1, ObjectFields DEF CopiesInv, VersionsInOrder

LEMMA InitCopies ==
  ASSUME NEW order, Init PROVE CopiesInv(order)
<1>1. PolicyCopies = {}
  BY DEF Init, PolicyCopies, Absent, Idle
<1>2. worker.pc = "idle" /\ worker.mode = "none" /\ store = None /\ cache.object = None
  BY DEF Init, Absent, Idle
<1>3. VersionsInOrder(order) /\ RecordedTogether /\ NamesInPlace /\ WorkerKnows
  BY <1>1, <1>2 DEF VersionsInOrder, RecordedTogether, NamesInPlace, WorkerKnows
<1>4. QED
  BY <1>3 DEF CopiesInv

\* A step that has nothing to do with the policy resource.
LEMMA SameCopies ==
  ASSUME NEW order, CopiesInv(order), UNCHANGED <<store, revision, cache, worker>>
  PROVE  CopiesInv(order)'
<1>1. PolicyCopies' = PolicyCopies
  BY DEF PolicyCopies
<1>2. VersionsInOrder(order)'
  BY <1>1 DEF CopiesInv, VersionsInOrder, Seen
<1>3. RecordedTogether'
  BY <1>1 DEF CopiesInv, RecordedTogether
<1>4. NamesInPlace' /\ WorkerKnows'
  BY DEF CopiesInv, NamesInPlace, WorkerKnows, Untouched, Conflict
<1>5. QED
  BY <1>2, <1>3, <1>4 DEF CopiesInv

\* The worker ends its reconcile, and has not written the resource.
LEMMA CopiesEnd ==
  ASSUME TypeOK, NEW order, NeverBack(order), CopiesInv(order), worker' = Idle,
         UNCHANGED <<store, revision, cache>>
  PROVE  CopiesInv(order)'
<1>1. worker'.pc = "idle" /\ worker'.mode = "none" /\ worker'.object = None
  BY DEF Idle
<1>2. PolicyCopies' \subseteq PolicyCopies
  BY <1>1 DEF PolicyCopies
<1>3. ASSUME store # None, store.applied # Nothing
      PROVE  cache.object # None /\ Upto(order, Recorded(store), Seen')
  <2>1. cache.object # None /\ Upto(order, Recorded(store), Seen)
    BY <1>3 DEF CopiesInv, VersionsInOrder
  <2>2. Seen' = Written(cache.object)
    BY <1>1 DEF Seen
  <2>3. CASE worker.pc = "idle"
    BY <2>1, <2>2, <2>3 DEF Seen
  <2>4. CASE worker.pc # "idle"
    <3>1. Upto(order, Recorded(store), Written(worker.object))
      BY <2>1, <2>4 DEF Seen
    <3>2. Upto(order, Written(worker.object), Written(cache.object))
      BY <2>1, <2>4, <1>3 DEF CopiesInv, VersionsInOrder
    <3>3. {store, cache.object, worker.object} \subseteq PolicyCopies
      BY <1>3, <2>1, <2>4, WorkerBusy, ObjectFields DEF PolicyCopies
    <3>4. /\ Recorded(store) \in Versions /\ Written(worker.object) \in Versions
          /\ Written(cache.object) \in Versions
      BY <1>3, <3>3, CopyVersion
    <3>5. Upto(order, Recorded(store), Written(cache.object))
      BY <3>1, <3>2, <3>4, UptoTrans DEF CopiesInv, VersionsInOrder
    <3>6. QED
      BY <2>1, <2>2, <3>5
  <2>5. QED
    BY <2>1, <2>3, <2>4
<1>4. VersionsInOrder(order)'
  BY <1>1, <1>2, <1>3 DEF CopiesInv, VersionsInOrder
<1>5. RecordedTogether'
  BY <1>1, <1>2 DEF CopiesInv, RecordedTogether
<1>6. NamesInPlace' /\ WorkerKnows'
  BY <1>1 DEF CopiesInv, NamesInPlace, WorkerKnows
<1>7. QED
  BY <1>4, <1>5, <1>6 DEF CopiesInv

\* What every call but the last one keeps of the worker's copy.
Advance ==
  /\ UNCHANGED <<store, revision, cache>>
  /\ worker.pc # "idle" /\ worker'.pc \in Steps \ {"unlink"}
  /\ worker'.rev = worker.rev
  /\ LET o == worker.object IN
     /\ worker'.object \in Object
     /\ worker'.object.applied = o.applied
     /\ worker'.object.deleting = o.deleting
     /\ o.id # None => worker'.object.id = o.id
     /\ worker'.object.id = None <=> worker'.pc \in {"search", "create"}
     /\ Written(worker'.object) = Written(o)
     /\ \A i \in DOMAIN o.spec.conditions : Untouched(i)' =>
          Untouched(i) /\ worker'.object.spec.conditions[i] = o.spec.conditions[i]
  /\ worker'.pc \in {"search", "create"} \/ worker'.mode = "create" =>
       worker.pc \in {"search", "create"} \/ worker.mode = "create"
  /\ worker'.pc \in Deletion <=> worker.pc \in Deletion
  /\ worker'.pc = "conditions" => worker'.next >= 1

LEMMA SameEntries ==
  ASSUME NEW o \in Object, NEW q \in Object, Written(o) = Written(q)
  PROVE  DOMAIN o.spec.conditions = DOMAIN q.spec.conditions
<1>1. o.spec \in Policy /\ q.spec \in Policy
  BY ObjectFields
<1>2. QED
  BY <1>1, WithoutNamesFields DEF Written

LEMMA CopiesAdvance ==
  ASSUME TypeOK, LeakInv, NEW order, CopiesInv(order), Advance
  PROVE  CopiesInv(order)'
<1> DEFINE o == worker.object
           q == worker'.object
<1>1. /\ worker'.pc # "idle" /\ o \in PolicyCopies /\ o \in Object /\ q \in Object
      /\ q # None /\ Written(q) = Written(o) /\ q.applied = o.applied
      /\ q.deleting = o.deleting
      /\ o.id # None => q.id = o.id
  BY WorkerBusy, ObjectFields DEF Advance, Steps, PolicyCopies
<1>2. DOMAIN q.spec.conditions = DOMAIN o.spec.conditions
  BY <1>1, SameEntries
<1>3. \A i \in DOMAIN o.spec.conditions : Untouched(i)' =>
        Untouched(i) /\ q.spec.conditions[i] = o.spec.conditions[i]
  BY DEF Advance
<1>4. Recorded(q) = Recorded(o)
  BY <1>1 DEF Recorded
<1>5. UNCHANGED <<store, revision, cache>> /\ worker'.rev = worker.rev
      /\ worker.pc # "idle" /\ worker'.pc # "unlink"
  BY DEF Advance
<1>6. \A p \in PolicyCopies' : p = q \/ p \in PolicyCopies
  BY <1>5 DEF PolicyCopies
<1>7. Seen' = Seen
  BY <1>1, <1>5 DEF Seen
<1> HIDE DEF o, q
<1>8. VersionsInOrder(order)'
  <2>1. \A p \in PolicyCopies' :
          /\ Written(p) \in Versions
          /\ p.applied # Nothing =>
               Recorded(p) \in Versions /\ Upto(order, Recorded(p), Written(p))
    BY <1>1, <1>4, <1>6 DEF CopiesInv, VersionsInOrder
  <2>2. /\ worker.rev <= cache.rev
        /\ store # None => cache.object # None
        /\ \A p \in {cache.object, store} \ {None} : Upto(order, Written(q), Written(p))
    BY <1>1, <1>5 DEF CopiesInv, VersionsInOrder, o
  <2>3. QED
    BY <1>5, <1>7, <2>1, <2>2 DEF CopiesInv, VersionsInOrder, q
<1>9. RecordedTogether'
  <2>1. \A p \in PolicyCopies' : p.deleting => store = None \/ store.deleting
    BY <1>1, <1>6 DEF CopiesInv, RecordedTogether
  <2>2. q.id = None <=> worker'.pc \in {"search", "create"}
    BY DEF Advance, q
  <2>3. worker'.pc \in {"search", "create"} \/ worker'.mode = "create" => q.applied = Nothing
    BY <1>1 DEF Advance, CopiesInv, RecordedTogether, o
  <2>4. QED
    BY <1>5, <2>1, <2>2, <2>3 DEF CopiesInv, RecordedTogether, q
<1>10. NamesInPlace'
  <2>1. ASSUME NEW i \in DOMAIN q.spec.conditions, Untouched(i)'
        PROVE  InPlace(q, i)
    <3>1. i \in DOMAIN o.spec.conditions /\ Untouched(i)
          /\ q.spec.conditions[i] = o.spec.conditions[i]
      BY <1>2, <1>3, <2>1
    <3>2. InPlace(o, i)
      BY <1>5, <3>1 DEF CopiesInv, NamesInPlace, o
    <3>3. QED
      BY <1>1, <3>1, <3>2 DEF InPlace
  <2>2. QED
    BY <1>5, <2>1 DEF CopiesInv, NamesInPlace, InPlace, q
<1>11. WorkerKnows'
  <2>1. ASSUME worker'.pc \notin Deletion, ~Conflict'
        PROVE  /\ q.applied = store.applied
               /\ store.id # None => q.id = store.id
               /\ \A i \in DOMAIN q.spec.conditions :
                    Untouched(i)' => q.spec.conditions[i] = store.spec.conditions[i]
    <3>1. worker.pc \notin {"idle"} \cup Deletion /\ ~Conflict
      BY <1>5, <2>1 DEF Advance, Conflict
    <3>2. /\ o.applied = store.applied
          /\ store.id # None => o.id = store.id
          /\ \A i \in DOMAIN o.spec.conditions :
               Untouched(i) => o.spec.conditions[i] = store.spec.conditions[i]
      BY <3>1 DEF CopiesInv, WorkerKnows, o
    <3>3. QED
      BY <1>1, <1>2, <1>3, <3>2
  <2>2. worker'.pc = "conditions" => worker'.next >= 1
    BY DEF Advance
  <2>3. QED
    BY <1>5, <2>1, <2>2 DEF WorkerKnows, q
<1>12. QED
  BY <1>8, <1>9, <1>10, <1>11 DEF CopiesInv

\* The informer gets the resource, in a running manager or in one that restarts.
LEMMA CopiesSync ==
  ASSUME TypeOK, LeakInv, NEW order, NeverBack(order), CopiesInv(order),
         PolicySync \/ Crash
  PROVE  CopiesInv(order)'
<1>1. /\ UNCHANGED <<store, revision>> /\ worker' \in {worker, Idle}
      /\ cache'.object = store /\ cache'.rev = revision
  BY DEF PolicySync, Crash, cluster
<1>2. \A o \in PolicyCopies' : o \in PolicyCopies
  BY <1>1 DEF PolicyCopies, Idle
<1>3. worker'.pc # "idle" => worker' = worker
  BY <1>1 DEF Idle
<1>4. ASSUME store # None
      PROVE  store \in PolicyCopies /\ Upto(order, Written(store), Written(store))
  BY <1>4 DEF PolicyCopies, Upto
<1>5. VersionsInOrder(order)'
  <2>1. \A p \in PolicyCopies' :
          /\ Written(p) \in Versions
          /\ p.applied # Nothing =>
               Recorded(p) \in Versions /\ Upto(order, Recorded(p), Written(p))
    BY <1>2 DEF CopiesInv, VersionsInOrder
  <2>2. worker'.pc # "idle" =>
          /\ worker'.rev <= cache'.rev
          /\ store # None => cache'.object # None
          /\ \A p \in {cache'.object, store} \ {None} :
               Upto(order, Written(worker'.object), Written(p))
    BY <1>1, <1>3 DEF CopiesInv, VersionsInOrder, LeakInv, WorkerCoherent
  <2>3. ASSUME store # None, store.applied # Nothing
        PROVE  cache'.object # None /\ Upto(order, Recorded(store), Seen')
    <3>1. CASE worker'.pc = "idle"
      <4>1. Seen' = Written(store)
        BY <1>1, <3>1 DEF Seen
      <4>2. QED
        BY <1>1, <1>4, <2>3, <4>1, CopyVersion
    <3>2. CASE worker'.pc # "idle"
      <4>1. Seen' = Seen
        BY <1>3, <3>2 DEF Seen
      <4>2. QED
        BY <1>1, <2>3, <4>1 DEF CopiesInv, VersionsInOrder
    <3>3. QED
      BY <3>1, <3>2
  <2>4. QED
    BY <1>1, <1>4, <2>1, <2>2, <2>3 DEF VersionsInOrder
<1>6. RecordedTogether'
  <2>1. worker'.mode = "create" => worker' = worker
    BY <1>1 DEF Idle
  <2>2. QED
    BY <1>1, <1>2, <1>3, <2>1 DEF CopiesInv, RecordedTogether
<1>7. NamesInPlace' /\ WorkerKnows'
  <2>1. worker'.pc = "idle" \/ worker' = worker
    BY <1>3
  <2>2. CASE worker'.pc = "idle"
    BY <1>1, <2>2 DEF CopiesInv, NamesInPlace, WorkerKnows
  <2>3. CASE worker' = worker
    BY <1>1, <2>3 DEF CopiesInv, NamesInPlace, WorkerKnows, Untouched, Conflict
  <2>4. QED
    BY <2>1, <2>2, <2>3
<1>8. QED
  BY <1>5, <1>6, <1>7 DEF CopiesInv

\* As channels are only added, there is none to remove.
LEMMA NothingToRemove ==
  ASSUME TypeOK, NEW order, NeverBack(order), CopiesInv(order), NEW o \in PolicyCopies
  PROVE  o.applied.channels \subseteq o.spec.channels
<1>1. /\ o.spec \in Policy /\ o.applied \in Policy \cup {Nothing}
      /\ Written(o) \in Versions
      /\ o.applied # Nothing =>
           Recorded(o) \in Versions /\ Upto(order, Recorded(o), Written(o))
  BY CopyVersion
<1>2. Written(o).channels = o.spec.channels /\ Recorded(o).channels = o.applied.channels
  BY <1>1, WithoutNamesFields DEF Written, Recorded
<1>3. CASE o.applied = Nothing
  BY <1>3 DEF Nothing
<1>4. CASE o.applied # Nothing
  BY <1>1, <1>2, <1>4, UptoKeeps
<1>5. QED
  BY <1>3, <1>4

LEMMA NoUnlinking ==
  ASSUME NEW o, o.applied.channels \subseteq o.spec.channels
  PROVE  /\ AtChannels(o) \in {"save", "link"}
         /\ AtConditions(o) \in {"save", "link", "conditions"}
         /\ AtUpdate(o) \in {"save", "link", "conditions", "update"}
<1>1. ToRemove(o) = {}
  BY DEF ToRemove
<1>2. QED
  BY <1>1 DEF AtChannels, AtConditions, AtUpdate

\* A reconcile begins with the informer's copy, to which it adds the finalizer.
LEMMA BeginFields ==
  ASSUME TypeOK, LeakInv, NEW order, NeverBack(order), CopiesInv(order),
         ReconcileDeletion \/ ReconcileSpec
  PROVE  LET o == worker'.object
             c == cache.object
         IN  /\ UNCHANGED <<store, revision, cache, resources, copies, policies, names, ids>>
             /\ worker.pc = "idle" /\ c \in PolicyCopies /\ c # None
             /\ \E step \in Steps \ {"unlink"}, mode \in {"create", "update", "delete"} :
                  worker' = At(step, mode, o, cache.rev)
             /\ o \in Object
             /\ o.spec = c.spec /\ o.applied = c.applied /\ o.id = c.id
             /\ o.deleting = c.deleting
             /\ o.id = None <=> worker'.pc = "search"
             /\ worker'.pc # "create" /\ worker'.rev = cache.rev
             /\ worker'.mode = "create" => worker'.pc = "search"
             /\ worker'.pc \in Deletion <=> c.deleting
             /\ worker'.pc \notin Deletion =>
                  worker'.pc = "search" \/ worker'.pc = AtUpdate(o)
<1>1. /\ UNCHANGED <<store, revision, cache, resources, copies, policies, names, ids>>
      /\ worker.pc = "idle" /\ cache.object # None /\ cache.object \in Object
      /\ cache.rev \in Nat
  BY DEF ReconcileDeletion, ReconcileSpec, Begin, Ready, NothingToDo, TypeOK, Versioned,
         cluster, conditions, newRelic
<1>2. cache.object \in PolicyCopies
  BY <1>1 DEF PolicyCopies
<1>3. CASE ReconcileDeletion
  <2>1. /\ worker' = At("deleteConditions", "delete", cache.object, cache.rev)
        /\ cache.object.deleting /\ cache.object.id # None
    BY <1>3 DEF ReconcileDeletion, Begin, NothingToDo
  <2>2. /\ worker'.pc = "deleteConditions" /\ worker'.mode = "delete"
        /\ worker'.object = cache.object /\ worker'.rev = cache.rev
    BY <2>1 DEF At
  <2>3. QED
    BY <1>1, <1>2, <2>1, <2>2 DEF Steps, Deletion
<1>4. CASE ReconcileSpec
  <2> DEFINE o == [cache.object EXCEPT !.finalizer = TRUE]
  <2>1. /\ ~cache.object.deleting
        /\ IF o.id = None THEN Begin("search", "create", o)
                          ELSE Begin(AtUpdate(o), "update", o)
    BY <1>4 DEF ReconcileSpec
  <2>2. o \in Object
    BY <1>1, ObjectFields
  <2>3. /\ o.spec = cache.object.spec /\ o.deleting = cache.object.deleting
        /\ o.id = cache.object.id /\ o.applied = cache.object.applied
    BY <1>1, ObjectUpdates
  <2> HIDE DEF o
  <2>4. AtUpdate(o) \in {"save", "link", "conditions", "update"}
    BY <1>2, <2>3, NothingToRemove, NoUnlinking
  <2>5. PICK step, mode :
          /\ worker' = At(step, mode, o, cache.rev)
          /\ \/ o.id = None /\ step = "search" /\ mode = "create"
             \/ o.id # None /\ step = AtUpdate(o) /\ mode = "update"
    BY <2>1 DEF Begin
  <2>6. /\ worker'.pc = step /\ worker'.mode = mode
        /\ worker'.object = o /\ worker'.rev = cache.rev
    BY <2>5 DEF At
  <2>7. step \in Steps \ {"unlink"} /\ step \notin Deletion /\ step # "create"
        /\ mode \in {"create", "update", "delete"} /\ (step = "search" <=> o.id = None)
        /\ (mode = "create" => step = "search")
    BY <2>4, <2>5 DEF Steps, Deletion
  <2>8. QED
    BY <1>1, <1>2, <2>1, <2>2, <2>3, <2>5, <2>6, <2>7
<1>5. QED
  BY <1>3, <1>4

LEMMA CopiesBegin ==
  ASSUME TypeOK, LeakInv, NEW order, NeverBack(order), CopiesInv(order),
         ReconcileDeletion \/ ReconcileSpec
  PROVE  CopiesInv(order)'
<1> DEFINE o == worker'.object
           c == cache.object
<1>1. /\ UNCHANGED <<store, revision, cache>>
      /\ worker.pc = "idle" /\ c \in PolicyCopies /\ c # None
      /\ o \in Object
      /\ o.spec = c.spec /\ o.applied = c.applied /\ o.id = c.id
      /\ o.deleting = c.deleting
      /\ o.id = None <=> worker'.pc = "search"
      /\ worker'.pc # "create" /\ worker'.rev = cache.rev
      /\ worker'.mode = "create" => worker'.pc = "search"
  BY BeginFields
<1>2. PICK step \in Steps \ {"unlink"}, mode \in {"create", "update", "delete"} :
        worker' = At(step, mode, o, cache.rev)
  BY BeginFields
<1>3. /\ worker'.pc = step /\ worker'.mode = mode
      /\ worker'.pc = "conditions" => worker'.next = 1
  BY <1>2 DEF At
<1>4. step # "idle" /\ step # "unlink"
  BY DEF Steps
<1>5. Written(o) = Written(c) /\ Recorded(o) = Recorded(c)
  BY <1>1 DEF Written, Recorded
<1>6. \A p \in PolicyCopies' : p = o \/ p \in PolicyCopies
  BY <1>1 DEF PolicyCopies
<1>7. c = cache.object /\ o = worker'.object
  OBVIOUS
<1>8. Upto(order, Written(o), Written(c)) /\ cache.rev \in Nat
  BY <1>5 DEF Upto, TypeOK, Versioned
<1> HIDE DEF o, c
<1>9. VersionsInOrder(order)'
  <2>1. \A p \in PolicyCopies' :
          /\ Written(p) \in Versions
          /\ p.applied # Nothing =>
               Recorded(p) \in Versions /\ Upto(order, Recorded(p), Written(p))
    BY <1>1, <1>5, <1>6 DEF CopiesInv, VersionsInOrder
  <2>2. \A p \in {cache.object, store} \ {None} : Upto(order, Written(o), Written(p))
    BY <1>1, <1>5, <1>7, <1>8 DEF CopiesInv, VersionsInOrder
  <2>3. Seen' = Seen
    BY <1>1, <1>3, <1>4, <1>5, <1>7 DEF Seen
  <2>4. QED
    BY <1>1, <1>7, <1>8, <2>1, <2>2, <2>3 DEF CopiesInv, VersionsInOrder
<1>10. RecordedTogether'
  <2>1. \A p \in PolicyCopies' : p.deleting => store = None \/ store.deleting
    BY <1>1, <1>6 DEF CopiesInv, RecordedTogether
  <2>2. o.id = None => o.applied = Nothing
    BY <1>1, <1>7 DEF CopiesInv, RecordedTogether
  <2>3. QED
    BY <1>1, <1>7, <2>1, <2>2 DEF CopiesInv, RecordedTogether
<1>11. NamesInPlace'
  <2>1. \A i \in DOMAIN o.spec.conditions : InPlace(o, i)
    <3>1. \A i \in DOMAIN c.spec.conditions : InPlace(c, i)
      BY <1>1, <1>7 DEF CopiesInv, NamesInPlace
    <3>2. QED
      BY <1>1, <3>1 DEF InPlace
  <2>2. QED
    BY <1>1, <1>7, <2>1 DEF CopiesInv, NamesInPlace, InPlace
<1>12. WorkerKnows'
  <2>1. ~Conflict' => store = c
    BY <1>1, <1>7 DEF Conflict, LeakInv, CacheCoherent
  <2>2. QED
    BY <1>1, <1>3, <1>4, <1>7, <2>1 DEF WorkerKnows
<1>13. QED
  BY <1>9, <1>10, <1>11, <1>12 DEF CopiesInv

\* What an edit makes of the resource: the next version, with the old names where
\* they were or with none.
LEMMA EditFields ==
  ASSUME TypeOK, UserEdit
  PROVE  /\ store \in Object /\ store' \in Object /\ store # None /\ store' # None
         /\ \E e \in Edits : e[1] = Written(store) /\ e[2] = Written(store')
         /\ store'.applied = store.applied /\ store'.id = store.id
         /\ store'.deleting = store.deleting
         /\ \A i \in DOMAIN store'.spec.conditions :
              \/ store'.spec.conditions[i].name = None
              \/ /\ i \in DOMAIN store.spec.conditions
                 /\ store'.spec.conditions[i].name = store.spec.conditions[i].name
<1>1. PICK edit \in Edits, keep \in BOOLEAN :
        /\ edit[1] = WithoutNames(store.spec)
        /\ Put([store EXCEPT !.spec = Named(edit[2],
             [i \in DOMAIN edit[2].conditions |->
                IF keep /\ i \in DOMAIN store.spec.conditions
                THEN store.spec.conditions[i].name ELSE None])])
  BY DEF UserEdit
<1> DEFINE name == [i \in DOMAIN edit[2].conditions |->
             IF keep /\ i \in DOMAIN store.spec.conditions
             THEN store.spec.conditions[i].name ELSE None]
           s == Named(edit[2], name)
<1>2. edit[2] \in Plain
  BY ConstantsAssumption DEF Valid
<1>3. \A i \in DOMAIN edit[2].conditions :
        \/ name[i] = None
        \/ i \in DOMAIN store.spec.conditions /\ name[i] = store.spec.conditions[i].name
  OBVIOUS
<1>4. store' = [store EXCEPT !.spec = s]
  BY <1>1 DEF Put
<1> HIDE DEF name
<1>5. /\ WithoutNames(s) = edit[2]
      /\ DOMAIN s.conditions = DOMAIN edit[2].conditions
      /\ \A i \in DOMAIN edit[2].conditions : s.conditions[i].name = name[i]
  <2>1. \A p \in Plain :
          /\ WithoutNames(Named(p, name)) = p
          /\ DOMAIN Named(p, name).conditions = DOMAIN p.conditions
          /\ \A i \in DOMAIN p.conditions :
               Named(p, name).conditions[i] = [name |-> name[i], spec |-> p.conditions[i]]
    BY NamedFields
  <2>2. /\ WithoutNames(s) = edit[2]
        /\ DOMAIN s.conditions = DOMAIN edit[2].conditions
        /\ \A i \in DOMAIN edit[2].conditions :
             s.conditions[i] = [name |-> name[i], spec |-> edit[2].conditions[i]]
    BY <1>2, <2>1
  <2> HIDE DEF s
  <2>3. ASSUME NEW i \in DOMAIN edit[2].conditions
        PROVE  s.conditions[i].name = name[i]
    <3>1. s.conditions[i] = [name |-> name[i], spec |-> edit[2].conditions[i]]
      BY <2>2
    <3>2. QED
      BY <3>1
  <2>4. QED
    BY <2>2, <2>3
<1> HIDE DEF s
<1>6. store \in Object /\ store # None /\ store' \in Object /\ store' # None
  BY EditType, ObjectFields DEF UserEdit, TypeOK
<1>7. /\ store'.spec = s /\ store'.applied = store.applied /\ store'.id = store.id
      /\ store'.deleting = store.deleting
  BY <1>4, <1>6 DEF Object
<1>8. edit[1] = Written(store) /\ edit[2] = Written(store')
  BY <1>1, <1>5, <1>7 DEF Written
<1>9. QED
  BY <1>3, <1>5, <1>6, <1>7, <1>8

\* A user changes the resource, and every worker comes too late to write it.
LEMMA CopiesWritten ==
  ASSUME TypeOK, TypeOK', LeakInv, NEW order, NeverBack(order), CopiesInv(order),
         User, store # None, store' # None,
         store'.applied = store.applied, store'.id = store.id,
         store.deleting => store'.deleting,
         Written(store') \in Versions, Upto(order, Written(store), Written(store')),
         \A i \in DOMAIN store'.spec.conditions : InPlace(store', i)
  PROVE  CopiesInv(order)'
<1>1. UNCHANGED <<cache, worker>> /\ revision' = revision + 1 /\ revision \in Nat
  BY DEF User, UserCreate, UserEdit, UserDelete, UserOp, Put, TypeOK
<1>2. \A o \in PolicyCopies' : o = store' \/ o \in PolicyCopies
  BY <1>1 DEF PolicyCopies
<1>3. /\ store \in PolicyCopies /\ Recorded(store') = Recorded(store)
      /\ Written(store) \in Versions
      /\ store.applied # Nothing =>
           Recorded(store) \in Versions /\ Upto(order, Recorded(store), Written(store))
  BY CopyVersion DEF PolicyCopies, Recorded
<1>4. Conflict' \/ worker.pc = "idle"
  BY <1>1, WorkerBusy DEF Conflict, LeakInv, WorkerCoherent
<1>5. VersionsInOrder(order)'
  <2>1. store'.applied # Nothing =>
          Recorded(store') \in Versions /\ Upto(order, Recorded(store'), Written(store'))
    BY <1>3, UptoTrans
  <2>2. \A p \in PolicyCopies' :
          /\ Written(p) \in Versions
          /\ p.applied # Nothing =>
               Recorded(p) \in Versions /\ Upto(order, Recorded(p), Written(p))
    BY <1>2, <2>1, CopyVersion
  <2>3. ASSUME NEW o \in {worker.object, cache.object}, o # None,
               Upto(order, Written(o), Written(store))
        PROVE  Upto(order, Written(o), Written(store'))
    <3>1. Written(o) \in Versions
      BY <2>3, CopyVersion DEF PolicyCopies
    <3>2. QED
      BY <1>3, <2>3, <3>1, UptoTrans
  <2>4. worker.pc # "idle" => worker.object # None
    BY WorkerBusy, ObjectFields
  <2>5. Seen' = Seen
    BY <1>1 DEF Seen
  <2>6. /\ cache.object # None => Upto(order, Written(cache.object), Written(store))
        /\ worker.pc # "idle" =>
             /\ worker.rev <= cache.rev
             /\ cache.object # None
             /\ Upto(order, Written(worker.object), Written(store))
             /\ cache.object # None =>
                  Upto(order, Written(worker.object), Written(cache.object))
        /\ store.applied # Nothing =>
             cache.object # None /\ Upto(order, Recorded(store), Seen)
    BY DEF CopiesInv, VersionsInOrder
  <2>7. QED
    BY <1>1, <1>3, <2>2, <2>3, <2>4, <2>5, <2>6 DEF VersionsInOrder
<1>6. RecordedTogether'
  BY <1>1, <1>2 DEF CopiesInv, RecordedTogether
<1>7. NamesInPlace'
  <2>1. /\ cache.object # None =>
             \A i \in DOMAIN cache.object.spec.conditions : InPlace(cache.object, i)
        /\ worker.pc # "idle" =>
             \A i \in DOMAIN worker.object.spec.conditions :
               Untouched(i) => InPlace(worker.object, i)
    BY DEF CopiesInv, NamesInPlace
  <2>2. QED
    BY <1>1, <2>1 DEF NamesInPlace, Untouched
<1>8. WorkerKnows'
  BY <1>1, <1>4 DEF CopiesInv, WorkerKnows
<1>9. QED
  BY <1>5, <1>6, <1>7, <1>8 DEF CopiesInv

\* The resource leaves the cluster.
LEMMA CopiesGone ==
  ASSUME TypeOK, LeakInv, NEW order, NeverBack(order), CopiesInv(order),
         store' = None, cache' = cache, revision' # 0,
         worker' = Idle \/ (worker' = worker /\ (Conflict' \/ worker.pc = "idle"))
  PROVE  CopiesInv(order)'
<1>1. PolicyCopies' \subseteq PolicyCopies
  BY DEF PolicyCopies, Idle
<1>2. worker'.pc # "idle" => worker' = worker
  BY DEF Idle
<1>3. \A p \in PolicyCopies' :
        /\ Written(p) \in Versions
        /\ p.applied # Nothing =>
             Recorded(p) \in Versions /\ Upto(order, Recorded(p), Written(p))
  BY <1>1, CopyVersion
<1>4. VersionsInOrder(order)'
  BY <1>2, <1>3 DEF CopiesInv, VersionsInOrder
<1>5. RecordedTogether'
  <2>1. worker'.mode = "create" \/ worker'.pc \in {"search", "create"} => worker' = worker
    BY DEF Idle
  <2>2. QED
    BY <1>1, <1>2, <2>1 DEF CopiesInv, RecordedTogether
<1>6. NamesInPlace' /\ WorkerKnows'
  <2>1. CASE worker' = Idle
    <3>1. worker'.pc = "idle"
      BY <2>1 DEF Idle
    <3>2. QED
      BY <3>1 DEF CopiesInv, NamesInPlace, WorkerKnows
  <2>2. CASE worker' = worker /\ (Conflict' \/ worker.pc = "idle")
    BY <2>2 DEF CopiesInv, NamesInPlace, WorkerKnows, Untouched
  <2>3. QED
    BY <2>1, <2>2
<1>7. QED
  BY <1>4, <1>5, <1>6 DEF CopiesInv

LEMMA CopiesUser ==
  ASSUME TypeOK, TypeOK', LeakInv, NEW order, NeverBack(order), CopiesInv(order), User
  PROVE  CopiesInv(order)'
<1>1. UNCHANGED <<cache, worker>> /\ revision' = revision + 1 /\ revision \in Nat
  BY DEF User, UserCreate, UserEdit, UserDelete, UserOp, Put, TypeOK
<1>2. Conflict' \/ worker.pc = "idle"
  BY <1>1, WorkerBusy DEF Conflict, LeakInv, WorkerCoherent
<1>3. CASE UserCreate
  <2>1. PICK p \in Given, name \in GivenNames :
          store' = [spec |-> Named(p, [i \in DOMAIN p.conditions |-> name]),
                    deleting |-> FALSE, finalizer |-> FALSE, id |-> None,
                    applied |-> Nothing]
    BY <1>3 DEF UserCreate, Put
  <2> DEFINE all == [i \in DOMAIN p.conditions |-> name]
             s   == Named(p, all)
  <2>2. \A i \in DOMAIN p.conditions : all[i] = name
    OBVIOUS
  <2>3. store' = [spec |-> s, deleting |-> FALSE, finalizer |-> FALSE, id |-> None,
                  applied |-> Nothing]
    BY <2>1
  <2> HIDE DEF all
  <2>4. p \in Plain /\ name \in {None, Manual} /\ p \in Versions
    BY ConstantsAssumption DEF Valid, Versions
  <2>5. /\ WithoutNames(s) = p /\ DOMAIN s.conditions = DOMAIN p.conditions
        /\ \A i \in DOMAIN p.conditions :
             s.conditions[i] = [name |-> all[i], spec |-> p.conditions[i]]
    BY <2>4, NamedFields
  <2> HIDE DEF s
  <2>6. /\ store'.spec = s /\ store'.applied = Nothing /\ store'.id = None
        /\ ~store'.deleting
    BY <2>3
  <2>7. \A i \in DOMAIN store'.spec.conditions : InPlace(store', i)
    <3>1. ASSUME NEW i \in DOMAIN store'.spec.conditions
          PROVE  store'.spec.conditions[i].name \in {None, Manual}
      <4>1. i \in DOMAIN p.conditions /\ store'.spec.conditions[i] = s.conditions[i]
        BY <2>5, <2>6
      <4>2. s.conditions[i] = [name |-> all[i], spec |-> p.conditions[i]]
        BY <2>5, <4>1
      <4>3. s.conditions[i].name = name
        BY <2>2, <4>1, <4>2
      <4>4. QED
        BY <2>4, <4>1, <4>3
    <3>2. QED
      BY <2>6, <3>1 DEF InPlace
  <2>8. store = None /\ revision = 0
    BY <1>3 DEF UserCreate
  <2>9. cache.object = None /\ worker.pc = "idle" /\ worker.object = None
    <3>1. cache.rev \in Nat
      BY DEF TypeOK, Versioned
    <3>2. cache.object = None
      BY <2>8, <3>1 DEF LeakInv, CacheCoherent
    <3>3. worker.pc = "idle"
      BY <2>8, WorkerBusy DEF LeakInv, WorkerCoherent
    <3>4. worker.object = None
      BY <3>3 DEF TypeOK, Busy, Steps, Idle
    <3>5. QED
      BY <3>2, <3>3, <3>4
  <2>10. PolicyCopies' \subseteq {store'}
    BY <1>1, <2>9 DEF PolicyCopies
  <2>11. Written(store') = p
    BY <2>5, <2>6 DEF Written
  <2>12. worker.mode # "create"
    BY <2>9 DEF TypeOK, Busy, Steps, Idle
  <2>13. VersionsInOrder(order)'
    BY <1>1, <2>4, <2>6, <2>9, <2>10, <2>11 DEF VersionsInOrder
  <2>14. RecordedTogether'
    BY <1>1, <2>6, <2>9, <2>10, <2>12 DEF RecordedTogether
  <2>15. NamesInPlace' /\ WorkerKnows'
    BY <1>1, <2>7, <2>9 DEF NamesInPlace, WorkerKnows
  <2>16. QED
    BY <2>13, <2>14, <2>15 DEF CopiesInv
<1>4. CASE UserEdit
  <2>1. /\ store \in Object /\ store' \in Object /\ store # None /\ store' # None
        /\ \E e \in Edits : e[1] = Written(store) /\ e[2] = Written(store')
        /\ store'.applied = store.applied /\ store'.id = store.id
        /\ store'.deleting = store.deleting
        /\ \A i \in DOMAIN store'.spec.conditions :
             \/ store'.spec.conditions[i].name = None
             \/ /\ i \in DOMAIN store.spec.conditions
                /\ store'.spec.conditions[i].name = store.spec.conditions[i].name
    BY <1>4, EditFields
  <2>2. Written(store') \in Versions /\ Upto(order, Written(store), Written(store'))
    BY <2>1 DEF NeverBack, Upto, Versions
  <2>3. ASSUME NEW i \in DOMAIN store'.spec.conditions
        PROVE  InPlace(store', i)
    <3>1. CASE store'.spec.conditions[i].name = None
      BY <3>1 DEF InPlace
    <3>2. CASE store'.spec.conditions[i].name # None
      <4>1. /\ i \in DOMAIN store.spec.conditions
            /\ store'.spec.conditions[i].name = store.spec.conditions[i].name
        BY <2>1, <3>2
      <4>2. InPlace(store, i)
        BY <2>1, <4>1 DEF CopiesInv, NamesInPlace
      <4>3. QED
        BY <2>1, <4>1, <4>2 DEF InPlace
    <3>3. QED
      BY <3>1, <3>2
  <2>4. QED
    BY <1>4, <2>1, <2>2, <2>3, CopiesWritten DEF User
<1>5. CASE UserDelete
  <2>1. store \in Object /\ store # None
    BY <1>5 DEF UserDelete, TypeOK
  <2>2. CASE store' = None
    BY <1>1, <1>2, <2>2, CopiesGone
  <2>3. CASE store' = [store EXCEPT !.deleting = TRUE]
    <3>1. /\ store' # None /\ store'.applied = store.applied /\ store'.id = store.id
          /\ store'.deleting /\ store'.spec = store.spec
      <4>1. store' \in Object /\ store' # None
        BY <2>1, <2>3, ObjectFields
      <4>2. /\ store'.applied = store.applied /\ store'.id = store.id
            /\ store'.deleting /\ store'.spec = store.spec
        BY <2>1, <2>3 DEF Object
      <4>3. QED
        BY <4>1, <4>2
    <3>2. /\ Written(store') = Written(store) /\ Written(store) \in Versions
          /\ Upto(order, Written(store), Written(store'))
      BY <2>1, <3>1, CopyVersion DEF Written, Upto, PolicyCopies
    <3>3. \A i \in DOMAIN store.spec.conditions : InPlace(store, i)
      BY <2>1 DEF CopiesInv, NamesInPlace
    <3>4. \A i \in DOMAIN store'.spec.conditions : InPlace(store', i)
      BY <3>1, <3>3 DEF InPlace
    <3>5. QED
      BY <1>5, <2>1, <3>1, <3>2, <3>4, CopiesWritten DEF User
  <2>4. QED
    BY <1>5, <2>2, <2>3 DEF UserDelete, Put, Deleted
<1>6. QED
  BY <1>3, <1>4, <1>5 DEF User

LEMMA GoAdvances ==
  ASSUME TypeOK, worker.pc # "idle", UNCHANGED <<store, revision, cache>>,
         NEW step \in Steps \ {"unlink"}, NEW mode \in {"create", "update", "delete"},
         NEW o \in Object, Go(step, mode, o),
         o.spec = worker.object.spec, o.applied = worker.object.applied,
         o.deleting = worker.object.deleting,
         worker.object.id # None => o.id = worker.object.id,
         o.id = None <=> step \in {"search", "create"},
         step \in {"search", "create"} \/ mode = "create" =>
           worker.pc \in {"search", "create"} \/ worker.mode = "create",
         step \in Deletion <=> worker.pc \in Deletion,
         \/ step \in {"save", "link"}
         \/ worker.pc \in {"search", "create", "update"} \cup Deletion
  PROVE  Advance
<1>1. /\ worker'.pc = step /\ worker'.rev = worker.rev /\ worker'.mode = mode
      /\ worker'.object = o
      /\ step = "conditions" => worker'.next = 1
  BY DEF Go, At
<1>2. Written(o) = Written(worker.object)
  BY DEF Written
<1>3. \A i \in DOMAIN worker.object.spec.conditions : Untouched(i)' => Untouched(i)
  <2>1. CASE worker.pc \in {"search", "create", "update"} \cup Deletion
    BY <2>1 DEF Untouched
  <2>2. CASE step \in {"save", "link"}
    BY <1>1, <2>2 DEF Untouched, Deletion
  <2>3. QED
    BY <2>1, <2>2
<1>4. QED
  BY <1>1, <1>2, <1>3 DEF Advance

\* What processing a condition changes.
LEMMA ProcessedFields ==
  ASSUME TypeOK, InLoop, NEW name \in SomeName, NEW error \in BOOLEAN,
         Processed(name, error)
  PROVE  LET o == worker.object
             q == worker'.object
             k == worker.next
         IN  /\ worker'.pc = "conditions" /\ worker'.mode = worker.mode
             /\ worker'.rev = worker.rev /\ worker'.next = k + 1 /\ k \in Nat
             /\ worker'.done = worker.done \cup ({name} \ {None})
             /\ worker'.failed = (worker.failed \/ error)
             /\ o \in Object /\ q \in Object /\ q.applied = o.applied
             /\ q.id = o.id /\ q.deleting = o.deleting
             /\ Written(q) = Written(o)
             /\ DOMAIN q.spec.conditions = DOMAIN o.spec.conditions
             /\ k \in DOMAIN o.spec.conditions
             /\ \A i \in DOMAIN o.spec.conditions \ {k} :
                  q.spec.conditions[i] = o.spec.conditions[i]
             /\ q.spec.conditions[k].name = name
             /\ q.spec.conditions[k].spec = Current.spec
<1> DEFINE k   == worker.next
           s   == worker.object.spec
           e   == [s.conditions[k] EXCEPT !.name = name]
           new == [s.conditions EXCEPT ![k] = e]
           p   == [s EXCEPT !.conditions = new]
           o   == [worker.object EXCEPT !.spec = p]
           d   == worker.done \cup ({name} \ {None})
           f   == worker.failed \/ error
<1>1. /\ worker \in Busy /\ worker.object \in Object /\ s \in Policy
      /\ k \in DOMAIN s.conditions /\ worker.pc = "conditions" /\ k \in Nat
  BY WorkerBusy, ObjectFields DEF InLoop, Busy
<1>2. [s EXCEPT !.conditions[k].name = name] = p
  BY <1>1 DEF Policy
<1>3. [worker.object EXCEPT !.spec.conditions[k].name = name] = o
  BY <1>1, <1>2 DEF Object
<1>4. worker' = [worker EXCEPT !.next = k + 1, !.object = o, !.done = d, !.failed = f]
  BY <1>1, <1>3 DEF Processed, Busy
<1>5. s.conditions[k] \in Entry
  BY <1>1, PolicyFields
<1>6. e.name = name /\ e.spec = s.conditions[k].spec
  BY <1>5 DEF Entry
<1> HIDE DEF e
<1>7. /\ DOMAIN new = DOMAIN s.conditions /\ new[k] = e
      /\ \A i \in DOMAIN s.conditions \ {k} : new[i] = s.conditions[i]
  BY <1>1
<1> HIDE DEF new
<1>8. p.conditions = new
  BY <1>1 DEF Policy
<1> HIDE DEF p
<1>9. o.spec = p /\ o.applied = worker.object.applied
  BY <1>1 DEF Object
<1> HIDE DEF o, d, f
<1>10. /\ worker'.pc = worker.pc /\ worker'.mode = worker.mode
       /\ worker'.rev = worker.rev /\ worker'.next = k + 1
       /\ worker'.object = o /\ worker'.done = d /\ worker'.failed = f
  BY <1>1, <1>4 DEF Busy
<1>11. /\ worker' \in Busy /\ worker'.object.id = worker.object.id
       /\ worker'.object.deleting = worker.object.deleting
       /\ WithoutNames(worker'.object.spec) = WithoutNames(s)
  BY ProcessedType
<1>12. worker'.object \in Object
  BY <1>11 DEF Busy
<1>13. /\ worker'.done = worker.done \cup ({name} \ {None})
       /\ worker'.failed = (worker.failed \/ error)
  BY <1>10 DEF d, f
<1>14. Current = s.conditions[k]
  BY DEF Current
<1>15. DOMAIN worker'.object.spec.conditions = DOMAIN s.conditions
  BY <1>7, <1>8, <1>9, <1>10
<1>16. /\ worker'.object.spec.conditions[k] = e
       /\ \A i \in DOMAIN s.conditions \ {k} :
            worker'.object.spec.conditions[i] = s.conditions[i]
  BY <1>7, <1>8, <1>9, <1>10
<1>17. QED
  BY <1>1, <1>6, <1>9, <1>10, <1>11, <1>12, <1>13, <1>14, <1>15, <1>16 DEF Written

LEMMA ConditionProcessed ==
  ASSUME TypeOK, CreateCondition \/ UpdateCondition
  PROVE  /\ InLoop /\ UNCHANGED <<store, revision, cache, policies, ids, copies>>
         /\ \E name \in SomeName, error \in BOOLEAN : Processed(name, error)
<1>1. InLoop /\ UNCHANGED <<store, revision, cache, policies, ids, copies>>
  BY DEF CreateCondition, UpdateCondition, cluster, newRelic
<1>2. CASE CreateCondition
  <2>1. NewResource(Current) => FreshName \in Names
    BY DEF NewResource, FreshName
  <2>2. QED
    BY <1>1, <1>2, <2>1, CurrentType DEF CreateCondition, SomeName
<1>3. QED
  BY <1>1, <1>2, UpdateConditionType

\* Every call but the last one either ends the reconcile or goes on with it.
LEMMA CallAdvances ==
  ASSUME TypeOK, TypeOK', LeakInv, NEW order, NeverBack(order), CopiesInv(order),
         Call, ~Save, ~Release
  PROVE  UNCHANGED <<store, revision, cache>> /\ (worker' = Idle \/ Advance)
<1> DEFINE o == worker.object
<1>1. /\ UNCHANGED <<store, revision, cache>>
      /\ worker.pc # "idle" /\ worker \in Busy /\ o \in Object /\ worker.pc \in Steps
      /\ worker.mode \in {"create", "update", "delete"} /\ worker.rev \in Nat
  BY WorkerBusy
  DEF Call, Search, CreatePolicy, UpdatePolicy, CreateCondition, UpdateCondition,
      EndConditions, DeleteCondition, EndDeletes, UnlinkChannel, LinkChannels,
      DeletePolicy, InLoop, cluster
<1>2. /\ o.id = None <=> worker.pc \in {"search", "create"}
      /\ worker.pc # "unlink"
      /\ o.applied.channels \subseteq o.spec.channels
  BY <1>1, NothingToRemove, ObjectFields
  DEF CopiesInv, RecordedTogether, WorkerKnows, PolicyCopies
<1>3. /\ AtChannels(o) \in {"save", "link"}
      /\ AtConditions(o) \in {"save", "link", "conditions"}
      /\ AtUpdate(o) \in {"save", "link", "conditions", "update"}
  BY <1>2, NoUnlinking
<1>4. ASSUME NEW i \in Ids
      PROVE  LET q == [o EXCEPT !.id = i] IN
             /\ q \in Object /\ q.spec = o.spec /\ q.applied = o.applied
             /\ q.deleting = o.deleting /\ q.id = i /\ q.id # None
             /\ AtUpdate(q) \in {"save", "link", "conditions", "update"}
  <2> DEFINE q == [o EXCEPT !.id = i]
  <2>1. /\ q \in Object /\ q.spec = o.spec /\ q.applied = o.applied
        /\ q.deleting = o.deleting /\ q.id = i /\ i # None
    BY <1>1, ObjectFields, ConstantsAssumption DEF Object
  <2> HIDE DEF q
  <2>2. AtUpdate(q) \in {"save", "link", "conditions", "update"}
    BY <1>2, <2>1, NoUnlinking
  <2>3. QED
    BY <2>1, <2>2 DEF q
<1>5. {"save", "link", "conditions", "update"} \subseteq
        Steps \ ({"unlink", "search", "create"} \cup Deletion)
  BY DEF Steps, Deletion
<1>6. CASE Search
  <2>1. worker.pc = "search" /\ o.id = None
    BY <1>2, <1>6 DEF Search
  <2>2. CASE Go("create", "create", o)
    BY <1>1, <2>1, <2>2, GoAdvances DEF Steps, Deletion
  <2>3. ASSUME NEW i \in Ids, Go(AtUpdate(Adopt(o, i)), "update", Adopt(o, i))
        PROVE  Advance
    BY <1>1, <1>4, <1>5, <2>1, <2>3, GoAdvances DEF Adopt, Deletion
  <2>4. \/ Go("create", "create", o)
        \/ \E i \in Ids : Go(AtUpdate(Adopt(o, i)), "update", Adopt(o, i))
    <3>1. \A i \in Ids : Adopt(o, i).id # None
      BY <1>4 DEF Adopt
    <3>2. QED
      BY <1>6, <2>1, <3>1 DEF Search
  <2>5. QED
    BY <1>1, <2>2, <2>3, <2>4
<1>7. CASE CreatePolicy
  <2>1. worker.pc = "create" /\ o.id = None
    BY <1>2, <1>7 DEF CreatePolicy
  <2>2. CASE NewPolicy(o.spec.title) /\ Go("conditions", "create", [o EXCEPT !.id = FreshId])
    <3>1. FreshId \in Ids
      BY <2>2 DEF NewPolicy, FreshId
    <3>2. QED
      BY <1>1, <1>4, <1>5, <2>1, <2>2, <3>1, GoAdvances DEF Deletion
  <2>3. QED
    BY <1>1, <1>7, <2>2 DEF CreatePolicy, Fail
<1>8. CASE UpdatePolicy
  <2>1. worker.pc = "update" /\ o.id # None
    BY <1>2, <1>8 DEF UpdatePolicy
  <2>2. CASE Go(AtConditions(o), "update", o)
    BY <1>1, <1>3, <1>5, <2>1, <2>2, GoAdvances DEF Deletion
  <2>3. QED
    BY <1>1, <1>8, <2>2 DEF UpdatePolicy, Fail
<1>9. CASE CreateCondition \/ UpdateCondition
  <2>1. PICK name \in SomeName, error \in BOOLEAN : InLoop /\ Processed(name, error)
    BY <1>9, ConditionProcessed
  <2> DEFINE q == worker'.object
             k == worker.next
  <2>2. /\ worker'.pc = "conditions" /\ worker'.mode = worker.mode
        /\ worker'.rev = worker.rev /\ worker'.next = k + 1 /\ k \in Nat
        /\ q \in Object /\ q.applied = o.applied
        /\ q.id = o.id /\ q.deleting = o.deleting
        /\ Written(q) = Written(o)
        /\ DOMAIN q.spec.conditions = DOMAIN o.spec.conditions
        /\ \A i \in DOMAIN o.spec.conditions \ {k} :
             q.spec.conditions[i] = o.spec.conditions[i]
    BY <2>1, ProcessedFields
  <2>3. worker.pc = "conditions"
    BY <2>1 DEF InLoop
  <2>4. \A i \in DOMAIN o.spec.conditions : Untouched(i)' =>
          Untouched(i) /\ q.spec.conditions[i] = o.spec.conditions[i]
    <3>1. \A i \in DOMAIN o.spec.conditions : i \in Nat
      <4>1. o.spec \in Policy
        BY <1>1, ObjectFields
      <4>2. DOMAIN o.spec.conditions = 1 .. Len(o.spec.conditions)
        BY <4>1, PolicyFields
      <4>3. QED
        BY <4>2
    <3>2. QED
      BY <2>2, <2>3, <3>1 DEF Untouched, Deletion
  <2> HIDE DEF q
  <2>5. QED
    BY <1>1, <1>2, <1>5, <2>2, <2>3, <2>4 DEF Advance, q
<1>10. CASE EndConditions
  <2>1. /\ worker.pc = "conditions" /\ worker'.pc = "stragglers"
        /\ worker'.rev = worker.rev /\ worker'.object = o /\ worker'.mode = worker.mode
    BY <1>1, <1>10 DEF EndConditions, Busy
  <2>2. \A i : ~Untouched(i)'
    BY <2>1 DEF Untouched, Deletion
  <2>3. QED
    BY <1>1, <1>2, <2>1, <2>2 DEF Advance, Steps, Deletion
<1>11. CASE DeleteCondition
  <2>1. /\ worker'.pc = worker.pc /\ worker'.rev = worker.rev /\ worker'.object = o
        /\ worker.pc \in {"stragglers", "deleteConditions"} /\ worker'.mode = worker.mode
    <3>1. worker.pc \in {"stragglers", "deleteConditions"}
          /\ \E e, error : worker' = [worker EXCEPT !.left = @ \ {e},
                                                    !.failed = @ \/ Collected(error)]
      BY <1>11 DEF DeleteCondition
    <3>2. QED
      BY <1>1, <1>11, <3>1, DeletingStep DEF Busy
  <2>2. \A i : Untouched(i)' => Untouched(i)
    BY <2>1 DEF Untouched
  <2>3. QED
    BY <1>1, <1>2, <2>1, <2>2 DEF Advance, Steps
<1>12. CASE EndDeletes
  <2>1. \/ worker' = Idle
        \/ /\ worker.pc = "deleteConditions" /\ Go("deletePolicy", worker.mode, o)
        \/ /\ worker.pc = "stragglers" /\ Go(AtChannels(o), worker.mode, o)
    BY <1>12 DEF EndDeletes, Fail
  <2>2. ASSUME worker.pc = "deleteConditions", Go("deletePolicy", worker.mode, o)
        PROVE  Advance
    BY <1>1, <1>2, <2>2, GoAdvances DEF Steps, Deletion
  <2>3. ASSUME worker.pc = "stragglers", Go(AtChannels(o), worker.mode, o)
        PROVE  Advance
    BY <1>1, <1>2, <1>3, <2>3, GoAdvances DEF Steps, Deletion
  <2>4. QED
    BY <1>1, <2>1, <2>2, <2>3
<1>13. CASE LinkChannels
  <2>1. worker.pc = "link" /\ (worker' = Idle \/ Go("save", worker.mode, o))
    BY <1>13 DEF LinkChannels, Relink, Fail
  <2>2. CASE Go("save", worker.mode, o)
    BY <1>1, <1>2, <2>1, <2>2, GoAdvances DEF Steps, Deletion
  <2>3. QED
    BY <1>1, <2>1, <2>2
<1>14. CASE DeletePolicy
  <2>1. worker.pc = "deletePolicy" /\ (worker' = Idle \/ Go("release", "delete", o))
    BY <1>14 DEF DeletePolicy, Fail
  <2>2. CASE Go("release", "delete", o)
    BY <1>1, <1>2, <2>1, <2>2, GoAdvances DEF Steps, Deletion
  <2>3. QED
    BY <1>1, <2>1, <2>2
<1>15. ~UnlinkChannel
  BY <1>2 DEF UnlinkChannel
<1>16. QED
  BY <1>6, <1>7, <1>8, <1>9, <1>10, <1>11, <1>12, <1>13, <1>14, <1>15 DEF Call

\* The Update that ends a reconcile writes what the worker has read and the names
\* of the resources, over the resource that it has read.
LEMMA SaveFields ==
  ASSUME TypeOK, LeakInv, NEW order, CopiesInv(order), Save
  PROVE  LET o == worker.object
             q == store'
         IN  /\ worker' = Idle /\ UNCHANGED <<cache, policies, ids, resources, copies, names>>
             /\ worker.pc = "save" /\ o \in Object /\ o \in PolicyCopies
             /\ \/ UNCHANGED <<store, revision>>
                \/ /\ ~Conflict /\ revision' = revision + 1
                   /\ store \in Object /\ store # None /\ cache.object = store
                   /\ ~store.deleting
                   /\ q \in Object /\ q # None
                   /\ q.spec = o.spec /\ q.applied = o.spec /\ q.id = o.id /\ o.id # None
                   /\ q.deleting = o.deleting /\ ~o.deleting
                   /\ Written(q) = Written(o) /\ Written(store) = Written(o)
                   /\ Recorded(q) = Written(o) /\ q.applied # Nothing
<1> DEFINE o == worker.object
           q == [o EXCEPT !.applied = o.spec]
<1>1. /\ worker' = Idle /\ UNCHANGED <<cache, policies, ids, resources, copies, names>>
      /\ worker.pc = "save"
      /\ UNCHANGED <<store, revision>> \/ (~Conflict /\ Put(q))
  BY DEF Save, Return, Fail, cluster, conditions, newRelic
<1>2. o \in Object /\ o # None /\ o \in PolicyCopies /\ worker.rev \in Nat
  BY <1>1, WorkerBusy, ObjectFields DEF PolicyCopies
<1>3. CASE ~Conflict /\ Put(q)
  <2>1. /\ store # None /\ Written(store) = Written(o)
        /\ store.deleting = o.deleting /\ revision = worker.rev
    BY <1>1, <1>3 DEF LeakInv, WorkerCoherent, Conflict, Written
  <2>2. ~o.deleting
    BY <1>1 DEF LeakInv, WorkerPhases, Deletion
  <2>3. worker.rev <= cache.rev /\ cache.rev <= revision /\ cache.rev \in Nat
    BY <1>1 DEF CopiesInv, VersionsInOrder, LeakInv, CacheCoherent, TypeOK, Versioned
  <2>4. cache.object = store
    BY <1>2, <2>1, <2>3 DEF LeakInv, CacheCoherent
  <2>5. store \in Object
    BY <2>1 DEF TypeOK
  <2>6. o.id # None
    BY <1>1 DEF CopiesInv, RecordedTogether
  <2>7. q \in Object /\ q # None /\ o.spec \in Policy
    BY <1>2, ObjectFields
  <2>8. q.spec = o.spec /\ q.applied = o.spec /\ q.id = o.id /\ q.deleting = o.deleting
    BY <1>2 DEF Object
  <2>9. o.spec # Nothing
    BY <2>7, ConstantsAssumption DEF Policy, Nothing
  <2>10. store' = q /\ revision' = revision + 1
    BY <1>3 DEF Put
  <2> HIDE DEF q
  <2>11. QED
    BY <1>1, <1>2, <1>3, <2>1, <2>2, <2>4, <2>5, <2>6, <2>7, <2>8, <2>9, <2>10
    DEF Written, Recorded
<1>4. QED
  BY <1>1, <1>2, <1>3

LEMMA CopiesSave ==
  ASSUME TypeOK, LeakInv, NEW order, NeverBack(order), CopiesInv(order), Save
  PROVE  CopiesInv(order)'
<1> DEFINE o == worker.object
           q == store'
<1>1. /\ worker' = Idle /\ cache' = cache
      /\ worker.pc = "save" /\ o \in Object /\ o \in PolicyCopies
      /\ \/ UNCHANGED <<store, revision>>
         \/ /\ ~Conflict /\ revision' = revision + 1
            /\ store \in Object /\ store # None /\ cache.object = store
            /\ ~store.deleting
            /\ q \in Object /\ q # None
            /\ q.spec = o.spec /\ q.applied = o.spec /\ q.id = o.id /\ o.id # None
            /\ q.deleting = o.deleting /\ ~o.deleting
            /\ Written(q) = Written(o) /\ Written(store) = Written(o)
            /\ Recorded(q) = Written(o) /\ q.applied # Nothing
  BY SaveFields
<1>2. CASE UNCHANGED <<store, revision>>
  BY <1>1, <1>2, CopiesEnd
<1>3. CASE ~UNCHANGED <<store, revision>>
  <2>1. /\ worker'.pc = "idle" /\ worker'.object = None /\ worker'.mode = "none"
        /\ revision' # 0
    BY <1>1, <1>3 DEF Idle, TypeOK
  <2>2. \A p \in PolicyCopies' : p = q \/ p \in PolicyCopies
    BY <1>1, <2>1 DEF PolicyCopies
  <2>3. Upto(order, Written(q), Written(q)) /\ Written(o) \in Versions
    BY <1>1, CopyVersion DEF Upto
  <2>4. Seen' = Written(q)
    BY <1>1, <1>3, <2>1 DEF Seen
  <2>5. q = store' /\ Conflict = Conflict
    OBVIOUS
  <2> HIDE DEF q, o
  <2>6. VersionsInOrder(order)'
    <3>1. \A p \in PolicyCopies' :
            /\ Written(p) \in Versions
            /\ p.applied # Nothing =>
                 Recorded(p) \in Versions /\ Upto(order, Recorded(p), Written(p))
      BY <1>1, <1>3, <2>2, <2>3, CopyVersion
    <3>2. /\ Upto(order, Written(cache.object), Written(q)) /\ cache.object # None
          /\ Upto(order, Recorded(q), Seen')
      BY <1>1, <1>3, <2>3, <2>4
    <3>3. QED
      BY <1>1, <2>1, <2>5, <3>1, <3>2 DEF VersionsInOrder
  <2>7. RecordedTogether'
    <3>1. \A p \in PolicyCopies' : p.deleting => q.deleting
      <4>1. \A p \in PolicyCopies : ~p.deleting
        BY <1>1, <1>3 DEF CopiesInv, RecordedTogether
      <4>2. QED
        BY <1>1, <1>3, <2>2, <4>1
    <3>2. cache.object # None => (cache.object.id = None <=> cache.object.applied = Nothing)
      BY DEF CopiesInv, RecordedTogether
    <3>3. QED
      BY <1>1, <1>3, <2>1, <2>5, <3>1, <3>2 DEF RecordedTogether
  <2>8. NamesInPlace'
    <3>1. \A i \in DOMAIN q.spec.conditions : InPlace(q, i)
      BY <1>1, <1>3 DEF InPlace
    <3>2. cache.object # None =>
            \A i \in DOMAIN cache.object.spec.conditions : InPlace(cache.object, i)
      BY DEF CopiesInv, NamesInPlace
    <3>3. QED
      BY <1>1, <2>1, <2>5, <3>1, <3>2 DEF NamesInPlace
  <2>9. WorkerKnows'
    BY <2>1 DEF WorkerKnows
  <2>10. QED
    BY <2>6, <2>7, <2>8, <2>9 DEF CopiesInv
<1>4. QED
  BY <1>2, <1>3

LEMMA StepCopies ==
  ASSUME TypeOK, TypeOK', LeakInv, NEW order, NeverBack(order), CopiesInv(order),
         [Next]_vars
  PROVE  CopiesInv(order)'
<1>1. CASE UNCHANGED <<store, revision, cache, worker>>
  BY <1>1, SameCopies
<1>2. CASE Release
  <2>1. worker' = Idle /\ cache' = cache
    BY <1>2 DEF Release, Return, Fail
  <2>2. CASE UNCHANGED cluster
    BY <2>1, <2>2, CopiesEnd DEF cluster
  <2>3. CASE Put(None)
    <3>1. store' = None /\ revision' # 0
      BY <2>3 DEF Put, TypeOK
    <3>2. QED
      BY <2>1, <3>1, CopiesGone
  <2>4. QED
    BY <1>2, <2>2, <2>3 DEF Release
<1>3. CASE Call /\ ~Save /\ ~Release
  BY <1>3, CallAdvances, CopiesEnd, CopiesAdvance
<1>4. Resync \/ Others \/ ReconcileFails \/ ReconcileNothing =>
        UNCHANGED <<store, revision, cache, worker>>
  BY DEF Resync, Others, ConditionSync, ConditionReleased, ReconcileFails,
         ReconcileNothing, cluster
<1>5. UNCHANGED vars => UNCHANGED <<store, revision, cache, worker>>
  BY DEF vars
<1>6. QED
  BY <1>1, <1>2, <1>3, <1>4, <1>5, CopiesUser, CopiesSync, CopiesBegin, CopiesSave
  DEF Next, Reconcile

\* For users who never go back, the copies of the policy and what each of them
\* records stay in the order of the versions, and what two copies know at one
\* revision is the same.
THEOREM CopiesInvariant ==
  ASSUME NEW order, NeverBack(order)
  PROVE  Spec => []CopiesInv(order)
<1>1. Init => CopiesInv(order)
  BY InitCopies
<1>2. TypeOK /\ TypeOK' /\ LeakInv /\ CopiesInv(order) /\ [Next]_vars => CopiesInv(order)'
  BY StepCopies
<1>3. QED
  BY <1>1, <1>2, TypeCorrect, LeakInvariant, PTL DEF Spec

-----------------------------------------------------------------------------
(* The second part: the policy in New Relic.                               *)

\* A version that is recorded, as long as nothing is deleted.
Settled == store # None /\ ~store.deleting /\ store.applied # Nothing

\* New Relic's title is that of a version since the recorded one.
TitleKept(order) ==
  Settled =>
    /\ policies[store.id] # None
    /\ \E p \in Versions :
         /\ Upto(order, Recorded(store), p) /\ Upto(order, p, Seen)
         /\ policies[store.id].title = p.title

\* New Relic links the channels that are recorded, and no others than those of the
\* version that was last read.
LinksKept ==
  /\ \A i \in Ids : policies[i] # None =>
       /\ i \in ids /\ revision # 0
       /\ store # None =>
            cache.object # None /\ policies[i].channels \subseteq Seen.channels
  /\ Settled => store.applied.channels \subseteq policies[store.id].channels

\* What a worker whose Update would be accepted has brought about in New Relic.
WorkerTells ==
  ~Conflict =>
    /\ worker.pc \in {"conditions", "stragglers", "unlink", "link", "save"} =>
         Titled(worker.object.id, worker.object.spec.title)
    /\ worker.pc = "save" =>
         policies[worker.object.id].channels = worker.object.spec.channels

PolicyInv(order) == TitleKept(order) /\ LinksKept /\ WorkerTells

LEMMA InitPolicy ==
  ASSUME NEW order, Init PROVE PolicyInv(order)
<1>1. worker.pc = "idle" /\ store = None /\ \A i \in Ids : policies[i] = None
  BY DEF Init, Idle
<1>2. QED
  BY <1>1 DEF PolicyInv, TitleKept, LinksKept, WorkerTells, Settled

\* Each reconcile reads a version that is no older than that of the last.
LEMMA SeenAdvances ==
  ASSUME TypeOK, TypeOK', LeakInv, NEW order, NeverBack(order), CopiesInv(order),
         [Next]_vars, store # None, cache.object # None
  PROVE  /\ cache'.object # None
         /\ Seen \in Versions /\ Seen' \in Versions /\ Upto(order, Seen, Seen')
<1> DEFINE c == cache.object
           w == worker.object
<1>1. /\ Written(store) \in Versions /\ Written(c) \in Versions
      /\ Upto(order, Written(c), Written(store))
  BY CopyVersion DEF PolicyCopies, CopiesInv, VersionsInOrder
<1>2. worker.pc # "idle" =>
        /\ Written(w) \in Versions
        /\ Upto(order, Written(w), Written(c)) /\ Upto(order, Written(w), Written(store))
  <2>1. worker.pc # "idle" => w \in PolicyCopies
    BY WorkerBusy, ObjectFields DEF PolicyCopies
  <2>2. QED
    BY <2>1, CopyVersion DEF CopiesInv, VersionsInOrder
<1>3. /\ worker.pc = "idle" => Seen = Written(c)
      /\ worker.pc # "idle" => Seen = Written(w)
      /\ worker'.pc = "idle" => Seen' = Written(cache'.object)
      /\ worker'.pc # "idle" => Seen' = Written(worker'.object)
  BY DEF Seen
<1>4. /\ Seen \in Versions /\ Upto(order, Seen, Written(c))
      /\ Upto(order, Seen, Written(store)) /\ Upto(order, Seen, Seen)
  BY <1>1, <1>2, <1>3 DEF Upto
<1> HIDE DEF c, w
<1>5. CASE UNCHANGED <<cache, worker>>
  <2>1. Seen' = Seen
    BY <1>5 DEF Seen
  <2>2. QED
    BY <1>4, <1>5, <2>1
<1>6. CASE cache' = cache /\ worker' = Idle
  <2>1. Seen' = Written(c)
    BY <1>3, <1>6 DEF Idle, c
  <2>2. QED
    BY <1>1, <1>4, <1>6, <2>1
<1>7. CASE Advance
  <2>1. Seen' = Seen /\ cache' = cache
    BY <1>3, <1>7 DEF Advance, Steps, w
  <2>2. QED
    BY <1>4, <2>1
<1>8. CASE PolicySync \/ Crash
  <2>1. cache'.object = store /\ worker' \in {worker, Idle}
    BY <1>8 DEF PolicySync, Crash
  <2>2. CASE worker'.pc = "idle"
    BY <1>1, <1>3, <1>4, <2>1, <2>2
  <2>3. CASE worker'.pc # "idle"
    BY <1>3, <1>4, <2>1, <2>3 DEF Idle, w
  <2>4. QED
    BY <2>2, <2>3
<1>9. CASE ReconcileDeletion \/ ReconcileSpec
  <2>1. cache' = cache /\ worker.pc = "idle" /\ worker'.object.spec = c.spec
        /\ worker'.pc # "idle"
    <3>1. PICK step \in Steps \ {"unlink"}, mode \in {"create", "update", "delete"} :
            worker' = At(step, mode, worker'.object, cache.rev)
      BY <1>9, BeginFields
    <3>2. worker'.pc = step
      BY <3>1 DEF At
    <3>3. QED
      BY <1>9, <3>2, BeginFields DEF Steps, c
  <2>2. Seen' = Seen
    BY <1>3, <2>1 DEF Written
  <2>3. QED
    BY <1>4, <2>1, <2>2
<1>10. CASE Call /\ ~Save /\ ~Release
  BY <1>6, <1>7, <1>10, CallAdvances
<1>11. Save \/ Release => cache' = cache /\ worker' = Idle
  BY DEF Save, Release, Return, Fail
<1>12. User \/ Resync \/ Others \/ ReconcileFails \/ ReconcileNothing \/ UNCHANGED vars =>
         UNCHANGED <<cache, worker>>
  BY DEF User, UserCreate, UserEdit, UserDelete, UserOp, Resync, Others, ConditionSync,
         ConditionReleased, ReconcileFails, ReconcileNothing, vars
<1>13. QED
  BY <1>5, <1>6, <1>8, <1>9, <1>10, <1>11, <1>12 DEF Next, Reconcile

\* What is recorded was recorded before, unless this step records it.
LEMMA SettledBefore ==
  ASSUME TypeOK, TypeOK', LeakInv, NEW order, CopiesInv(order), [Next]_vars, Settled'
  PROVE  /\ store # None /\ store' # None
         /\ \/ Save /\ ~Conflict /\ ~UNCHANGED <<store, revision>>
            \/ /\ Settled /\ store'.applied = store.applied /\ store'.id = store.id
               /\ ~UserCreate
<1>1. store' # None /\ ~store'.deleting /\ store'.applied # Nothing
  BY DEF Settled
<1>2. CASE UNCHANGED store
  BY <1>1, <1>2 DEF Settled, UserCreate, Put
<1>3. CASE UserCreate
  <2>1. store'.applied = Nothing
    BY <1>3 DEF UserCreate, Put
  <2>2. QED
    BY <1>1, <2>1
<1>4. CASE UserEdit
  BY <1>1, <1>4, EditFields DEF Settled, UserCreate
<1>5. CASE UserDelete
  <2>1. store \in Object /\ (store' = None \/ store' = [store EXCEPT !.deleting = TRUE])
    BY <1>5 DEF UserDelete, TypeOK, Put, Deleted
  <2>2. [store EXCEPT !.deleting = TRUE].deleting
    BY <2>1 DEF Object
  <2>3. QED
    BY <1>1, <2>1, <2>2
<1>6. CASE Save /\ ~Conflict /\ ~UNCHANGED store
  <2>1. store # None
    BY <1>6, SaveFields
  <2>2. QED
    BY <1>1, <1>6, <2>1
<1>7. QED
  BY <1>1, <1>2, <1>3, <1>4, <1>5, <1>6, Writers DEF User

\* What a step does to a policy in New Relic.
LEMMA NewRelicSteps ==
  ASSUME TypeOK, TypeOK', [Next]_vars, NEW i \in Ids, policies'[i] # policies[i]
  PROVE  LET o == worker.object IN
         /\ worker.pc # "idle"
         /\ \/ /\ CreatePolicy /\ i = FreshId /\ i \notin ids /\ i \in ids'
               /\ policies'[i] = [title |-> o.spec.title, channels |-> {}]
            \/ /\ UpdatePolicy /\ i = o.id /\ policies[i] # None
               /\ policies'[i] # None /\ policies'[i].title = o.spec.title
               /\ policies'[i].channels = policies[i].channels
            \/ /\ LinkChannels /\ i = o.id /\ policies[i] # None
               /\ policies'[i] # None /\ policies'[i].title = policies[i].title
               /\ policies'[i].channels = policies[i].channels \cup ToAdd(o)
            \/ worker.pc = "unlink"
            \/ DeletePolicy /\ policies'[i] = None
<1> DEFINE o == worker.object
           R == [title : Titles, channels : SUBSET Channels]
<1>1. /\ policies \in [Ids -> R \cup {None}] /\ policies' \in [Ids -> R \cup {None}]
      /\ \A r \in R : r # None
  BY ConstantsAssumption DEF TypeOK
<1> HIDE DEF R
<1>2. ASSUME UNCHANGED policies PROVE FALSE
  BY <1>2
<1>3. CASE CreatePolicy
  <2>1. NewPolicy(o.spec.title)
    BY <1>2, <1>3 DEF CreatePolicy, newRelic
  <2>2. FreshId \in Ids \ ids
    BY <2>1 DEF NewPolicy, FreshId
  <2>3. /\ policies' = [policies EXCEPT ![FreshId] = [title |-> o.spec.title, channels |-> {}]]
        /\ ids' = ids \cup {FreshId}
    BY <2>1 DEF NewPolicy
  <2>4. i = FreshId /\ policies'[i] = [title |-> o.spec.title, channels |-> {}]
    BY <1>1, <2>2, <2>3
  <2>5. QED
    BY <1>3, <2>2, <2>3, <2>4 DEF CreatePolicy
<1>4. CASE UpdatePolicy
  <2>1. /\ policies[o.id] # None
        /\ policies' = [policies EXCEPT ![o.id].title = o.spec.title]
    BY <1>2, <1>4 DEF UpdatePolicy
  <2>2. i = o.id /\ policies'[i] = [policies[i] EXCEPT !.title = o.spec.title]
    BY <1>1, <2>1
  <2>3. policies[i] \in R
    BY <1>1, <2>1, <2>2
  <2>4. policies'[i].title = o.spec.title /\ policies'[i].channels = policies[i].channels
        /\ policies'[i] # None
    <3>1. [policies[i] EXCEPT !.title = o.spec.title].title = o.spec.title
          /\ [policies[i] EXCEPT !.title = o.spec.title].channels = policies[i].channels
      BY <2>3 DEF R
    <3>2. policies'[i] # None
      <4>1. o.spec.title \in Titles
        BY <1>4, WorkerBusy, ObjectFields, PolicyFields DEF UpdatePolicy
      <4>2. [policies[i] EXCEPT !.title = o.spec.title] \in R
        BY <2>3, <4>1 DEF R
      <4>3. QED
        BY <1>1, <2>2, <4>2
    <3>3. QED
      BY <2>2, <3>1, <3>2
  <2>5. QED
    BY <1>4, <2>1, <2>2, <2>4 DEF UpdatePolicy
<1>5. CASE LinkChannels
  <2>1. /\ policies[o.id] # None
        /\ policies' = [policies EXCEPT ![o.id].channels = policies[o.id].channels \cup ToAdd(o)]
    BY <1>2, <1>5 DEF LinkChannels, Relink
  <2>2. /\ i = o.id
        /\ policies'[i] = [policies[i] EXCEPT !.channels = policies[i].channels \cup ToAdd(o)]
    BY <1>1, <2>1
  <2>3. policies[i] \in R
    BY <1>1, <2>1, <2>2
  <2>4. /\ policies'[i].title = policies[i].title
        /\ policies'[i].channels = policies[i].channels \cup ToAdd(o)
    BY <2>2, <2>3 DEF R
  <2>5. policies'[i] # None
    <3>1. ToAdd(o) \subseteq Channels
      BY <1>5, WorkerBusy, ObjectFields, PolicyFields DEF LinkChannels, ToAdd
    <3>2. [policies[i] EXCEPT !.channels = policies[i].channels \cup ToAdd(o)] \in R
      BY <2>3, <3>1 DEF R
    <3>3. QED
      BY <1>1, <2>2, <3>2
  <2>6. QED
    BY <1>5, <2>1, <2>2, <2>4, <2>5 DEF LinkChannels
<1>6. CASE DeletePolicy
  <2>1. policies' = [policies EXCEPT ![o.id] = None] /\ worker.pc = "deletePolicy"
    BY <1>2, <1>6 DEF DeletePolicy
  <2>2. policies'[i] = None
    BY <1>1, <2>1
  <2>3. QED
    BY <1>6, <2>1, <2>2
<1>7. CASE UnlinkChannel
  BY <1>7 DEF UnlinkChannel
<1>8. \/ CreatePolicy \/ UpdatePolicy \/ LinkChannels \/ DeletePolicy \/ UnlinkChannel
      \/ UNCHANGED policies
  BY DEF Next, vars, User, UserCreate, UserEdit, UserDelete, UserOp, PolicySync, Resync,
         Crash, Others, ConditionSync, ConditionReleased, Reconcile, ReconcileFails,
         ReconcileNothing, ReconcileDeletion, ReconcileSpec, Begin, Call, Search,
         CreateCondition, UpdateCondition, EndConditions, DeleteCondition, EndDeletes,
         Save, Release, newRelic
<1>9. QED
  BY <1>2, <1>3, <1>4, <1>5, <1>6, <1>7, <1>8

LEMMA Growing ==
  ASSUME TypeOK, LeakInv, [Next]_vars
  PROVE  /\ ids \subseteq ids'
         /\ revision # 0 => revision' # 0
         /\ store = None /\ store' # None => revision = 0
<1>1. revision \in Nat
  BY DEF TypeOK
<1>2. CASE UserCreate \/ UserEdit \/ UserDelete
  <2>1. ids' = ids /\ revision' = revision + 1 /\ (store = None => revision = 0)
    BY <1>2 DEF UserCreate, UserEdit, UserDelete, UserOp, Put, newRelic
  <2>2. revision' # 0
    BY <1>1, <2>1
  <2>3. QED
    BY <2>1, <2>2
<1>3. CASE Save \/ Release
  <2>1. worker.rev = revision /\ worker.pc # "idle" => store # None
    BY DEF LeakInv, WorkerCoherent
  <2>2. QED
    BY <1>1, <1>3, <2>1 DEF Save, Release, Put, cluster, newRelic, Conflict
<1>4. CASE CreatePolicy
  BY <1>4 DEF CreatePolicy, NewPolicy, cluster, newRelic
<1>5. CASE \/ UNCHANGED vars \/ PolicySync \/ Resync \/ Crash \/ Others \/ Reconcile
           \/ Search \/ UpdatePolicy \/ CreateCondition \/ UpdateCondition
           \/ EndConditions \/ DeleteCondition \/ EndDeletes \/ UnlinkChannel
           \/ LinkChannels \/ DeletePolicy
  BY <1>5 DEF vars, PolicySync, Resync, Crash, Others, ConditionSync, ConditionReleased,
     Reconcile, ReconcileFails, ReconcileNothing, ReconcileDeletion, ReconcileSpec, Begin,
     Search, UpdatePolicy, CreateCondition, UpdateCondition, EndConditions,
     DeleteCondition, EndDeletes, UnlinkChannel, LinkChannels, DeletePolicy,
     cluster, newRelic
<1>6. QED
  BY <1>2, <1>3, <1>4, <1>5 DEF Next, User, Call

\* Nothing that is settled is being deleted.
LEMMA SettledWorker ==
  ASSUME TypeOK, LeakInv, NEW order, CopiesInv(order), Settled
  PROVE  /\ worker.pc \notin Deletion /\ worker.pc # "unlink"
         /\ store.id \in Ids /\ cache.object # None
         /\ Recorded(store) \in Versions /\ Upto(order, Recorded(store), Seen)
         /\ store \in PolicyCopies /\ store \in Object
<1>1. store \in PolicyCopies /\ store # None /\ ~store.deleting /\ store.applied # Nothing
  BY DEF Settled, PolicyCopies
<1>2. worker.pc \notin Deletion
  <2>1. worker.pc \in Deletion => worker.object \in PolicyCopies /\ worker.object.deleting
    BY WorkerBusy, ObjectFields DEF LeakInv, WorkerPhases, Deletion, PolicyCopies
  <2>2. QED
    BY <1>1, <2>1 DEF CopiesInv, RecordedTogether
<1>3. store \in Object /\ store.id # None
  BY <1>1 DEF TypeOK, CopiesInv, RecordedTogether
<1>4. store.id \in Ids
  BY <1>3, ObjectFields
<1>5. QED
  BY <1>1, <1>2, <1>3, <1>4, CopyVersion DEF CopiesInv, VersionsInOrder, WorkerKnows

LEMMA StepTitleKept ==
  ASSUME TypeOK, TypeOK', LeakInv, NEW order, NeverBack(order), CopiesInv(order),
         PolicyInv(order), [Next]_vars
  PROVE  TitleKept(order)'
<1> DEFINE w == worker.object
<1> SUFFICES ASSUME Settled'
             PROVE  /\ policies'[store'.id] # None
                    /\ \E p \in Versions :
                         /\ Upto(order, Recorded(store'), p) /\ Upto(order, p, Seen')
                         /\ policies'[store'.id].title = p.title
  BY DEF TitleKept
<1>1. CASE Save /\ ~Conflict /\ ~UNCHANGED <<store, revision>>
  <2>1. /\ worker.pc = "save" /\ w \in Object /\ w \in PolicyCopies
        /\ store # None /\ cache.object = store
        /\ store'.id = w.id /\ Recorded(store') = Written(w) /\ policies' = policies
    BY <1>1, SaveFields
  <2>2. policies[w.id] # None /\ policies[w.id].title = w.spec.title
    BY <1>1, <2>1 DEF PolicyInv, WorkerTells, Titled
  <2>3. Seen = Written(w) /\ Seen \in Versions /\ Upto(order, Seen, Seen')
    BY <2>1, SeenAdvances DEF Seen
  <2>4. Written(w).title = w.spec.title
    BY <2>1, ObjectFields, WithoutNamesFields DEF Written
  <2>5. Upto(order, Written(w), Written(w))
    BY DEF Upto
  <2> HIDE DEF w
  <2>6. QED
    BY <2>1, <2>2, <2>3, <2>4, <2>5
<1>2. CASE /\ Settled /\ store'.applied = store.applied /\ store'.id = store.id
  <2> DEFINE i == store.id
  <2>1. /\ worker.pc \notin Deletion /\ worker.pc # "unlink"
        /\ i \in Ids /\ cache.object # None /\ store # None
        /\ Recorded(store) \in Versions /\ Upto(order, Recorded(store), Seen)
    BY <1>2, SettledWorker DEF Settled
  <2>2. Seen \in Versions /\ Seen' \in Versions /\ Upto(order, Seen, Seen')
    BY <2>1, SeenAdvances
  <2>3. PICK p \in Versions :
          /\ policies[i] # None
          /\ Upto(order, Recorded(store), p) /\ Upto(order, p, Seen)
          /\ policies[i].title = p.title
    BY <1>2 DEF PolicyInv, TitleKept
  <2>4. Upto(order, p, Seen')
    BY <2>2, <2>3, UptoTrans
  <2>5. Recorded(store') = Recorded(store) /\ store'.id = i
    BY <1>2 DEF Recorded
  <2> HIDE DEF i
  <2>6. CASE policies'[i] # None /\ policies'[i].title = policies[i].title
    BY <2>3, <2>4, <2>5, <2>6
  <2>7. CASE UpdatePolicy /\ policies'[i] # None /\ policies'[i].title = w.spec.title
    <3>1. worker.pc # "idle" /\ w \in Object
      BY <2>7, WorkerBusy DEF UpdatePolicy
    <3>2. Seen = Written(w)
      BY <3>1 DEF Seen
    <3>3. Seen.title = w.spec.title
      BY <3>1, <3>2, ObjectFields, WithoutNamesFields DEF Written
    <3>4. QED
      BY <2>1, <2>2, <2>5, <2>7, <3>3
  <2>8. CASE policies'[i] # policies[i]
    <3>1. i \in ids
      BY <2>1, <2>3 DEF PolicyInv, LinksKept
    <3>2. QED
      BY <2>1, <2>3, <2>6, <2>7, <2>8, <3>1, NewRelicSteps DEF DeletePolicy, Deletion
  <2>9. QED
    BY <2>3, <2>6, <2>8
<1>3. QED
  BY <1>1, <1>2, SettledBefore

LEMMA StepLinksKept ==
  ASSUME TypeOK, TypeOK', LeakInv, NEW order, NeverBack(order), CopiesInv(order),
         PolicyInv(order), [Next]_vars
  PROVE  LinksKept'
<1> DEFINE w == worker.object
<1>1. worker.pc # "idle" =>
        /\ Seen = Written(w) /\ w \in Object /\ Written(w).channels = w.spec.channels
        /\ revision # 0 /\ (store # None => cache.object # None)
  <2>1. ASSUME worker.pc # "idle"
        PROVE  w \in Object /\ Written(w).channels = w.spec.channels
    BY <2>1, WorkerBusy, ObjectFields, WithoutNamesFields DEF Written
  <2>2. ASSUME worker.pc # "idle", revision = 0 PROVE FALSE
    <3>1. worker.rev = 0 /\ store # None
      BY <2>2, WorkerBusy DEF LeakInv, WorkerCoherent
    <3>2. QED
      BY <2>2, <3>1 DEF CopiesInv, RecordedTogether
  <2>3. QED
    BY <2>1, <2>2 DEF Seen, CopiesInv, VersionsInOrder
<1>2. ASSUME NEW i \in Ids, policies'[i] # None
      PROVE  /\ i \in ids' /\ revision' # 0
             /\ store' # None =>
                  cache'.object # None /\ policies'[i].channels \subseteq Seen'.channels
  <2>1. CASE policies[i] = None
    <3>1. /\ CreatePolicy /\ i \in ids' /\ worker.pc # "idle"
          /\ policies'[i].channels = {}
      <4>1. policies'[i] # policies[i] /\ worker.pc # "unlink"
        BY <1>2, <2>1 DEF CopiesInv, WorkerKnows
      <4>2. worker.pc # "idle" /\ CreatePolicy /\ i = FreshId /\ i \in ids'
            /\ policies'[i] = [title |-> w.spec.title, channels |-> {}]
        BY <1>2, <2>1, <4>1, NewRelicSteps
      <4>3. [title |-> w.spec.title, channels |-> {}].channels = {}
        OBVIOUS
      <4>4. QED
        BY <4>2, <4>3
    <3>2. UNCHANGED <<store, revision, cache>>
      BY <3>1 DEF CreatePolicy, cluster
    <3>3. QED
      BY <1>1, <3>1, <3>2
  <2>2. CASE policies[i] # None
    <3>1. /\ i \in ids' /\ revision # 0 /\ revision' # 0
          /\ store # None =>
               cache.object # None /\ policies[i].channels \subseteq Seen.channels
      BY <2>2, Growing DEF PolicyInv, LinksKept
    <3>2. ASSUME store' # None
          PROVE  cache'.object # None /\ policies'[i].channels \subseteq Seen'.channels
      <4>1. store # None
        BY <3>1, <3>2, Growing
      <4>2. /\ cache'.object # None
            /\ Seen \in Versions /\ Seen' \in Versions /\ Upto(order, Seen, Seen')
        BY <3>1, <4>1, SeenAdvances
      <4>3. Seen.channels \subseteq Seen'.channels
        BY <4>2, UptoKeeps
      <4>4. \/ policies'[i].channels = policies[i].channels
            \/ /\ worker.pc # "idle"
               /\ policies'[i].channels = policies[i].channels \cup ToAdd(w)
        <5>1. worker.pc # "unlink"
          BY DEF CopiesInv, WorkerKnows
        <5>2. i \in ids
          BY <2>2 DEF PolicyInv, LinksKept
        <5>3. QED
          BY <1>2, <2>2, <5>1, <5>2, NewRelicSteps
      <4>5. worker.pc # "idle" => ToAdd(w) \subseteq Seen.channels
        BY <1>1 DEF ToAdd
      <4>6. QED
        BY <3>1, <4>1, <4>2, <4>3, <4>4, <4>5
    <3>3. QED
      BY <3>1, <3>2
  <2>3. QED
    BY <2>1, <2>2
<1>3. ASSUME Settled'
      PROVE  store'.applied.channels \subseteq policies'[store'.id].channels
  <2>1. CASE Save /\ ~Conflict /\ ~UNCHANGED <<store, revision>>
    <3>1. /\ worker.pc = "save" /\ policies' = policies
          /\ store'.id = w.id /\ store'.applied = w.spec
      BY <2>1, SaveFields
    <3>2. policies[w.id].channels = w.spec.channels
      BY <2>1, <3>1 DEF PolicyInv, WorkerTells
    <3>3. QED
      BY <3>1, <3>2
  <2>2. CASE /\ Settled /\ store'.applied = store.applied /\ store'.id = store.id
    <3> DEFINE i == store.id
    <3>1. /\ worker.pc \notin Deletion /\ worker.pc # "unlink" /\ i \in Ids
      BY <2>2, SettledWorker
    <3>2. policies[i] # None /\ store.applied.channels \subseteq policies[i].channels
      BY <2>2 DEF PolicyInv, TitleKept, LinksKept
    <3>3. i \in ids
      BY <3>1, <3>2 DEF PolicyInv, LinksKept
    <3> HIDE DEF i
    <3>4. policies[i].channels \subseteq policies'[i].channels
      BY <3>1, <3>2, <3>3, NewRelicSteps DEF DeletePolicy, Deletion
    <3>5. QED
      BY <2>2, <3>2, <3>4 DEF i
  <2>3. QED
    BY <1>3, <2>1, <2>2, SettledBefore
<1>4. QED
  BY <1>2, <1>3 DEF LinksKept

\* A worker whose Update would be accepted writes over a policy that is there, and
\* New Relic links no channel that it has not read.
LEMMA WorkerReads ==
  ASSUME TypeOK, LeakInv, NEW order, CopiesInv(order), PolicyInv(order),
         worker.pc # "idle", ~Conflict
  PROVE  LET o == worker.object IN
         /\ o \in Object /\ o \in PolicyCopies
         /\ Seen = Written(o) /\ Seen.title = o.spec.title
         /\ Seen.channels = o.spec.channels
         /\ store # None /\ store \in PolicyCopies /\ store.deleting = o.deleting
         /\ \A i \in Ids : policies[i] # None => policies[i].channels \subseteq o.spec.channels
<1> DEFINE o == worker.object
<1>1. o \in Object /\ o # None /\ o \in PolicyCopies /\ worker.rev \in Nat
  BY WorkerBusy, ObjectFields DEF PolicyCopies
<1>2. o.spec \in Policy
  BY <1>1, ObjectFields
<1>3. /\ Seen = Written(o) /\ Written(o).title = o.spec.title
      /\ Written(o).channels = o.spec.channels
  BY <1>2, WithoutNamesFields DEF Seen, Written
<1>4. store # None /\ store.deleting = o.deleting
  BY DEF LeakInv, WorkerCoherent, Conflict
<1>5. store \in PolicyCopies
  BY <1>4 DEF PolicyCopies
<1>6. QED
  BY <1>1, <1>3, <1>4, <1>5 DEF PolicyInv, LinksKept

\* Where the title that was read is the one that is recorded, New Relic has it.
LEMMA TitleRead ==
  ASSUME TypeOK, LeakInv, NEW order, NeverBack(order), CopiesInv(order),
         PolicyInv(order), Settled, Seen \in Versions,
         Seen.title = store.applied.title
  PROVE  Titled(store.id, Seen.title)
<1>1. /\ Recorded(store) \in Versions /\ store.id \in Ids /\ store \in Object
      /\ store \in PolicyCopies
  BY SettledWorker
<1>2. PICK p \in Versions :
        /\ policies[store.id] # None
        /\ Upto(order, Recorded(store), p) /\ Upto(order, p, Seen)
        /\ policies[store.id].title = p.title
  BY DEF PolicyInv, TitleKept
<1>3. Recorded(store).title = store.applied.title
  <2>1. store.applied \in Policy \cup {Nothing}
    BY <1>1, ObjectFields
  <2>2. QED
    BY <2>1, WithoutNamesFields DEF Recorded
<1>4. p.title = Seen.title
  BY <1>1, <1>2, <1>3, Between
<1>5. store.id # None
  BY <1>1, ConstantsAssumption
<1>6. QED
  BY <1>2, <1>4, <1>5 DEF Titled

LEMMA TellsBegin ==
  ASSUME TypeOK, LeakInv, NEW order, NeverBack(order), CopiesInv(order),
         PolicyInv(order), ReconcileDeletion \/ ReconcileSpec
  PROVE  WorkerTells'
<1> DEFINE o == worker'.object
           c == cache.object
<1>1. /\ UNCHANGED <<store, revision, cache, policies>>
      /\ worker.pc = "idle" /\ c \in PolicyCopies /\ c # None /\ o \in Object
      /\ o.spec = c.spec /\ o.applied = c.applied /\ o.id = c.id
      /\ o.id = None <=> worker'.pc = "search"
      /\ worker'.rev = cache.rev
      /\ worker'.pc \in Deletion <=> c.deleting
      /\ worker'.pc \notin Deletion =>
           worker'.pc = "search" \/ worker'.pc = AtUpdate(o)
  BY BeginFields
<1> SUFFICES ASSUME ~Conflict', worker'.pc = AtUpdate(o), worker'.pc # "update",
                    worker'.pc # "search", ~c.deleting
             PROVE  /\ Titled(o.id, o.spec.title)
                    /\ worker'.pc = "save" => policies[o.id].channels = o.spec.channels
  BY <1>1 DEF WorkerTells, Titled, Deletion
<1>2. store = c
  BY <1>1 DEF Conflict, LeakInv, CacheCoherent
<1>3. Settled
  BY <1>1, <1>2 DEF Settled, CopiesInv, RecordedTogether
<1>4. Seen = Written(c) /\ Seen \in Versions /\ c.spec \in Policy
  BY <1>1, CopyVersion DEF Seen
<1>5. Seen.title = c.spec.title /\ Seen.channels = c.spec.channels
  BY <1>4, WithoutNamesFields DEF Written
<1>6. c.spec.title = c.applied.title
  BY <1>1 DEF AtUpdate
<1>7. Titled(c.id, c.spec.title)
  BY <1>2, <1>3, <1>4, <1>5, <1>6, TitleRead
<1>8. ASSUME worker'.pc = "save"
      PROVE  policies[c.id].channels = c.spec.channels
  <2>1. c.spec.channels = {}
    BY <1>1, <1>8 DEF AtUpdate, AtConditions, AtChannels
  <2>2. c.id \in Ids /\ policies[c.id] # None
    BY <1>2, <1>3, <1>7, SettledWorker DEF Titled
  <2>3. policies[c.id].channels \subseteq {}
    BY <1>1, <1>2, <1>5, <2>1, <2>2 DEF PolicyInv, LinksKept
  <2>4. QED
    BY <2>1, <2>3
<1>9. QED
  BY <1>1, <1>7, <1>8

LEMMA TellsOfPolicy ==
  ASSUME TypeOK, TypeOK', LeakInv, NEW order, NeverBack(order), CopiesInv(order),
         PolicyInv(order), Search \/ CreatePolicy \/ UpdatePolicy \/ LinkChannels,
         ~Conflict'
  PROVE  WorkerTells'
<1> DEFINE o == worker.object
<1>1. worker.pc # "idle" /\ UNCHANGED <<store, revision>>
  BY DEF Search, CreatePolicy, UpdatePolicy, LinkChannels, cluster
<1>2. o \in Object /\ o.spec \in Policy /\ o.spec.title \in Titles
      /\ (o.id = None <=> worker.pc \in {"search", "create"})
  BY <1>1, WorkerBusy, ObjectFields, PolicyFields DEF CopiesInv, RecordedTogether
<1>3. CASE worker' = Idle
  BY <1>3 DEF WorkerTells, Idle
<1>4. ASSUME NEW step, NEW mode, NEW q, Go(step, mode, q)
      PROVE  worker'.pc = step /\ worker'.object = q /\ ~Conflict
  <2>1. worker'.pc = step /\ worker'.object = q /\ worker'.rev = worker.rev
    BY <1>4 DEF Go, At
  <2>2. QED
    BY <1>1, <2>1 DEF Conflict
<1>5. CASE Search
  <2>1. o.applied = Nothing /\ worker.pc = "search"
    BY <1>5 DEF CopiesInv, RecordedTogether, Search
  <2>2. ASSUME NEW i \in Ids PROVE AtUpdate(Adopt(o, i)) = "update"
    <3>1. Adopt(o, i).spec = o.spec /\ Adopt(o, i).applied = o.applied
      BY <1>2 DEF Adopt, Object
    <3>2. Nothing.title = None
      BY DEF Nothing
    <3>3. QED
      BY <1>2, <2>1, <3>1, <3>2, ConstantsAssumption DEF AtUpdate
  <2>3. AtUpdate(o) = "update"
    <3>1. Nothing.title = None
      BY DEF Nothing
    <3>2. QED
      BY <1>2, <2>1, <3>1, ConstantsAssumption DEF AtUpdate
  <2>4. \E q : Go("create", "create", q) \/ Go("update", "update", q)
    BY <1>5, <2>2, <2>3 DEF Search
  <2>5. worker'.pc \in {"create", "update"}
    BY <1>4, <2>4
  <2>6. QED
    BY <2>5 DEF WorkerTells
<1>6. CASE CreatePolicy
  <2>1. CASE NewPolicy(o.spec.title) /\ Go("conditions", "create", [o EXCEPT !.id = FreshId])
    <3>1. FreshId \in Ids /\ FreshId # None
      BY <2>1, ConstantsAssumption DEF NewPolicy, FreshId
    <3> DEFINE q == [o EXCEPT !.id = FreshId]
               r == [title |-> o.spec.title, channels |-> {}]
    <3>2. q.id = FreshId /\ q.spec = o.spec
      BY <1>2 DEF Object
    <3>3. policies'[FreshId] = r
      BY <2>1, <3>1 DEF NewPolicy, TypeOK
    <3>4. r # None
      BY <1>2, ConstantsAssumption
    <3>5. r.title = o.spec.title
      OBVIOUS
    <3>6. worker'.pc = "conditions" /\ worker'.object = q
      BY <1>4, <2>1
    <3> HIDE DEF q, r
    <3>7. QED
      BY <3>1, <3>2, <3>3, <3>4, <3>5, <3>6 DEF WorkerTells, Titled
  <2>2. QED
    BY <1>3, <1>6, <2>1 DEF CreatePolicy, Fail
<1>7. ASSUME NEW i \in Ids, policies[i] # None, policies'[i] # None, ~Conflict,
             policies'[i].title = o.spec.title,
             NEW step, NEW mode, Go(step, mode, o), o.id = i,
             step = "save" => policies'[i].channels = o.spec.channels
      PROVE  WorkerTells'
  <2>1. worker'.pc = step /\ worker'.object = o
    BY <1>4, <1>7
  <2>2. i # None
    BY ConstantsAssumption
  <2>3. QED
    BY <1>7, <2>1, <2>2 DEF WorkerTells, Titled
<1>8. CASE UpdatePolicy
  <2> DEFINE i == o.id
  <2>1. CASE /\ policies[i] # None
             /\ policies' = [policies EXCEPT ![i].title = o.spec.title]
             /\ Go(AtConditions(o), "update", o)
    <3>1. i \in Ids
      BY <1>2, <1>8, ObjectFields DEF UpdatePolicy
    <3>2. ~Conflict
      BY <1>4, <2>1
    <3>3. /\ policies[i] \in [title : Titles, channels : SUBSET Channels]
          /\ policies'[i] = [policies[i] EXCEPT !.title = o.spec.title]
      BY <2>1, <3>1 DEF TypeOK
    <3>4. policies'[i].title = o.spec.title /\ policies'[i].channels = policies[i].channels
      BY <3>3
    <3>5. policies'[i] # None
      <4>1. [policies[i] EXCEPT !.title = o.spec.title] \in
              [title : Titles, channels : SUBSET Channels]
        BY <1>2, <3>3
      <4>2. QED
        BY <3>3, <4>1, ConstantsAssumption
    <3>6. AtConditions(o) = "save" => policies'[i].channels = o.spec.channels
      <4>1. policies[i].channels \subseteq o.spec.channels
        BY <1>1, <2>1, <3>1, <3>2, WorkerReads
      <4>2. AtConditions(o) = "save" => o.spec.channels = {}
        BY DEF AtConditions, AtChannels
      <4>3. QED
        BY <3>4, <4>1, <4>2
    <3>7. QED
      BY <1>7, <2>1, <3>1, <3>2, <3>4, <3>5, <3>6
  <2>2. QED
    BY <1>3, <1>8, <2>1 DEF UpdatePolicy, Fail
<1>9. CASE LinkChannels
  <2> DEFINE i == o.id
  <2>1. CASE /\ policies[i] # None
             /\ policies' = [policies EXCEPT ![i].channels = policies[i].channels \cup ToAdd(o)]
             /\ Go("save", worker.mode, o)
    <3>1. i \in Ids /\ worker.pc = "link"
      BY <1>2, <1>9, ObjectFields DEF LinkChannels
    <3>2. ~Conflict
      BY <1>4, <2>1
    <3>3. /\ policies[i] \in [title : Titles, channels : SUBSET Channels]
          /\ policies'[i] = [policies[i] EXCEPT !.channels = policies[i].channels \cup ToAdd(o)]
      BY <2>1, <3>1 DEF TypeOK
    <3>4. /\ policies'[i].title = policies[i].title
          /\ policies'[i].channels = policies[i].channels \cup ToAdd(o)
      BY <3>3
    <3>5. policies'[i] # None
      <4>1. ToAdd(o) \subseteq Channels
        BY <1>2, PolicyFields DEF ToAdd
      <4>2. [policies[i] EXCEPT !.channels = policies[i].channels \cup ToAdd(o)] \in
              [title : Titles, channels : SUBSET Channels]
        BY <3>3, <4>1
      <4>3. QED
        BY <3>3, <4>2, ConstantsAssumption
    <3>6. policies[i].title = o.spec.title
      BY <3>1, <3>2 DEF PolicyInv, WorkerTells, Titled
    <3>7. /\ policies[i].channels \subseteq o.spec.channels
          /\ store # None /\ store.deleting = o.deleting /\ store \in PolicyCopies
      BY <1>1, <2>1, <3>1, <3>2, WorkerReads
    <3>8. o.applied.channels \subseteq policies[i].channels
      <4>1. o.applied = store.applied /\ (store.id # None => i = store.id)
        BY <1>1, <3>1, <3>2 DEF CopiesInv, WorkerKnows, Deletion
      <4>2. CASE o.applied = Nothing
        BY <4>2 DEF Nothing
      <4>3. CASE o.applied # Nothing
        <5>1. store.id # None /\ ~o.deleting
          BY <3>1, <3>7, <4>1, <4>3
          DEF CopiesInv, RecordedTogether, LeakInv, WorkerPhases, Deletion
        <5>2. Settled
          BY <3>7, <4>1, <4>3, <5>1 DEF Settled
        <5>3. QED
          BY <4>1, <5>1, <5>2 DEF PolicyInv, LinksKept
      <4>4. QED
        BY <4>2, <4>3
    <3>9. policies'[i].channels = o.spec.channels
      BY <3>4, <3>7, <3>8 DEF ToAdd
    <3>10. QED
      BY <1>7, <2>1, <3>1, <3>2, <3>4, <3>5, <3>6, <3>9
  <2>2. QED
    BY <1>3, <1>9, <2>1 DEF LinkChannels, Relink, Fail
<1>10. QED
  BY <1>5, <1>6, <1>8, <1>9

\* The calls about the conditions leave the policy in New Relic alone.
LEMMA TellsOfConditions ==
  ASSUME TypeOK, TypeOK', LeakInv, NEW order, NeverBack(order), CopiesInv(order),
         PolicyInv(order), ~Conflict',
         CreateCondition \/ UpdateCondition \/ EndConditions \/ DeleteCondition \/ EndDeletes
  PROVE  WorkerTells'
<1> DEFINE o == worker.object
           q == worker'.object
<1>1. Call /\ ~Save /\ ~Release /\ worker.pc # "idle" /\ UNCHANGED policies
  BY DEF Call, CreateCondition, UpdateCondition, EndConditions, DeleteCondition, EndDeletes,
         InLoop, Save, Release, newRelic
<1>2. CASE worker' = Idle
  BY <1>2 DEF WorkerTells, Idle
<1>3. CASE Advance
  <2>1. /\ ~Conflict /\ Written(q) = Written(o) /\ q \in Object
        /\ o.id # None => q.id = o.id
        /\ worker'.pc \in Deletion <=> worker.pc \in Deletion
    BY <1>3 DEF Advance, Conflict
  <2>2. /\ o \in Object /\ Seen.title = o.spec.title
        /\ \A i \in Ids : policies[i] # None => policies[i].channels \subseteq o.spec.channels
    BY <1>1, <2>1, WorkerReads
  <2>3. o.spec \in Policy /\ q.spec \in Policy
    BY <2>1, <2>2, ObjectFields
  <2>4. q.spec.title = o.spec.title /\ q.spec.channels = o.spec.channels
    BY <2>1, <2>3, WithoutNamesFields DEF Written
  <2>5. worker'.pc \notin Deletion =>
          /\ worker.pc \in {"conditions", "stragglers"}
          /\ worker'.pc = "save" => o.spec.channels = {}
    <3>1. CASE CreateCondition \/ UpdateCondition
      BY <3>1, ConditionProcessed, ProcessedFields DEF InLoop
    <3>2. CASE EndConditions
      <4>1. worker \in Busy /\ worker.pc = "conditions"
        BY <1>1, <3>2, WorkerBusy DEF EndConditions
      <4>2. worker'.pc = "stragglers"
        BY <3>2, <4>1 DEF EndConditions, Busy
      <4>3. QED
        BY <4>1, <4>2
    <3>3. CASE DeleteCondition
      BY <2>1, <3>3, DeletingStep DEF DeleteCondition, Deletion
    <3>4. CASE EndDeletes
      <4>1. worker.pc \in {"stragglers", "deleteConditions"}
        BY <3>4 DEF EndDeletes
      <4>2. ASSUME worker.pc = "stragglers"
            PROVE  worker'.pc = "idle" \/ worker'.pc = AtChannels(o)
        BY <3>4, <4>2 DEF EndDeletes, Fail, Idle, Go, At
      <4>3. AtChannels(o) = "save" => o.spec.channels = {}
        BY DEF AtChannels
      <4>4. worker'.pc \in Steps
        BY <1>3 DEF Advance
      <4>5. QED
        BY <2>1, <4>1, <4>2, <4>3, <4>4 DEF Deletion, Steps
    <3>5. QED
      BY <3>1, <3>2, <3>3, <3>4
  <2>6. CASE worker'.pc \in Deletion
    BY <2>6 DEF Deletion, WorkerTells
  <2>7. CASE worker'.pc \notin Deletion
    <3>1. Titled(o.id, o.spec.title) /\ o.id \in Ids /\ q.id = o.id
      <4>1. Titled(o.id, o.spec.title)
        BY <2>1, <2>5, <2>7 DEF PolicyInv, WorkerTells
      <4>2. o.id # None
        BY <4>1 DEF Titled
      <4>3. QED
        BY <2>1, <2>2, <4>1, <4>2, ObjectFields
    <3>2. worker'.pc = "save" => policies[o.id].channels = o.spec.channels
      <4>1. policies[o.id].channels \subseteq o.spec.channels
        BY <2>2, <3>1 DEF Titled
      <4>2. QED
        BY <2>5, <2>7, <4>1
    <3>3. QED
      BY <1>1, <2>4, <3>1, <3>2 DEF WorkerTells, Titled
  <2>8. QED
    BY <2>6, <2>7
<1>4. QED
  BY <1>1, <1>2, <1>3, CallAdvances

LEMMA StepWorkerTells ==
  ASSUME TypeOK, TypeOK', LeakInv, NEW order, NeverBack(order), CopiesInv(order),
         PolicyInv(order), [Next]_vars
  PROVE  WorkerTells'
<1> SUFFICES ASSUME ~Conflict' PROVE WorkerTells'
  BY DEF WorkerTells
<1>1. CASE UNCHANGED <<revision, worker, policies>>
  BY <1>1 DEF PolicyInv, WorkerTells, Conflict, Titled
<1>2. CASE User
  <2>1. UNCHANGED worker /\ revision' = revision + 1 /\ revision \in Nat
    BY <1>2 DEF User, UserCreate, UserEdit, UserDelete, UserOp, Put, TypeOK
  <2>2. worker'.pc = "idle"
    BY <2>1, WorkerBusy DEF Conflict, LeakInv, WorkerCoherent
  <2>3. QED
    BY <2>2 DEF WorkerTells
<1>3. CASE worker'.pc \in {"idle", "release"}
  BY <1>3 DEF WorkerTells
<1>4. Crash \/ Save \/ Release => worker'.pc = "idle"
  BY DEF Crash, Save, Release, Return, Fail, Idle
<1>5. DeletePolicy => worker'.pc \in {"idle", "release"}
  BY DEF DeletePolicy, Fail, Idle, Go, At
<1>6. UNCHANGED vars \/ PolicySync \/ Resync \/ Others \/ ReconcileFails \/ ReconcileNothing
        => UNCHANGED <<revision, worker, policies>>
  BY DEF vars, PolicySync, Resync, Others, ConditionSync, ConditionReleased,
         ReconcileFails, ReconcileNothing, cluster, newRelic
<1>7. ~UnlinkChannel
  BY DEF UnlinkChannel, CopiesInv, WorkerKnows
<1>8. QED
  BY <1>1, <1>2, <1>3, <1>4, <1>5, <1>6, <1>7, TellsBegin, TellsOfPolicy, TellsOfConditions
  DEF Next, Reconcile, Call

\* For users who never go back, New Relic holds the policy under the title of a
\* version no older than the recorded one, with the channels that are recorded and
\* none that the users do not ask for; and a worker that gets to its Update has
\* made both what it is about to record.
THEOREM PolicyInvariant ==
  ASSUME NEW order, NeverBack(order)
  PROVE  Spec => []PolicyInv(order)
<1>1. Init => PolicyInv(order)
  BY InitPolicy
<1>2. TypeOK /\ TypeOK' /\ LeakInv /\ CopiesInv(order) /\ PolicyInv(order) /\ [Next]_vars
        => PolicyInv(order)'
  BY StepTitleKept, StepLinksKept, StepWorkerTells DEF PolicyInv
<1>3. QED
  BY <1>1, <1>2, TypeCorrect, LeakInvariant, CopiesInvariant, PTL DEF Spec

-----------------------------------------------------------------------------
(* The third part: the resources of the conditions.                        *)

\* The names that are recorded have been given out, each for one condition; and
\* the informer's copies are no newer than the resources.
NamesGiven ==
  /\ \A o \in PolicyCopies : \A i \in DOMAIN o.applied.conditions :
       /\ o.applied.conditions[i].name \in names
       /\ \A j \in DOMAIN o.applied.conditions :
            o.applied.conditions[i].name = o.applied.conditions[j].name => i = j
  /\ \A n \in Names :
       /\ resources[n].object # None => n \in names
       /\ copies[n].object # None => n \in names
       /\ copies[n].rev <= resources[n].rev
       /\ copies[n].rev = resources[n].rev => copies[n] = resources[n]

\* The spec still has the resource that was applied for the condition at i.
Kept(o, i) ==
  /\ i \in DOMAIN o.spec.conditions \cap DOMAIN o.applied.conditions
  /\ \/ o.spec.conditions[i].name # None
     \/ NameOf[o.spec.conditions[i].spec] = NameOf[o.applied.conditions[i].spec]

\* A copy that records the resource of the condition at i, if an earlier one than
\* the users', keeps it if theirs does; and a worker has done so, or will.
StillKept ==
  Settled => \A i \in DOMAIN store.applied.conditions :
    LET name == store.applied.conditions[i].name
        w    == worker.object
    IN /\ \A j \in DOMAIN cache.object.applied.conditions :
            cache.object.applied.conditions[j].name = name =>
              j = i /\ (Kept(store, i) => Kept(cache.object, i))
       /\ worker.pc # "idle" =>
            \A j \in DOMAIN w.applied.conditions : w.applied.conditions[j].name = name =>
              /\ j = i
              /\ Kept(store, i) =>
                   /\ i \in DOMAIN w.spec.conditions
                   /\ Untouched(i) => Kept(w, i)
                   /\ worker.pc = "conditions" /\ i < worker.next => name \in worker.done
       /\ worker.pc = "stragglers" /\ Kept(store, i) =>
            \A e \in worker.left : e.name # name

Holds(p, i, v) == i \in DOMAIN p.conditions /\ v.object.spec = p.conditions[i]

\* The informer's copy has the spec of this version or of one that came before.
CopyHolds(order, q, i, n) ==
  copies[n].object # None =>
    \E p \in Versions : Upto(order, p, q) /\ Holds(p, i, copies[n])

\* A resource that the spec still has is there, with the spec of a version since
\* the recorded one, and the informer's copy of it is no newer.
ResourcesKept(order) ==
  Settled => \A i \in DOMAIN store.applied.conditions :
    LET name == store.applied.conditions[i].name IN
    Kept(store, i) =>
      /\ Live(name)
      /\ \E p \in Versions :
           /\ Upto(order, Recorded(store), p) /\ Upto(order, p, Seen)
           /\ Holds(p, i, resources[name])
           /\ CopyHolds(order, p, i, name)

\* The condition at i of a worker's copy has its resource, and one that it is
\* right to record.
Done(order, o, i) ==
  LET e == o.spec.conditions[i] IN
  /\ e.name \in names /\ Live(e.name)
  /\ resources[e.name].object.spec = e.spec
  /\ CopyHolds(order, Written(o), i, e.name)
  /\ \A j \in DOMAIN o.applied.conditions : o.applied.conditions[j].name = e.name =>
       j = i /\ Kept(store, i)

\* A worker that has met no error, and whose Update would be accepted.
OnCourse ==
  /\ worker.pc \in {"conditions", "stragglers", "link", "save"}
  /\ worker.pc \in {"conditions", "stragglers"} => ~worker.failed
  /\ ~Conflict

Past(i) == worker.pc = "conditions" => i < worker.next

\* It has done so for every condition that it has processed.
WorkerDone(order) ==
  OnCourse =>
    \A i \in DOMAIN worker.object.spec.conditions : Past(i) =>
      LET o    == worker.object
          name == o.spec.conditions[i].name
      IN /\ Done(order, o, i)
         /\ \A j \in DOMAIN o.spec.conditions :
              Past(j) /\ name = o.spec.conditions[j].name => i = j
         /\ worker.pc = "conditions" => name \in worker.done
         /\ worker.pc = "stragglers" => \A e \in worker.left : e.name # name

ConditionsInv(order) ==
  NamesGiven /\ StillKept /\ ResourcesKept(order) /\ WorkerDone(order)

LEMMA InitConditions ==
  ASSUME NEW order, Init PROVE ConditionsInv(order)
<1>1. PolicyCopies = {} /\ worker.pc = "idle" /\ store = None
  BY DEF Init, PolicyCopies, Absent, Idle
<1>2. \A n \in Names : resources[n] = Absent /\ copies[n] = Absent
  BY DEF Init
<1>3. NamesGiven
  BY <1>1, <1>2 DEF NamesGiven, Absent
<1>4. QED
  BY <1>1, <1>3 DEF ConditionsInv, StillKept, ResourcesKept, WorkerDone, Settled, OnCourse

\* The versions that a copy is of and records, condition by condition.
LEMMA CopyEntries ==
  ASSUME NEW o \in Object
  PROVE  /\ DOMAIN Written(o).conditions = DOMAIN o.spec.conditions
         /\ \A i \in DOMAIN o.spec.conditions :
              /\ i \in Nat /\ i >= 1
              /\ Written(o).conditions[i] = o.spec.conditions[i].spec
         /\ DOMAIN Recorded(o).conditions = DOMAIN o.applied.conditions
         /\ \A i \in DOMAIN o.applied.conditions :
              /\ i \in Nat /\ i >= 1
              /\ Recorded(o).conditions[i] = o.applied.conditions[i].spec
<1>1. o.spec \in Policy \cup {Nothing} /\ o.applied \in Policy \cup {Nothing}
  BY ObjectFields
<1>2. \A p \in Policy \cup {Nothing} :
        /\ DOMAIN WithoutNames(p).conditions = DOMAIN p.conditions
        /\ DOMAIN p.conditions = 1 .. Len(p.conditions) /\ Len(p.conditions) \in Nat
        /\ \A i \in DOMAIN p.conditions :
             WithoutNames(p).conditions[i] = p.conditions[i].spec
  BY WithoutNamesFields
<1>3. \A p \in Policy \cup {Nothing} : \A i \in DOMAIN p.conditions : i \in Nat /\ i >= 1
  BY <1>2
<1>4. QED
  BY <1>1, <1>2, <1>3 DEF Written, Recorded

\* The resource of a condition, of which no step has changed the name, is the one
\* that was applied for it, or there is none.
LEMMA ResourceInPlace ==
  ASSUME NEW order, NeverBack(order), NEW o \in Object,
         Written(o) \in Versions, Recorded(o) \in Versions, o.applied # Nothing,
         NEW i \in DOMAIN o.spec.conditions, InPlace(o, i)
  PROVE  LET r == ResourceOf(o.spec.conditions[i], o.applied) IN
         /\ Kept(o, i) => r = o.applied.conditions[i].name
         /\ ~Kept(o, i) => r = None
<1> DEFINE e == o.spec.conditions[i]
           a == o.applied.conditions
           same == {j \in DOMAIN a : NameOf[a[j].spec] = NameOf[e.spec]}
<1>1. CASE e.name # None
  <2>1. i \in DOMAIN a /\ e.name = a[i].name
    BY <1>1 DEF InPlace
  <2>2. Kept(o, i)
    BY <1>1, <2>1 DEF Kept
  <2>3. ResourceOf(e, o.applied) = e.name
    BY <1>1 DEF ResourceOf
  <2>4. QED
    BY <2>1, <2>2, <2>3
<1>2. CASE e.name = None
  <2>1. \A j \in same : j = i
    <3>1. ASSUME NEW j \in same PROVE j = i
      <4>1. /\ Written(o).conditions[i] = e.spec /\ i \in DOMAIN Written(o).conditions
            /\ Recorded(o).conditions[j] = a[j].spec /\ j \in DOMAIN Recorded(o).conditions
        BY <3>1, CopyEntries
      <4>2. NameOf[Written(o).conditions[i]] = NameOf[Recorded(o).conditions[j]]
        BY <3>1, <4>1
      <4>3. QED
        BY <4>1, <4>2 DEF NeverBack
    <3>2. QED
      BY <3>1
  <2>2. Kept(o, i) <=> i \in same
    BY <1>2 DEF Kept
  <2>3. ResourceOf(e, o.applied) =
          IF same = {} THEN None
          ELSE a[CHOOSE j \in same : \A k \in same : j <= k].name
    BY <1>2 DEF ResourceOf
  <2>4. i \in Nat
    BY CopyEntries
  <2> HIDE DEF same
  <2>5. ASSUME i \in same
        PROVE  (CHOOSE j \in same : \A k \in same : j <= k) = i
    BY <2>1, <2>4, <2>5
  <2>6. QED
    BY <2>1, <2>2, <2>3, <2>5
<1>3. QED
  BY <1>1, <1>2

LEMMA PutsResource ==
  ASSUME TypeOK, NEW m \in Names, NEW r, PutResource(m, r), NEW n \in Names
  PROVE  /\ n = m => resources'[n].object = r /\ resources'[n].rev = resources[n].rev + 1
         /\ n # m => resources'[n] = resources[n]
<1>1. resources' = [resources EXCEPT ![m] = [object |-> r, rev |-> resources[m].rev + 1]]
  BY DEF PutResource
<1>2. n = m => resources'[n] = [object |-> r, rev |-> resources[m].rev + 1]
  BY <1>1 DEF TypeOK
<1>3. n # m => resources'[n] = resources[n]
  BY <1>1 DEF TypeOK
<1>4. QED
  BY <1>2, <1>3

\* What a step does to the resource of a condition.
LEMMA ResourceSteps ==
  ASSUME TypeOK, [Next]_vars, NEW n \in Names, resources'[n] # resources[n]
  PROVE  /\ resources'[n].rev = resources[n].rev + 1
         /\ \/ /\ CreateCondition /\ n = FreshName /\ n \notin names /\ n \in names'
               /\ resources'[n].object # None /\ ~resources'[n].object.deleting
               /\ resources'[n].object.spec = Current.spec
            \/ /\ UpdateCondition /\ n = ResourceOf(Current, worker.object.applied)
               /\ copies[n].rev = resources[n].rev /\ copies[n].object # None
               /\ resources'[n].object # None
               /\ resources'[n].object.deleting = copies[n].object.deleting
               /\ resources'[n].object.spec = Current.spec
            \/ /\ DeleteCondition /\ worker.pc \in {"stragglers", "deleteConditions"}
               /\ \E e \in worker.left : n = e.name
               /\ resources[n].object # None
            \/ /\ ConditionReleased(n) /\ resources[n].object # None
               /\ resources[n].object.deleting
               /\ resources'[n].object = None
<1> DEFINE goal == resources'[n].rev = resources[n].rev + 1
<1>1. CASE UNCHANGED resources
  BY <1>1
<1>2. CASE CreateCondition
  <2> DEFINE r == [spec |-> Current.spec, key |-> worker.object.spec.key,
                   account |-> worker.object.spec.account, deleting |-> FALSE]
  <2>1. NewResource(Current)
    BY <1>2 DEF CreateCondition, conditions
  <2>2. FreshName \in Names \ names
    BY <2>1 DEF NewResource, FreshName
  <2>3. n = FreshName /\ resources'[n].object = r /\ goal
    BY <2>1, <2>2, PutsResource DEF NewResource
  <2>4. r \in Resource
    BY <1>2, CurrentType DEF Resource, CreateCondition
  <2>5. r # None
    BY <2>4, ConstantsAssumption
  <2>6. n \in names'
    BY <2>1, <2>3 DEF NewResource
  <2>7. r.spec = Current.spec /\ r.deleting = FALSE
    OBVIOUS
  <2> HIDE DEF r
  <2>8. QED
    BY <1>2, <2>2, <2>3, <2>5, <2>6, <2>7
<1>3. CASE UpdateCondition
  <2> DEFINE name == ResourceOf(Current, worker.object.applied)
             copy == Retrieved(name, Current.spec)
             r    == [copy.object EXCEPT !.spec = Current.spec,
                                         !.key = worker.object.spec.key,
                                         !.account = worker.object.spec.account]
  <2>1. /\ copy # Absent /\ copy.rev = resources[name].rev
        /\ PutResource(name, r)
    BY <1>1, <1>3 DEF UpdateCondition
  <2>2. /\ name \in Names /\ copy.object \in Resource /\ copies[name].object # None
        /\ copy = copies[name]
    BY <2>1, RetrievedType DEF Retrieved
  <2>3. n = name /\ resources'[n].object = r /\ goal
    BY <2>1, <2>2, PutsResource
  <2>4. r \in Resource /\ r.spec = Current.spec /\ r.deleting = copy.object.deleting
    BY <1>3, <2>2, CurrentType DEF Resource, UpdateCondition
  <2>5. r # None
    BY <2>4, ConstantsAssumption
  <2> HIDE DEF r
  <2>6. QED
    BY <1>3, <2>1, <2>2, <2>3, <2>4, <2>5
<1>4. CASE DeleteCondition
  <2>1. PICK e \in worker.left :
          /\ worker.pc \in {"stragglers", "deleteConditions"}
          /\ Retrieved(e.name, e.spec) # Absent
          /\ resources[e.name].object # None
          /\ DeleteResource(e.name)
    BY <1>1, <1>4 DEF DeleteCondition
  <2>2. PICK r : PutResource(e.name, r)
    BY <1>1, <2>1 DEF DeleteResource
  <2>3. e.name \in Names
    BY <2>1, RetrievedType
  <2>4. n = e.name /\ goal
    BY <2>2, <2>3, PutsResource
  <2>5. QED
    BY <1>4, <2>1, <2>4
<1>5. ASSUME NEW m \in Names, ConditionReleased(m)
      PROVE  /\ ConditionReleased(n) /\ resources[n].object # None
             /\ resources[n].object.deleting
             /\ resources'[n].object = None /\ goal
  <2>1. /\ PutResource(m, None) /\ resources[m].object # None
        /\ resources[m].object.deleting
    BY <1>5 DEF ConditionReleased
  <2>2. n = m
    BY <2>1, PutsResource
  <2>3. QED
    BY <1>5, <2>1, <2>2, PutsResource
<1>6. \/ UNCHANGED resources \/ CreateCondition \/ UpdateCondition \/ DeleteCondition
      \/ \E m \in Names : ConditionReleased(m)
  BY DEF Next, vars, User, UserCreate, UserEdit, UserDelete, UserOp, PolicySync, Resync,
         Crash, Others, ConditionSync, Reconcile, ReconcileFails,
         ReconcileNothing, ReconcileDeletion, ReconcileSpec, Begin, Call, Search,
         CreatePolicy, UpdatePolicy, LinkChannels, UnlinkChannel, DeletePolicy,
         EndConditions, EndDeletes, Save, Release, conditions
<1>7. QED
  BY <1>1, <1>2, <1>3, <1>4, <1>5, <1>6

\* A copy changes only to become what the resource is.
LEMMA CopySteps ==
  ASSUME TypeOK, [Next]_vars
  PROVE  /\ names \subseteq names'
         /\ UNCHANGED copies \/ UNCHANGED <<resources, store, revision>>
         /\ \A n \in Names : copies'[n] = copies[n] \/ copies'[n] = resources[n]
<1>1. CASE UNCHANGED copies
  <2>1. names \subseteq names'
    BY DEF Next, vars, User, UserCreate, UserEdit, UserDelete, UserOp, PolicySync, Resync,
         Crash, Others, ConditionSync, ConditionReleased, Reconcile, ReconcileFails,
         ReconcileNothing, ReconcileDeletion, ReconcileSpec, Begin, Call, Search,
         CreatePolicy, UpdatePolicy, LinkChannels, UnlinkChannel, DeletePolicy,
         CreateCondition, NewResource, UpdateCondition, EndConditions, DeleteCondition,
         EndDeletes, Save, Release, conditions
  <2>2. QED
    BY <1>1, <2>1
<1>2. CASE Crash
  BY <1>2 DEF Crash, conditions, cluster
<1>3. ASSUME NEW kind, ConditionSync(kind)
      PROVE  /\ UNCHANGED <<resources, names, store, revision>>
             /\ \A n \in Names : copies'[n] = copies[n] \/ copies'[n] = resources[n]
  BY <1>3 DEF ConditionSync, conditions, cluster
<1>4. UNCHANGED copies \/ Crash \/ \E kind : ConditionSync(kind)
  BY DEF Next, vars, User, UserCreate, UserEdit, UserDelete, UserOp, PolicySync, Resync,
         Others, ConditionReleased, Reconcile, ReconcileFails,
         ReconcileNothing, ReconcileDeletion, ReconcileSpec, Begin, Call, Search,
         CreatePolicy, UpdatePolicy, LinkChannels, UnlinkChannel, DeletePolicy,
         CreateCondition, UpdateCondition, EndConditions, DeleteCondition, EndDeletes,
         Save, Release
<1>5. QED
  BY <1>1, <1>2, <1>3, <1>4

\* What a copy of the policy records does not change, but by the Update.
LEMMA CopiesRecord ==
  ASSUME TypeOK, TypeOK', LeakInv, NEW order, NeverBack(order), CopiesInv(order),
         [Next]_vars, NEW o \in PolicyCopies'
  PROVE  \/ o.applied = Nothing
         \/ \E q \in PolicyCopies : o.applied = q.applied
         \/ /\ Save /\ ~Conflict /\ o = store'
            /\ worker.object \in Object /\ o.applied = worker.object.spec
<1>1. CASE UNCHANGED <<store, cache, worker>>
  BY <1>1 DEF PolicyCopies
<1>2. worker.object \in PolicyCopies' /\ worker.object \notin PolicyCopies => worker.pc = "idle"
  BY WorkerBusy, ObjectFields DEF PolicyCopies
<1>3. CASE User
  <2>1. UNCHANGED <<cache, worker>>
    BY <1>3 DEF User, UserCreate, UserEdit, UserDelete, UserOp
  <2>2. ASSUME store' # None
        PROVE  \/ store'.applied = Nothing
               \/ store # None /\ store'.applied = store.applied
    <3>1. CASE UserCreate
      BY <3>1 DEF UserCreate, Put
    <3>2. CASE UserEdit
      BY <3>2, EditFields
    <3>3. CASE UserDelete
      <4>1. store \in Object /\ store' = [store EXCEPT !.deleting = TRUE]
        BY <2>2, <3>3 DEF UserDelete, TypeOK, Put, Deleted
      <4>2. QED
        BY <4>1, ObjectFields DEF Object
    <3>4. QED
      BY <1>3, <3>1, <3>2, <3>3 DEF User
  <2>3. QED
    BY <2>1, <2>2 DEF PolicyCopies
<1>4. CASE PolicySync \/ Crash
  BY <1>4 DEF PolicySync, Crash, cluster, PolicyCopies, Idle
<1>5. CASE ReconcileDeletion \/ ReconcileSpec
  <2>1. /\ UNCHANGED <<store, cache>> /\ cache.object \in PolicyCopies
        /\ worker'.object.applied = cache.object.applied
    BY <1>5, BeginFields
  <2>2. QED
    BY <2>1 DEF PolicyCopies
<1>6. CASE worker' = Idle /\ UNCHANGED cache /\ (UNCHANGED store \/ store' = None)
  BY <1>6 DEF PolicyCopies, Idle
<1>7. CASE Advance
  <2>1. /\ UNCHANGED <<store, cache>> /\ worker.object \in PolicyCopies
        /\ worker'.object.applied = worker.object.applied
    BY <1>7, WorkerBusy, ObjectFields DEF Advance, PolicyCopies
  <2>2. QED
    BY <2>1 DEF PolicyCopies
<1>8. CASE Save
  <2>1. /\ worker' = Idle /\ UNCHANGED cache /\ worker.object \in Object
        /\ \/ UNCHANGED <<store, revision>>
           \/ ~Conflict /\ store'.applied = worker.object.spec
    BY <1>8, SaveFields
  <2>2. QED
    BY <1>8, <2>1 DEF PolicyCopies, Idle
<1>9. Release => worker' = Idle /\ UNCHANGED cache /\ (UNCHANGED store \/ store' = None)
  BY DEF Release, Return, Fail, cluster, Put
<1>10. UNCHANGED vars \/ Resync \/ Others \/ ReconcileFails \/ ReconcileNothing
         => UNCHANGED <<store, cache, worker>>
  BY DEF vars, Resync, Others, ConditionSync, ConditionReleased, ReconcileFails,
         ReconcileNothing, cluster
<1>11. Call /\ ~Save /\ ~Release =>
         UNCHANGED <<store, cache>> /\ (worker' = Idle \/ Advance)
  BY CallAdvances
<1>12. QED
  BY <1>1, <1>3, <1>4, <1>5, <1>6, <1>7, <1>8, <1>9, <1>10, <1>11 DEF Next, Reconcile

LEMMA StepNamesGiven ==
  ASSUME TypeOK, TypeOK', LeakInv, NEW order, NeverBack(order), CopiesInv(order),
         ConditionsInv(order), [Next]_vars
  PROVE  NamesGiven'
<1>1. names \subseteq names'
  BY CopySteps
<1>2. ASSUME NEW o \in PolicyCopies'
      PROVE  \A i \in DOMAIN o.applied.conditions :
               /\ o.applied.conditions[i].name \in names'
               /\ \A j \in DOMAIN o.applied.conditions :
                    o.applied.conditions[i].name = o.applied.conditions[j].name => i = j
  <2>1. CASE o.applied = Nothing
    BY <2>1 DEF Nothing
  <2>2. CASE \E q \in PolicyCopies : o.applied = q.applied
    BY <1>1, <2>2 DEF ConditionsInv, NamesGiven
  <2>3. CASE Save /\ ~Conflict /\ o.applied = worker.object.spec
    <3>1. OnCourse /\ worker.pc = "save"
      BY <2>3 DEF OnCourse, Save
    <3>2. \A i \in DOMAIN worker.object.spec.conditions :
            /\ Done(order, worker.object, i)
            /\ \A j \in DOMAIN worker.object.spec.conditions :
                 worker.object.spec.conditions[i].name =
                   worker.object.spec.conditions[j].name => i = j
      BY <3>1 DEF ConditionsInv, WorkerDone, Past
    <3>3. QED
      BY <1>1, <2>3, <3>2 DEF Done
  <2>4. QED
    BY <2>1, <2>2, <2>3, CopiesRecord
<1>3. ASSUME NEW n \in Names
      PROVE  /\ resources'[n].object # None => n \in names'
             /\ copies'[n].object # None => n \in names'
             /\ copies'[n].rev <= resources'[n].rev
             /\ copies'[n].rev = resources'[n].rev => copies'[n] = resources'[n]
  <2>1. /\ resources[n].object # None => n \in names
        /\ copies[n].object # None => n \in names
        /\ copies[n].rev <= resources[n].rev
        /\ copies[n].rev = resources[n].rev => copies[n] = resources[n]
    BY DEF ConditionsInv, NamesGiven
  <2>2. copies[n].rev \in Nat /\ resources[n].rev \in Nat
    BY DEF TypeOK, Versioned
  <2>3. CASE resources'[n] = resources[n]
    BY <1>1, <2>1, <2>2, <2>3, CopySteps
  <2>4. CASE resources'[n] # resources[n]
    <3>1. resources'[n].rev = resources[n].rev + 1 /\ n \in names'
      BY <1>1, <2>1, <2>4, ResourceSteps
    <3>2. copies'[n] = copies[n]
      BY <2>4, CopySteps
    <3>3. QED
      BY <1>1, <2>1, <2>2, <3>1, <3>2
  <2>5. QED
    BY <2>3, <2>4
<1>4. QED
  BY <1>2, <1>3 DEF NamesGiven

\* What an edit leaves of the resource of a condition was there before.
LEMMA KeptBefore ==
  ASSUME TypeOK, TypeOK', LeakInv, NEW order, NeverBack(order), CopiesInv(order),
         [Next]_vars, Settled', ~(Save /\ ~Conflict /\ ~UNCHANGED <<store, revision>>)
  PROVE  /\ Settled /\ store'.applied = store.applied /\ store' # None
         /\ UNCHANGED store \/ UserEdit
         /\ \A i \in DOMAIN store.applied.conditions : Kept(store', i) => Kept(store, i)
<1>1. /\ Settled /\ store'.applied = store.applied /\ store' # None /\ ~UserCreate
  BY SettledBefore
<1>2. CASE UNCHANGED store
  BY <1>1, <1>2
<1>3. CASE UserEdit
  <2>1. /\ store \in Object /\ store' \in Object
        /\ \E e \in Edits : e[1] = Written(store) /\ e[2] = Written(store')
        /\ \A i \in DOMAIN store'.spec.conditions :
             \/ store'.spec.conditions[i].name = None
             \/ /\ i \in DOMAIN store.spec.conditions
                /\ store'.spec.conditions[i].name = store.spec.conditions[i].name
    BY <1>3, EditFields
  <2>2. /\ Written(store) \in Versions /\ Written(store') \in Versions
        /\ Upto(order, Written(store), Written(store'))
    BY <2>1 DEF Versions, NeverBack, Upto
  <2>3. Recorded(store) \in Versions /\ Upto(order, Recorded(store), Written(store))
    BY <1>1, CopyVersion DEF Settled, PolicyCopies
  <2>4. ASSUME NEW i \in DOMAIN store.applied.conditions, Kept(store', i)
        PROVE  Kept(store, i)
    <3>1. i \in DOMAIN store'.spec.conditions
      BY <2>4 DEF Kept
    <3>2. CASE store'.spec.conditions[i].name # None
      BY <2>1, <3>1, <3>2 DEF Kept
    <3>3. CASE NameOf[store'.spec.conditions[i].spec] =
                 NameOf[store.applied.conditions[i].spec]
      <4> DEFINE p == Recorded(store)
                 q == Written(store)
                 r == Written(store')
      <4>1. /\ i \in DOMAIN p.conditions /\ p.conditions[i] = store.applied.conditions[i].spec
            /\ i \in DOMAIN r.conditions /\ r.conditions[i] = store'.spec.conditions[i].spec
        BY <2>1, <3>1, CopyEntries
      <4>2. i \in DOMAIN q.conditions /\ NameOf[q.conditions[i]] = NameOf[p.conditions[i]]
        BY <2>2, <2>3, <3>3, <4>1, Between
      <4>3. i \in DOMAIN store.spec.conditions
            /\ q.conditions[i] = store.spec.conditions[i].spec
        BY <2>1, <4>2, CopyEntries
      <4>4. QED
        BY <4>1, <4>2, <4>3 DEF Kept
    <3>4. QED
      BY <1>1, <2>4, <3>2, <3>3 DEF Kept
  <2>5. QED
    BY <1>1, <1>3, <2>4
<1>4. CASE UserDelete
  <2>1. store \in Object /\ (store' = None \/ store' = [store EXCEPT !.deleting = TRUE])
    BY <1>4 DEF UserDelete, TypeOK, Put, Deleted
  <2>2. [store EXCEPT !.deleting = TRUE].deleting
    BY <2>1 DEF Object
  <2>3. QED
    BY <2>1, <2>2 DEF Settled
<1>5. CASE Save /\ ~Conflict /\ ~UNCHANGED store
  BY <1>5
<1>6. QED
  BY <1>1, <1>2, <1>3, <1>4, <1>5, Writers DEF User

\* The conditions loop takes a resource that is recorded for the condition at its
\* index, and none that is not.
LEMMA LoopResource ==
  ASSUME TypeOK, NEW order, NeverBack(order), CopiesInv(order), ConditionsInv(order),
         InLoop
  PROVE  LET o == worker.object
             k == worker.next
             r == ResourceOf(Current, o.applied)
         IN  /\ o \in Object /\ o \in PolicyCopies /\ k \in Nat /\ Untouched(k)
             /\ k \in DOMAIN o.spec.conditions /\ Current = o.spec.conditions[k]
             /\ o.applied # Nothing =>
                  /\ Kept(o, k) =>
                       /\ r = o.applied.conditions[k].name /\ r \in names
                       /\ r # None
                  /\ ~Kept(o, k) => r = None
             /\ o.applied = Nothing => r \in {None, Manual}
<1> DEFINE o == worker.object
           k == worker.next
           r == ResourceOf(Current, o.applied)
<1>1. /\ worker \in Busy /\ o \in Object /\ o # None /\ o \in PolicyCopies
      /\ worker.pc = "conditions" /\ k \in DOMAIN o.spec.conditions
      /\ Current = o.spec.conditions[k]
  BY WorkerBusy, ObjectFields DEF InLoop, Current, PolicyCopies
<1>2. k \in Nat /\ Untouched(k)
  <2>1. k \in Nat
    BY <1>1, CopyEntries
  <2>2. QED
    BY <1>1, <2>1 DEF Untouched
<1>3. InPlace(o, k)
  BY <1>1, <1>2 DEF CopiesInv, NamesInPlace
<1>4. ASSUME o.applied # Nothing
      PROVE  /\ Kept(o, k) => r = o.applied.conditions[k].name /\ r \in names /\ r # None
             /\ ~Kept(o, k) => r = None
  <2>1. /\ Kept(o, k) => r = o.applied.conditions[k].name
        /\ ~Kept(o, k) => r = None
    BY <1>1, <1>3, <1>4, CopyVersion, ResourceInPlace
  <2>2. Kept(o, k) => o.applied.conditions[k].name \in names
    BY <1>1 DEF Kept, ConditionsInv, NamesGiven
  <2>3. None \notin names
    BY ConstantsAssumption DEF TypeOK
  <2>4. QED
    BY <2>1, <2>2, <2>3
<1>5. ASSUME o.applied = Nothing PROVE r \in {None, Manual}
  <2>1. Current.name \in {None, Manual}
    BY <1>1, <1>3, <1>5 DEF InPlace
  <2>2. DOMAIN o.applied.conditions = {}
    BY <1>5 DEF Nothing
  <2>3. QED
    BY <2>1, <2>2 DEF ResourceOf
<1>6. QED
  BY <1>1, <1>2, <1>4, <1>5

\* The kinds of steps that take the worker through the conditions.
LEMMA AdvanceKinds ==
  ASSUME TypeOK, LeakInv, NEW order, CopiesInv(order), Call, ~Save, ~Release, Advance
  PROVE  \/ worker'.pc \notin {"conditions", "stragglers"}
         \/ worker'.pc = "conditions" /\ worker'.next = 1
         \/ CreateCondition \/ UpdateCondition \/ EndConditions
         \/ DeleteCondition /\ worker.pc = "stragglers"
<1>1. worker'.pc # "idle" /\ worker' # Idle
  BY DEF Advance, Steps, Idle
<1>2. ASSUME NEW step, NEW mode, NEW o, Go(step, mode, o)
      PROVE  worker'.pc = step /\ (step = "conditions" => worker'.next = 1)
  BY <1>2 DEF Go, At
<1>3. CASE Search
  <2>1. \/ Go("create", "create", worker.object)
        \/ \E o : Go("create", "create", o) \/ Go(AtUpdate(o), "update", o)
    BY <1>3 DEF Search
  <2>2. \A o : AtUpdate(o) # "stragglers"
    BY NextStep
  <2>3. QED
    BY <1>2, <2>1, <2>2
<1>4. CASE CreatePolicy
  BY <1>1, <1>2, <1>4 DEF CreatePolicy, Fail
<1>5. CASE UpdatePolicy
  <2>1. AtConditions(worker.object) # "stragglers"
    BY NextStep
  <2>2. QED
    BY <1>1, <1>2, <1>5, <2>1 DEF UpdatePolicy, Fail
<1>6. CASE EndDeletes
  <2>1. AtChannels(worker.object) \notin {"conditions", "stragglers"}
    BY NextStep
  <2>2. QED
    BY <1>1, <1>2, <1>6, <2>1 DEF EndDeletes, Fail
<1>7. CASE LinkChannels
  BY <1>1, <1>2, <1>7 DEF LinkChannels, Relink, Fail
<1>8. CASE DeletePolicy
  BY <1>1, <1>2, <1>8 DEF DeletePolicy, Fail
<1>9. CASE DeleteCondition
  <2>1. worker'.pc = worker.pc /\ worker.pc \in {"stragglers", "deleteConditions"}
    BY <1>9, DeletingStep DEF DeleteCondition
  <2>2. QED
    BY <1>9, <2>1
<1>10. ~UnlinkChannel
  BY DEF UnlinkChannel, CopiesInv, WorkerKnows
<1>11. QED
  BY <1>3, <1>4, <1>5, <1>6, <1>7, <1>8, <1>9, <1>10 DEF Call

\* At the end of the loop every condition is processed.
LEMMA AllPast ==
  ASSUME TypeOK, NEW order, CopiesInv(order), EndConditions
  PROVE  /\ worker.pc = "conditions" /\ worker.object \in Object /\ worker \in Busy
         /\ \A i \in DOMAIN worker.object.spec.conditions : i < worker.next
         /\ worker'.pc = "stragglers" /\ worker'.object = worker.object
         /\ worker'.failed = worker.failed
         /\ \A e \in worker'.left :
              \E j \in DOMAIN worker.object.applied.conditions :
                e = worker.object.applied.conditions[j] /\ e.name \notin worker.done
<1>1. /\ worker.pc = "conditions" /\ worker \in Busy /\ worker.object \in Object
      /\ worker.next \in Nat /\ worker.next >= 1
      /\ worker.next \notin DOMAIN worker.object.spec.conditions
  <2>1. worker.pc = "conditions" /\ ~InLoop
    BY DEF EndConditions
  <2>2. worker \in Busy /\ worker.object \in Object
    BY <2>1, WorkerBusy
  <2>3. worker.next \in Nat
    BY <2>2 DEF Busy
  <2>4. QED
    BY <2>1, <2>2, <2>3 DEF InLoop, CopiesInv, WorkerKnows
<1>2. \A i \in DOMAIN worker.object.spec.conditions : i < worker.next
  <2>1. worker.object.spec \in Policy
    BY <1>1, ObjectFields
  <2>2. /\ DOMAIN worker.object.spec.conditions = 1 .. Len(worker.object.spec.conditions)
        /\ Len(worker.object.spec.conditions) \in Nat
    BY <2>1, PolicyFields
  <2>3. QED
    BY <1>1, <2>2
<1>3. /\ worker'.pc = "stragglers" /\ worker'.object = worker.object
      /\ worker'.failed = worker.failed
      /\ worker'.left = IF worker.mode = "update" THEN Stragglers ELSE {}
  BY <1>1 DEF EndConditions, Busy
<1>4. \A e \in Stragglers :
        \E j \in DOMAIN worker.object.applied.conditions :
          e = worker.object.applied.conditions[j] /\ e.name \notin worker.done
  BY DEF Stragglers
<1>5. QED
  BY <1>1, <1>2, <1>3, <1>4

\* The copy that a reconcile begins with keeps what the informer's keeps, and each
\* call keeps it, until the loops have dealt with it.
LEMMA WorkerStillKeeps ==
  ASSUME TypeOK, TypeOK', LeakInv, NEW order, NeverBack(order), CopiesInv(order),
         ConditionsInv(order), [Next]_vars, Settled, worker'.pc # "idle",
         NEW i \in DOMAIN store.applied.conditions, Kept(store, i),
         NEW j \in DOMAIN worker'.object.applied.conditions,
         worker'.object.applied.conditions[j].name = store.applied.conditions[i].name
  PROVE  /\ j = i
         /\ i \in DOMAIN worker'.object.spec.conditions
         /\ Untouched(i)' => Kept(worker'.object, i)
         /\ worker'.pc = "conditions" /\ i < worker'.next =>
              store.applied.conditions[i].name \in worker'.done
<1> DEFINE name == store.applied.conditions[i].name
           w == worker.object
           q == worker'.object
<1>1. i \in Nat /\ i >= 1 /\ store \in Object /\ store # None
  BY CopyEntries DEF Settled, TypeOK
<1>2. ASSUME worker.pc # "idle", q.applied = w.applied
      PROVE  /\ j = i
             /\ i \in DOMAIN w.spec.conditions
             /\ Untouched(i) => Kept(w, i)
             /\ worker.pc = "conditions" /\ i < worker.next => name \in worker.done
  BY <1>2 DEF ConditionsInv, StillKept
<1>3. CASE worker' = worker
  BY <1>2, <1>3 DEF Untouched
<1>4. CASE ReconcileDeletion \/ ReconcileSpec
  <2>1. /\ q.spec = cache.object.spec /\ q.applied = cache.object.applied
        /\ \E step, mode : worker' = At(step, mode, q, cache.rev)
    BY <1>4, BeginFields
  <2>2. worker'.pc = "conditions" => worker'.next = 1
    BY <2>1 DEF At
  <2>3. j = i /\ Kept(cache.object, i)
    BY <2>1 DEF ConditionsInv, StillKept
  <2>4. Kept(q, i)
    BY <2>1, <2>3 DEF Kept
  <2>5. QED
    BY <1>1, <2>2, <2>3, <2>4 DEF Kept
<1>5. CASE Call /\ ~Save /\ ~Release
  <2>1. Advance
    BY <1>5, CallAdvances DEF Idle
  <2>2. /\ worker.pc # "idle" /\ q.applied = w.applied /\ Written(q) = Written(w)
        /\ q \in Object /\ w \in Object
        /\ \A k \in DOMAIN w.spec.conditions : Untouched(k)' =>
             Untouched(k) /\ q.spec.conditions[k] = w.spec.conditions[k]
    BY <2>1, WorkerBusy DEF Advance
  <2>3. /\ j = i
        /\ i \in DOMAIN w.spec.conditions
        /\ Untouched(i) => Kept(w, i)
        /\ worker.pc = "conditions" /\ i < worker.next => name \in worker.done
    BY <1>2, <2>2
  <2>4. DOMAIN q.spec.conditions = DOMAIN w.spec.conditions
    BY <2>2, SameEntries
  <2>5. Untouched(i)' => Kept(q, i)
    BY <2>2, <2>3, <2>4 DEF Kept
  <2>6. ASSUME worker'.pc = "conditions", i < worker'.next PROVE name \in worker'.done
    <3>1. CASE worker'.next = 1
      BY <1>1, <2>6, <3>1
    <3>2. CASE CreateCondition \/ UpdateCondition
      <4> DEFINE k == worker.next
      <4>1. PICK n \in SomeName, error \in BOOLEAN : InLoop /\ Processed(n, error)
        BY <3>2, ConditionProcessed
      <4>2. /\ worker'.next = k + 1 /\ k \in Nat
            /\ worker'.done = worker.done \cup ({n} \ {None})
            /\ worker.pc = "conditions"
        BY <4>1, ProcessedFields DEF InLoop
      <4>3. CASE i < k
        BY <2>3, <4>2, <4>3
      <4>4. CASE i = k
        <5>1. w.applied # Nothing
          <6>1. DOMAIN Nothing.conditions = {}
            BY DEF Nothing
          <6>2. QED
            BY <2>2, <6>1
        <5>2. Untouched(k)
          BY <4>1, LoopResource
        <5>3. /\ ResourceOf(Current, w.applied) = w.applied.conditions[k].name
              /\ ResourceOf(Current, w.applied) # None
          BY <2>3, <4>1, <4>4, <5>1, <5>2, LoopResource
        <5>4. worker.mode # "create"
          BY <5>1 DEF CopiesInv, RecordedTogether
        <5>5. \E e \in BOOLEAN : Processed(name, e)
          BY <2>2, <2>3, <3>2, <4>4, <5>3, <5>4 DEF CreateCondition, UpdateCondition
        <5>6. name \in SomeName
          <6>1. w.applied.conditions[k].name \in SomeName
            BY <4>1, <5>3, CurrentType
          <6>2. QED
            BY <2>2, <2>3, <4>4, <6>1
        <5>7. worker'.done = worker.done \cup ({name} \ {None})
          BY <4>1, <5>5, <5>6, ProcessedFields
        <5>8. name # None
          BY <2>2, <2>3, <4>4, <5>3
        <5>9. QED
          BY <5>7, <5>8
      <4>5. QED
        BY <1>1, <2>6, <4>2, <4>3, <4>4
    <3>3. ~EndConditions
      BY <2>6, AllPast
    <3>4. CASE DeleteCondition /\ worker.pc = "stragglers"
      BY <2>6, <3>4, DeletingStep
    <3>5. QED
      BY <1>5, <2>1, <2>6, <3>1, <3>2, <3>3, <3>4, AdvanceKinds
  <2>7. QED
    BY <2>3, <2>4, <2>5, <2>6
<1>6. Save \/ Release \/ Crash => worker'.pc = "idle"
  BY DEF Save, Release, Crash, Return, Fail, Idle
<1>7. User \/ PolicySync \/ Resync \/ Others \/ ReconcileFails \/ ReconcileNothing
        \/ UNCHANGED vars => worker' = worker
  BY DEF User, UserCreate, UserEdit, UserDelete, UserOp, PolicySync, Resync, Others,
         ConditionSync, ConditionReleased, ReconcileFails, ReconcileNothing, vars
<1>8. QED
  BY <1>3, <1>4, <1>5, <1>6, <1>7 DEF Next, Reconcile

\* A worker records a resource at the index at which the resource does.
LEMMA WorkerSameIndex ==
  ASSUME TypeOK, TypeOK', LeakInv, NEW order, NeverBack(order), CopiesInv(order),
         ConditionsInv(order), [Next]_vars, Settled, worker'.pc # "idle",
         NEW i \in DOMAIN store.applied.conditions,
         NEW j \in DOMAIN worker'.object.applied.conditions,
         worker'.object.applied.conditions[j].name = store.applied.conditions[i].name
  PROVE  j = i
<1>1. CASE worker.pc # "idle" /\ worker'.object.applied = worker.object.applied
  BY <1>1 DEF ConditionsInv, StillKept
<1>2. CASE ReconcileDeletion \/ ReconcileSpec
  <2>1. worker'.object.applied = cache.object.applied
    BY <1>2, BeginFields
  <2>2. QED
    BY <2>1 DEF ConditionsInv, StillKept
<1>3. Call /\ ~Save /\ ~Release =>
        worker.pc # "idle" /\ worker'.object.applied = worker.object.applied
  BY CallAdvances DEF Idle, Advance
<1>4. Save \/ Release \/ Crash => worker'.pc = "idle"
  BY DEF Save, Release, Crash, Return, Fail, Idle
<1>5. User \/ PolicySync \/ Resync \/ Others \/ ReconcileFails \/ ReconcileNothing
        \/ UNCHANGED vars => worker' = worker
  BY DEF User, UserCreate, UserEdit, UserDelete, UserOp, PolicySync, Resync, Others,
         ConditionSync, ConditionReleased, ReconcileFails, ReconcileNothing, vars
<1>6. QED
  BY <1>1, <1>2, <1>3, <1>4, <1>5 DEF Next, Reconcile

LEMMA CacheSteps ==
  ASSUME [Next]_vars
  PROVE  \/ UNCHANGED cache
         \/ UNCHANGED store /\ cache'.object = store
<1>1. PolicySync \/ Crash => UNCHANGED store /\ cache'.object = store
  BY DEF PolicySync, Crash, cluster
<1>2. User \/ Resync \/ Others \/ Reconcile \/ Call \/ UNCHANGED vars => UNCHANGED cache
  BY DEF vars, User, UserCreate, UserEdit, UserDelete, UserOp, Resync, Others,
         ConditionSync, ConditionReleased, Reconcile, ReconcileFails,
         ReconcileNothing, ReconcileDeletion, ReconcileSpec, Begin, Call, Search,
         CreatePolicy, UpdatePolicy, LinkChannels, UnlinkChannel, DeletePolicy,
         CreateCondition, UpdateCondition, EndConditions, DeleteCondition, EndDeletes,
         Save, Release
<1>3. QED
  BY <1>1, <1>2 DEF Next

\* No straggler is the resource of a condition that the spec still has.
LEMMA StragglersStillKeep ==
  ASSUME TypeOK, TypeOK', LeakInv, NEW order, NeverBack(order), CopiesInv(order),
         ConditionsInv(order), [Next]_vars, Settled, worker'.pc = "stragglers",
         NEW i \in DOMAIN store.applied.conditions, Kept(store, i),
         NEW e \in worker'.left
  PROVE  e.name # store.applied.conditions[i].name
<1> DEFINE name == store.applied.conditions[i].name
           w == worker.object
<1>1. CASE worker' = worker
  BY <1>1 DEF ConditionsInv, StillKept
<1>2. CASE Call /\ ~Save /\ ~Release
  <2>1. Advance
    BY <1>2, CallAdvances DEF Idle
  <2>2. ~CreateCondition /\ ~UpdateCondition
    BY ConditionProcessed, ProcessedFields
  <2>3. CASE EndConditions
    <3>1. /\ worker.pc = "conditions"
          /\ \A k \in DOMAIN w.spec.conditions : k < worker.next
      BY <2>3, AllPast
    <3>2. PICK j \in DOMAIN w.applied.conditions :
            e = w.applied.conditions[j] /\ e.name \notin worker.done
      BY <2>3, AllPast
    <3>3. ASSUME e.name = name PROVE FALSE
      <4>1. i \in DOMAIN w.spec.conditions /\ (i < worker.next => name \in worker.done)
        BY <3>1, <3>2, <3>3 DEF ConditionsInv, StillKept
      <4>2. QED
        BY <3>1, <3>2, <3>3, <4>1
    <3>4. QED
      BY <3>3
  <2>4. CASE DeleteCondition /\ worker.pc = "stragglers"
    <3>1. worker'.left \subseteq worker.left
      BY <2>4, DeletingStep
    <3>2. QED
      BY <2>4, <3>1 DEF ConditionsInv, StillKept
  <2>5. QED
    BY <1>2, <2>1, <2>2, <2>3, <2>4, AdvanceKinds
<1>3. Save \/ Release \/ Crash => worker'.pc = "idle"
  BY DEF Save, Release, Crash, Return, Fail, Idle
<1>4. ASSUME ReconcileDeletion \/ ReconcileSpec PROVE FALSE
  <2>1. worker'.pc \in Deletion \/ worker'.pc = "search" \/ worker'.pc = AtUpdate(worker'.object)
    BY <1>4, BeginFields
  <2>2. QED
    BY <2>1, NextStep DEF Deletion
<1>5. User \/ PolicySync \/ Resync \/ Others \/ ReconcileFails \/ ReconcileNothing
        \/ UNCHANGED vars => worker' = worker
  BY DEF User, UserCreate, UserEdit, UserDelete, UserOp, PolicySync, Resync, Others,
         ConditionSync, ConditionReleased, ReconcileFails, ReconcileNothing, vars
<1>6. QED
  BY <1>1, <1>2, <1>3, <1>4, <1>5 DEF Next, Reconcile

LEMMA StepStillKept ==
  ASSUME TypeOK, TypeOK', LeakInv, NEW order, NeverBack(order), CopiesInv(order),
         ConditionsInv(order), [Next]_vars
  PROVE  StillKept'
<1> SUFFICES ASSUME Settled', NEW i \in DOMAIN store'.applied.conditions
             PROVE  LET name == store'.applied.conditions[i].name
                        q    == worker'.object
                        c    == cache'.object
                    IN /\ \A j \in DOMAIN c.applied.conditions :
                            c.applied.conditions[j].name = name =>
                              j = i /\ (Kept(store', i) => Kept(c, i))
                       /\ worker'.pc # "idle" =>
                            \A j \in DOMAIN q.applied.conditions :
                              q.applied.conditions[j].name = name =>
                                /\ j = i
                                /\ Kept(store', i) =>
                                     /\ i \in DOMAIN q.spec.conditions
                                     /\ Untouched(i)' => Kept(q, i)
                                     /\ worker'.pc = "conditions" /\ i < worker'.next =>
                                          name \in worker'.done
                       /\ worker'.pc = "stragglers" /\ Kept(store', i) =>
                            \A e \in worker'.left : e.name # name
  BY DEF StillKept, Kept
<1>1. CASE Save /\ ~Conflict /\ ~UNCHANGED <<store, revision>>
  <2> DEFINE w == worker.object
  <2>1. /\ worker' = Idle /\ cache' = cache /\ worker.pc = "save"
        /\ cache.object = store /\ store'.applied = w.spec
    BY <1>1, SaveFields
  <2>2. worker'.pc = "idle"
    BY <2>1 DEF Idle
  <2>3. w.applied = store.applied
    BY <1>1, <2>1 DEF CopiesInv, WorkerKnows, Deletion
  <2>4. Done(order, w, i)
    BY <1>1, <2>1 DEF ConditionsInv, WorkerDone, OnCourse, Past
  <2>5. QED
    BY <2>1, <2>2, <2>3, <2>4 DEF Done
<1>2. CASE ~(Save /\ ~Conflict /\ ~UNCHANGED <<store, revision>>)
  <2> DEFINE name == store.applied.conditions[i].name
             w == worker.object
             q == worker'.object
  <2>1. /\ Settled /\ store'.applied = store.applied
        /\ i \in DOMAIN store.applied.conditions
        /\ Kept(store', i) => Kept(store, i)
    BY <1>2, KeptBefore
  <2>2. ASSUME NEW j \in DOMAIN cache'.object.applied.conditions,
               cache'.object.applied.conditions[j].name = name
        PROVE  j = i /\ (Kept(store', i) => Kept(cache'.object, i))
    <3>1. CASE UNCHANGED cache
      BY <2>1, <2>2, <3>1 DEF ConditionsInv, StillKept
    <3>2. CASE UNCHANGED store /\ cache'.object = store
      <4>1. store \in PolicyCopies
        BY <2>1 DEF Settled, PolicyCopies
      <4>2. QED
        BY <2>1, <2>2, <3>2, <4>1 DEF ConditionsInv, NamesGiven
    <3>3. QED
      BY <3>1, <3>2, CacheSteps
  <2>3. ASSUME worker'.pc # "idle", NEW j \in DOMAIN q.applied.conditions,
               q.applied.conditions[j].name = name
        PROVE  /\ j = i
               /\ Kept(store', i) =>
                    /\ i \in DOMAIN q.spec.conditions
                    /\ Untouched(i)' => Kept(q, i)
                    /\ worker'.pc = "conditions" /\ i < worker'.next => name \in worker'.done
    <3>1. j = i
      BY <2>1, <2>3, WorkerSameIndex
    <3>2. QED
      BY <2>1, <2>3, <3>1, WorkerStillKeeps
  <2>4. worker'.pc = "stragglers" /\ Kept(store', i) => \A e \in worker'.left : e.name # name
    BY <2>1, StragglersStillKeep
  <2>5. QED
    BY <2>1, <2>2, <2>3, <2>4
<1>3. QED
  BY <1>1, <1>2

\* An informer's copy that is of some version, or becomes what the resource is, is of
\* a later one's past.
LEMMA CopyHoldsOn ==
  ASSUME TypeOK, NEW order, NeverBack(order), [Next]_vars,
         NEW p \in Versions, NEW q \in Versions, Upto(order, p, q),
         NEW i, NEW n \in Names, Holds(p, i, resources[n]), CopyHolds(order, p, i, n)
  PROVE  CopyHolds(order, q, i, n)'
<1>1. CASE copies'[n] = resources[n]
  BY <1>1 DEF CopyHolds, Holds
<1>2. CASE copies'[n] = copies[n]
  <2>1. ASSUME copies[n].object # None
        PROVE  \E r \in Versions : Upto(order, r, q) /\ Holds(r, i, copies[n])
    <3>1. PICK r \in Versions : Upto(order, r, p) /\ Holds(r, i, copies[n])
      BY <2>1 DEF CopyHolds
    <3>2. Upto(order, r, q)
      BY <3>1, UptoTrans
    <3>3. QED
      BY <3>1, <3>2
  <2>2. QED
    BY <1>2, <2>1 DEF CopyHolds, Holds
<1>3. QED
  BY <1>1, <1>2, CopySteps

\* What the loop is about to update is the resource applied at its index.
LEMMA LoopUpdates ==
  ASSUME TypeOK, NEW order, NeverBack(order), CopiesInv(order), ConditionsInv(order),
         InLoop, NEW n \in Names, n = ResourceOf(Current, worker.object.applied)
  PROVE  LET o == worker.object
             k == worker.next
         IN  /\ o.applied # Nothing /\ Kept(o, k)
             /\ k \in DOMAIN o.applied.conditions
             /\ n = o.applied.conditions[k].name /\ n \in names
<1>1. n # None /\ n # Manual
  BY ConstantsAssumption
<1>2. QED
  BY <1>1, LoopResource DEF Kept

LEMMA StepResourcesKept ==
  ASSUME TypeOK, TypeOK', LeakInv, NEW order, NeverBack(order), CopiesInv(order),
         ConditionsInv(order), [Next]_vars
  PROVE  ResourcesKept(order)'
<1> DEFINE w == worker.object
<1> SUFFICES ASSUME Settled', NEW i \in DOMAIN store'.applied.conditions, Kept(store', i),
                    NEW name, name = store'.applied.conditions[i].name
             PROVE  /\ Live(name)'
                    /\ \E p \in Versions :
                         /\ Upto(order, Recorded(store'), p) /\ Upto(order, p, Seen')
                         /\ Holds(p, i, resources'[name])
                         /\ CopyHolds(order, p, i, name)'
  BY DEF ResourcesKept, Live, CopyHolds
<1>1. CASE Save /\ ~Conflict /\ ~UNCHANGED <<store, revision>>
  <2>1. /\ UNCHANGED <<resources, copies>> /\ worker.pc = "save" /\ w \in Object
        /\ store # None /\ cache.object = store
        /\ w \in PolicyCopies /\ store'.applied = w.spec
        /\ Recorded(store') = Written(w)
    BY <1>1, SaveFields
  <2>2. i \in DOMAIN w.spec.conditions /\ name = w.spec.conditions[i].name
        /\ Done(order, w, i)
    BY <1>1, <2>1 DEF ConditionsInv, WorkerDone, OnCourse, Past
  <2>3. Seen = Written(w) /\ Written(w) \in Versions /\ Upto(order, Written(w), Seen')
    BY <2>1, SeenAdvances DEF Seen
  <2>4. Holds(Written(w), i, resources[name])
    BY <2>1, <2>2, CopyEntries DEF Done, Holds
  <2>5. PICK p \in Versions : p = Written(w)
    BY <2>3
  <2>6. Live(name) /\ CopyHolds(order, p, i, name)
    BY <2>2, <2>5 DEF Done
  <2>7. Live(name)' /\ CopyHolds(order, p, i, name)'
    BY <2>1, <2>6 DEF Live, CopyHolds
  <2>8. Upto(order, Recorded(store'), p)
    BY <2>1, <2>5 DEF Upto
  <2>9. QED
    BY <2>1, <2>3, <2>4, <2>5, <2>7, <2>8
<1>2. CASE ~(Save /\ ~Conflict /\ ~UNCHANGED <<store, revision>>)
  <2>1. /\ Settled /\ store'.applied = store.applied /\ store # None
        /\ i \in DOMAIN store.applied.conditions
        /\ Kept(store, i)
        /\ name = store.applied.conditions[i].name
    BY <1>2, KeptBefore DEF Settled
  <2>2. /\ Recorded(store) \in Versions /\ Upto(order, Recorded(store), Seen)
        /\ cache.object # None /\ worker.pc \notin Deletion /\ store \in PolicyCopies
    BY <2>1, SettledWorker
  <2>3. /\ Seen \in Versions /\ Seen' \in Versions /\ Upto(order, Seen, Seen')
    BY <2>1, <2>2, SeenAdvances
  <2>4. name \in names /\ name \in Names
    BY <2>1, <2>2 DEF ConditionsInv, NamesGiven, TypeOK
  <2>5. /\ Live(name)
        /\ \E p \in Versions :
             /\ Upto(order, Recorded(store), p) /\ Upto(order, p, Seen)
             /\ Holds(p, i, resources[name])
             /\ CopyHolds(order, p, i, name)
    BY <2>1 DEF ConditionsInv, ResourcesKept
  <2>6. PICK p \in Versions :
          /\ Upto(order, Recorded(store), p) /\ Upto(order, p, Seen)
          /\ Holds(p, i, resources[name])
          /\ CopyHolds(order, p, i, name)
    BY <2>5
  <2>7. Recorded(store') = Recorded(store)
    BY <2>1 DEF Recorded
  <2>8. \A j \in DOMAIN w.applied.conditions :
          worker.pc # "idle" /\ w.applied.conditions[j].name = name => j = i
    BY <2>1 DEF ConditionsInv, StillKept
  <2>9. worker.pc = "stragglers" => \A e \in worker.left : e.name # name
    BY <2>1 DEF ConditionsInv, StillKept
  <2>10. CASE resources'[name] = resources[name]
    <3>1. Upto(order, p, Seen') /\ Upto(order, p, p)
      BY <2>3, <2>6, UptoTrans DEF Upto
    <3>2. CopyHolds(order, p, i, name)'
      BY <2>4, <2>6, <3>1, CopyHoldsOn
    <3>3. Live(name)' /\ Holds(p, i, resources'[name])
      BY <2>5, <2>6, <2>10 DEF Live, Holds
    <3>4. QED
      BY <2>6, <2>7, <3>1, <3>2, <3>3
  <2>11. CASE resources'[name] # resources[name]
    <3>1. /\ UpdateCondition /\ name = ResourceOf(Current, w.applied)
          /\ copies[name].rev = resources[name].rev /\ copies[name].object # None
          /\ resources'[name].object # None
          /\ resources'[name].object.deleting = copies[name].object.deleting
          /\ resources'[name].object.spec = Current.spec
      BY <2>2, <2>4, <2>5, <2>9, <2>11, ResourceSteps DEF Live, Deletion
    <3>2. InLoop
      BY <3>1 DEF UpdateCondition
    <3>3. worker.next = i /\ Current = w.spec.conditions[i]
          /\ i \in DOMAIN w.spec.conditions /\ w \in Object
      BY <2>4, <2>8, <3>1, <3>2, LoopUpdates, LoopResource DEF InLoop
    <3>4. copies[name] = resources[name]
      BY <2>4, <3>1 DEF ConditionsInv, NamesGiven
    <3>5. Live(name)'
      BY <2>5, <3>1, <3>4 DEF Live
    <3>6. Seen = Written(w)
      BY <3>2 DEF Seen, InLoop
    <3>7. PICK q \in Versions : q = Seen
      BY <2>3
    <3>8. Holds(q, i, resources'[name])
      BY <3>1, <3>3, <3>6, <3>7, CopyEntries DEF Holds
    <3>9. CopyHolds(order, q, i, name)'
      BY <2>4, <2>6, <3>7, CopyHoldsOn
    <3>10. QED
      BY <2>2, <2>3, <2>7, <3>5, <3>7, <3>8, <3>9
  <2>12. QED
    BY <2>10, <2>11
<1>3. QED
  BY <1>1, <1>2

\* What a worker whose Update would be accepted knows of the resource.
LEMMA WorkerSettled ==
  ASSUME TypeOK, LeakInv, NEW order, CopiesInv(order),
         worker.pc \notin {"idle"} \cup Deletion, ~Conflict
  PROVE  LET o == worker.object IN
         /\ o \in Object /\ o \in PolicyCopies /\ store \in Object /\ store # None
         /\ Written(store) = Written(o) /\ Seen = Written(o) /\ Seen \in Versions
         /\ o.applied = store.applied
         /\ o.applied # Nothing => Settled
         /\ DOMAIN store.spec.conditions = DOMAIN o.spec.conditions
         /\ \A i \in DOMAIN o.spec.conditions :
              Untouched(i) => store.spec.conditions[i] = o.spec.conditions[i]
<1> DEFINE o == worker.object
<1>1. o \in Object /\ o # None /\ o \in PolicyCopies /\ worker.rev \in Nat
  BY WorkerBusy, ObjectFields DEF PolicyCopies
<1>2. /\ store # None /\ Written(store) = Written(o) /\ store.deleting = o.deleting
      /\ ~o.deleting
  BY DEF LeakInv, WorkerCoherent, WorkerPhases, Conflict, Written
<1>3. store \in Object
  BY <1>2 DEF TypeOK
<1>4. Seen = Written(o) /\ Written(o) \in Versions
  BY <1>1, CopyVersion DEF Seen
<1>5. /\ o.applied = store.applied
      /\ \A i \in DOMAIN o.spec.conditions :
           Untouched(i) => store.spec.conditions[i] = o.spec.conditions[i]
  BY DEF CopiesInv, WorkerKnows
<1>6. DOMAIN store.spec.conditions = DOMAIN o.spec.conditions
  BY <1>1, <1>2, <1>3, SameEntries
<1>7. QED
  BY <1>1, <1>2, <1>3, <1>4, <1>5, <1>6 DEF Settled

\* A condition that is processed stays so.
LEMMA DoneStays ==
  ASSUME TypeOK, NEW order, NeverBack(order), CopiesInv(order), ConditionsInv(order),
         [Next]_vars, OnCourse, worker.object \in Object,
         NEW p \in Versions, p = Written(worker.object),
         NEW i \in DOMAIN worker.object.spec.conditions, Past(i),
         NEW name, name = worker.object.spec.conditions[i].name
  PROVE  /\ name \in names' /\ Live(name)'
         /\ resources'[name].object.spec = worker.object.spec.conditions[i].spec
         /\ CopyHolds(order, p, i, name)'
<1> DEFINE w == worker.object
<1>1. /\ name \in names /\ Live(name)
      /\ resources[name].object.spec = w.spec.conditions[i].spec
      /\ CopyHolds(order, p, i, name)
      /\ \A j \in DOMAIN w.applied.conditions : w.applied.conditions[j].name = name => j = i
      /\ worker.pc = "stragglers" => \A e \in worker.left : e.name # name
  BY DEF ConditionsInv, WorkerDone, Done
<1>2. name \in Names /\ name \in names'
  BY <1>1, CopySteps DEF TypeOK
<1>3. Holds(p, i, resources[name]) /\ Upto(order, p, p)
  BY <1>1, CopyEntries DEF Holds, Upto
<1>4. CopyHolds(order, p, i, name)'
  BY <1>1, <1>2, <1>3, CopyHoldsOn
<1>5. resources'[name] = resources[name]
  <2>1. ASSUME resources'[name] # resources[name] PROVE FALSE
    <3>1. UpdateCondition /\ name = ResourceOf(Current, w.applied)
      BY <1>1, <1>2, <2>1, ResourceSteps DEF Live, OnCourse
    <3>2. InLoop
      BY <3>1 DEF UpdateCondition
    <3>3. worker.next = i
      BY <1>1, <1>2, <3>1, <3>2, LoopUpdates
    <3>4. worker.pc = "conditions" /\ i \in Nat
      BY <3>2, CopyEntries DEF InLoop
    <3>5. QED
      BY <3>3, <3>4 DEF Past
  <2>2. QED
    BY <2>1
<1>6. QED
  BY <1>1, <1>2, <1>4, <1>5 DEF Live

\* Where the conditions are those that were applied, they have their resources.
LEMMA DoneBefore ==
  ASSUME TypeOK, LeakInv, NEW order, NeverBack(order), CopiesInv(order),
         ConditionsInv(order), Settled,
         NEW o \in Object, o.applied = store.applied,
         o.spec.conditions = o.applied.conditions,
         Written(o) = Seen, Seen \in Versions,
         NEW i \in DOMAIN o.spec.conditions, i \in DOMAIN store.spec.conditions,
         store.spec.conditions[i] = o.spec.conditions[i]
  PROVE  /\ Done(order, o, i)
         /\ \A j \in DOMAIN o.spec.conditions :
              o.spec.conditions[i].name = o.spec.conditions[j].name => i = j
<1> DEFINE name == store.applied.conditions[i].name
<1>1. /\ store \in PolicyCopies /\ Recorded(store) \in Versions /\ store \in Object
  BY SettledWorker
<1>2. /\ i \in DOMAIN store.applied.conditions /\ name \in names /\ name # None
      /\ \A j \in DOMAIN store.applied.conditions :
           name = store.applied.conditions[j].name => i = j
      /\ o.spec.conditions[i].name = name
  BY <1>1, ConstantsAssumption DEF ConditionsInv, NamesGiven, TypeOK
<1>3. Kept(store, i)
  BY <1>2 DEF Kept
<1>4. Live(name)
  BY <1>2, <1>3 DEF ConditionsInv, ResourcesKept
<1>5. PICK p \in Versions :
        /\ Upto(order, Recorded(store), p) /\ Upto(order, p, Seen)
        /\ Holds(p, i, resources[name])
        /\ CopyHolds(order, p, i, name)
  BY <1>2, <1>3 DEF ConditionsInv, ResourcesKept
<1>6. /\ i \in DOMAIN Recorded(store).conditions /\ i \in DOMAIN Seen.conditions
      /\ Recorded(store).conditions[i] = store.applied.conditions[i].spec
      /\ Seen.conditions[i] = o.spec.conditions[i].spec
      /\ o.spec.conditions[i].spec = store.applied.conditions[i].spec
  BY <1>1, <1>2, CopyEntries
<1>7. p.conditions[i] = o.spec.conditions[i].spec
  BY <1>1, <1>5, <1>6, Between
<1>8. resources[name].object.spec = o.spec.conditions[i].spec
  BY <1>5, <1>7 DEF Holds
<1>9. CopyHolds(order, Seen, i, name)
  <2>1. ASSUME copies[name].object # None
        PROVE  \E q \in Versions : Upto(order, q, Seen) /\ Holds(q, i, copies[name])
    <3>1. PICK q \in Versions : Upto(order, q, p) /\ Holds(q, i, copies[name])
      BY <1>5, <2>1 DEF CopyHolds
    <3>2. Upto(order, q, Seen)
      BY <1>5, <3>1, UptoTrans
    <3>3. QED
      BY <3>1, <3>2
  <2>2. QED
    BY <2>1 DEF CopyHolds
<1> HIDE DEF name
<1>10. QED
  BY <1>2, <1>3, <1>4, <1>8, <1>9 DEF Done, name

\* The condition that a step of the loop processes without an error.
LEMMA DoneNow ==
  ASSUME TypeOK, TypeOK', LeakInv, NEW order, NeverBack(order), CopiesInv(order),
         ConditionsInv(order), [Next]_vars, CreateCondition \/ UpdateCondition, ~Conflict,
         ~worker'.failed, NEW k, k = worker.next,
         NEW q \in Versions, q = Written(worker.object),
         NEW n, n = worker'.object.spec.conditions[k].name
  PROVE  LET w == worker.object IN
         /\ n \in names' /\ n \in SomeName /\ n # None /\ Processed(n, FALSE)
         /\ resources'[n].object # None /\ ~resources'[n].object.deleting
         /\ resources'[n].object.spec = Current.spec
         /\ CopyHolds(order, q, k, n)'
         /\ \A j \in DOMAIN w.applied.conditions :
              w.applied.conditions[j].name = n => j = k /\ Kept(store, k)
         /\ \A i \in DOMAIN w.spec.conditions : i < k => w.spec.conditions[i].name # n
<1> DEFINE w == worker.object
<1>1. /\ InLoop /\ UNCHANGED copies
  BY ConditionProcessed
<1>2. /\ w \in Object /\ w \in PolicyCopies /\ k \in Nat /\ Untouched(k)
      /\ k \in DOMAIN w.spec.conditions /\ Current = w.spec.conditions[k]
      /\ worker.pc = "conditions" /\ Current.name \in SomeName
  BY <1>1, LoopResource, CurrentType DEF InLoop
<1>3. ASSUME NEW m \in SomeName, Processed(m, TRUE) PROVE FALSE
  <2>1. worker'.failed = (worker.failed \/ TRUE)
    BY <1>1, <1>3, ProcessedFields
  <2>2. QED
    BY <2>1
<1>4. ASSUME NEW m \in SomeName, Processed(m, FALSE) PROVE ~worker.failed /\ m = n
  <2>1. worker'.failed = (worker.failed \/ FALSE)
    BY <1>1, <1>4, ProcessedFields
  <2>2. worker.failed \in BOOLEAN
    BY <1>2, WorkerBusy DEF Busy
  <2>3. worker'.object.spec.conditions[worker.next].name = m
    BY <1>1, <1>4, ProcessedFields
  <2>4. QED
    BY <2>1, <2>2, <2>3
<1>5. ASSUME ~worker.failed, NEW i \in DOMAIN w.spec.conditions, i < k
      PROVE  /\ w.spec.conditions[i].name \in names
             /\ \A j \in DOMAIN w.applied.conditions :
                  w.applied.conditions[j].name = w.spec.conditions[i].name => j = i
  BY <1>2, <1>5 DEF ConditionsInv, WorkerDone, OnCourse, Past, Done
<1>6. Names \subseteq SomeName /\ None \notin Names /\ Manual \notin Names
  BY ConstantsAssumption DEF SomeName
<1>7. CASE CreateCondition
  <2>1. NewResource(Current) /\ Processed(FreshName, FALSE)
    BY <1>2, <1>3, <1>7 DEF CreateCondition
  <2>3. n \in Names \ names /\ n \in names' /\ Processed(n, FALSE) /\ n = FreshName
    <3>1. Names \ names # {} /\ names' = names \cup {FreshName}
      BY <2>1 DEF NewResource
    <3>2. FreshName \in Names \ names
      BY <3>1 DEF FreshName
    <3>3. n = FreshName
      BY <1>4, <1>6, <2>1, <3>2
    <3>4. QED
      BY <2>1, <3>1, <3>2, <3>3
  <2> DEFINE r == [spec |-> Current.spec, key |-> w.spec.key,
                   account |-> w.spec.account, deleting |-> FALSE]
  <2>4. PutResource(n, r)
    BY <2>1, <2>3 DEF NewResource
  <2>5. resources'[n].object = r
    BY <2>3, <2>4, PutsResource
  <2>6. r \in Resource
    BY <1>1, CurrentType DEF Resource
  <2>7. r.spec = Current.spec /\ ~r.deleting /\ r # None
    BY <2>6, ConstantsAssumption
  <2> HIDE DEF r
  <2>8. CopyHolds(order, q, k, n)'
    BY <1>1, <2>3 DEF CopyHolds, ConditionsInv, NamesGiven
  <2>9. \A j \in DOMAIN w.applied.conditions : w.applied.conditions[j].name # n
    BY <1>2, <2>3 DEF ConditionsInv, NamesGiven
  <2>10. \A i \in DOMAIN w.spec.conditions : i < k => w.spec.conditions[i].name # n
    BY <1>4, <1>5, <1>6, <2>3
  <2>11. QED
    BY <1>6, <2>3, <2>5, <2>7, <2>8, <2>9, <2>10
<1>8. CASE UpdateCondition
  <2> DEFINE m    == ResourceOf(Current, w.applied)
             copy == Retrieved(m, Current.spec)
  <2>1. /\ copy # Absent /\ Processed(m, FALSE)
        /\ \/ copy.object.spec = Current.spec /\ UNCHANGED resources
           \/ \E r : PutResource(m, r)
    <3> DEFINE new == [copy.object EXCEPT !.spec = Current.spec, !.key = w.spec.key,
                                          !.account = w.spec.account]
    <3>1. m \in SomeName
      BY <1>1, CurrentType
    <3>2. /\ copy # Absent /\ Processed(m, FALSE)
          /\ \/ SameHash(copy.object, Current) /\ UNCHANGED resources
             \/ new = copy.object /\ UNCHANGED resources
             \/ PutResource(m, new)
      BY <1>3, <1>8, <3>1 DEF UpdateCondition
    <3>3. copy # Absent => new.spec = Current.spec
      BY RetrievedType DEF Resource
    <3> HIDE DEF new
    <3>4. QED
      BY <3>2, <3>3 DEF SameHash
  <2>2. m \in Names /\ copies[m] = copy /\ copies[m].object # None
    BY <2>1 DEF Retrieved
  <2>3. PICK name : name = m
    OBVIOUS
  <2>4. /\ w.applied # Nothing /\ Kept(w, k) /\ k \in DOMAIN w.applied.conditions
        /\ name = w.applied.conditions[k].name /\ name \in names /\ name \in Names
    BY <1>1, <2>2, <2>3, LoopUpdates
  <2>5. /\ Settled /\ store.applied = w.applied /\ Seen = Written(w) /\ Seen \in Versions
        /\ k \in DOMAIN store.spec.conditions
        /\ store.spec.conditions[k] = w.spec.conditions[k]
    BY <1>2, <2>4, WorkerSettled DEF Deletion
  <2>6. Kept(store, k)
    BY <2>4, <2>5 DEF Kept
  <2>7. /\ Live(name)
        /\ \E p \in Versions :
             /\ Upto(order, Recorded(store), p) /\ Upto(order, p, Seen)
             /\ Holds(p, k, resources[name])
             /\ CopyHolds(order, p, k, name)
    BY <2>4, <2>5, <2>6 DEF ConditionsInv, ResourcesKept
  <2>8. PICK p \in Versions :
          /\ Upto(order, Recorded(store), p) /\ Upto(order, p, Seen)
          /\ Holds(p, k, resources[name])
          /\ CopyHolds(order, p, k, name)
    BY <2>7
  <2>9. CopyHolds(order, q, k, name)'
    BY <2>4, <2>5, <2>8, CopyHoldsOn
  <2>10. \A j \in DOMAIN w.applied.conditions :
           w.applied.conditions[j].name = name => j = k /\ Kept(store, k)
    BY <1>2, <2>4, <2>6 DEF ConditionsInv, NamesGiven
  <2>11. \A i \in DOMAIN w.spec.conditions : i < k => w.spec.conditions[i].name # name
    <3>1. ~worker.failed
      BY <1>4, <1>6, <2>1, <2>2
    <3>2. ASSUME NEW i \in DOMAIN w.spec.conditions, i < k, w.spec.conditions[i].name = name
          PROVE  FALSE
      <4>1. k = i
        BY <1>5, <2>4, <3>1, <3>2
      <4>2. QED
        BY <1>2, <3>2, <4>1
    <3>3. QED
      BY <3>2
  <2>12. /\ resources'[name].object # None /\ ~resources'[name].object.deleting
         /\ resources'[name].object.spec = Current.spec
    <3>1. CASE resources'[name] # resources[name]
      <4>1. /\ copies[name].rev = resources[name].rev
            /\ resources'[name].object # None
            /\ resources'[name].object.deleting = copies[name].object.deleting
            /\ resources'[name].object.spec = Current.spec
        BY <1>2, <2>4, <2>7, <3>1, ResourceSteps DEF Live
      <4>2. copies[name] = resources[name]
        BY <2>4, <4>1 DEF ConditionsInv, NamesGiven
      <4>3. QED
        BY <2>7, <4>1, <4>2 DEF Live
    <3>2. CASE resources'[name] = resources[name]
      <4>1. copies[name].object.spec = Current.spec /\ copies[name].object # None
        <5>1. ASSUME NEW r, PutResource(name, r) PROVE FALSE
          <6>1. resources'[name].rev = resources[name].rev + 1
            <7>1. name \in Names /\ name = name
              BY <2>4
            <7>2. QED
              BY <5>1, <7>1, PutsResource
          <6>2. resources[name].rev \in Nat
            BY <2>4 DEF TypeOK, Versioned
          <6>3. QED
            BY <3>2, <6>1, <6>2
        <5>2. QED
          BY <2>1, <2>2, <2>3, <5>1
      <4>2. PICK v \in Versions : Upto(order, v, p) /\ Holds(v, k, copies[name])
        BY <2>8, <4>1 DEF CopyHolds
      <4>3. k \in DOMAIN Seen.conditions /\ Seen.conditions[k] = Current.spec
        BY <1>2, <2>5, CopyEntries
      <4>4. k \in DOMAIN v.conditions /\ v.conditions[k] = Current.spec
        BY <4>1, <4>2 DEF Holds
      <4>5. p.conditions[k] = Current.spec
        BY <2>5, <2>8, <4>2, <4>3, <4>4, Between
      <4>6. QED
        BY <2>7, <2>8, <3>2, <4>5 DEF Holds, Live
    <3>3. QED
      BY <3>1, <3>2
  <2>13. name \in names' /\ Processed(name, FALSE)
    BY <2>1, <2>3, <2>4, CopySteps
  <2>14. name = n
    BY <1>4, <1>6, <2>4, <2>13
  <2>15. QED
    BY <1>6, <2>4, <2>9, <2>10, <2>11, <2>12, <2>13, <2>14
<1>9. QED
  BY <1>7, <1>8

\* Where the worker gets to after the conditions.
LEMMA EndKinds ==
  ASSUME TypeOK, LeakInv, NEW order, NeverBack(order), CopiesInv(order), Call, ~Save,
         ~Release, Advance, worker'.pc \in {"link", "save"}
  PROVE  LET w == worker.object IN
         /\ worker'.object = w /\ UNCHANGED <<resources, names, copies>>
         /\ \/ worker.pc = "link"
            \/ worker.pc = "stragglers" /\ ~worker.failed
            \/ worker.pc = "update" /\ w.spec.conditions = w.applied.conditions
<1> DEFINE w == worker.object
<1>1. worker' # Idle
  BY DEF Idle
<1>2. ASSUME NEW step, NEW mode, NEW o, Go(step, mode, o)
      PROVE  worker'.pc = step /\ worker'.object = o
  BY <1>2 DEF Go, At
<1>3. ASSUME Search PROVE FALSE
  <2>1. w.applied = Nothing /\ worker.pc = "search"
    BY <1>3 DEF CopiesInv, RecordedTogether, Search
  <2>2. w \in Object /\ w.spec.title # None
    <3>1. w \in Object /\ w.spec \in Policy
      BY <2>1, WorkerBusy, ObjectFields
    <3>2. w.spec.title \in Titles
      BY <3>1, PolicyFields
    <3>3. QED
      BY <3>1, <3>2, ConstantsAssumption
  <2>3. ASSUME NEW o, o.spec = w.spec, o.applied = w.applied PROVE AtUpdate(o) = "update"
    <3>1. Nothing.title = None
      BY DEF Nothing
    <3>2. QED
      BY <2>1, <2>2, <2>3, <3>1 DEF AtUpdate
  <2>4. ASSUME NEW i PROVE AtUpdate(Adopt(w, i)) = "update"
    <3>1. Adopt(w, i).spec = w.spec /\ Adopt(w, i).applied = w.applied
      BY <2>2 DEF Adopt, Object
    <3>2. QED
      BY <2>3, <3>1
  <2>5. \E o : Go("create", "create", o) \/ Go("update", "update", o)
    BY <1>3, <2>3, <2>4 DEF Search
  <2>6. QED
    BY <1>2, <2>5
<1>4. ASSUME CreatePolicy PROVE FALSE
  BY <1>1, <1>2, <1>4 DEF CreatePolicy, Fail
<1>5. CASE UpdatePolicy
  <2>1. Go(AtConditions(w), "update", w) /\ worker.pc = "update"
        /\ UNCHANGED <<resources, names, copies>>
    BY <1>1, <1>5 DEF UpdatePolicy, Fail, conditions
  <2>2. AtConditions(w) \in {"link", "save"} /\ worker'.object = w
    BY <1>2, <2>1
  <2>3. w.spec.conditions = w.applied.conditions
    BY <2>2 DEF AtConditions
  <2>4. QED
    BY <2>1, <2>2, <2>3
<1>6. ASSUME CreateCondition \/ UpdateCondition PROVE FALSE
  BY <1>6, ConditionProcessed, ProcessedFields
<1>7. ASSUME EndConditions PROVE FALSE
  BY <1>7, AllPast
<1>8. ASSUME DeleteCondition PROVE FALSE
  BY <1>8, DeletingStep DEF DeleteCondition
<1>9. CASE EndDeletes
  <2>1. ~worker.failed /\ worker.pc \in {"stragglers", "deleteConditions"}
        /\ UNCHANGED <<resources, names, copies>>
    BY <1>1, <1>9 DEF EndDeletes, Fail, conditions
  <2>2. CASE worker.pc = "stragglers"
    <3>1. Go(AtChannels(w), worker.mode, w)
      BY <1>9, <2>1, <2>2 DEF EndDeletes
    <3>2. QED
      BY <1>2, <2>1, <2>2, <3>1
  <2>3. CASE worker.pc = "deleteConditions"
    <3>1. worker'.pc \in Deletion
      BY <2>3 DEF Advance, Deletion
    <3>2. QED
      BY <3>1 DEF Deletion
  <2>4. QED
    BY <2>1, <2>2, <2>3
<1>10. CASE LinkChannels
  <2>1. Go("save", worker.mode, w) /\ worker.pc = "link"
        /\ UNCHANGED <<resources, names, copies>>
    BY <1>1, <1>10 DEF LinkChannels, Relink, Fail, conditions
  <2>2. QED
    BY <1>2, <2>1
<1>11. ASSUME DeletePolicy PROVE FALSE
  BY <1>1, <1>2, <1>11 DEF DeletePolicy, Fail
<1>12. ~UnlinkChannel
  BY DEF UnlinkChannel, CopiesInv, WorkerKnows
<1>13. QED
  BY <1>3, <1>4, <1>5, <1>6, <1>7, <1>8, <1>9, <1>10, <1>11, <1>12 DEF Call

\* A reconcile that leaves the conditions alone.
LEMMA NoneToDo ==
  ASSUME TypeOK, LeakInv, NEW order, NeverBack(order), CopiesInv(order),
         ConditionsInv(order), UNCHANGED <<store, resources, names, copies>>,
         NEW o \in Object, o.spec.conditions = o.applied.conditions,
         o.applied = store.applied, o.applied # Nothing => Settled,
         Written(o) = Seen, Seen \in Versions,
         DOMAIN store.spec.conditions = DOMAIN o.spec.conditions,
         \A j \in DOMAIN o.spec.conditions :
           store.spec.conditions[j] = o.spec.conditions[j],
         NEW i \in DOMAIN o.spec.conditions,
         NEW p \in Versions, p = Written(o),
         NEW name, name = o.spec.conditions[i].name
  PROVE  /\ name \in names' /\ Live(name)'
         /\ resources'[name].object.spec = o.spec.conditions[i].spec
         /\ CopyHolds(order, p, i, name)'
         /\ \A j \in DOMAIN o.applied.conditions :
              o.applied.conditions[j].name = name => j = i /\ Kept(store', i)
         /\ \A j \in DOMAIN o.spec.conditions : name = o.spec.conditions[j].name => i = j
<1>1. o.applied # Nothing
  <2>1. Nothing.conditions = <<>>
    BY DEF Nothing
  <2>2. QED
    BY <2>1
<1>2. /\ Done(order, o, i)
      /\ \A j \in DOMAIN o.spec.conditions :
           o.spec.conditions[i].name = o.spec.conditions[j].name => i = j
  BY <1>1, DoneBefore
<1>3. /\ name \in names /\ Live(name)
      /\ resources[name].object.spec = o.spec.conditions[i].spec
      /\ CopyHolds(order, p, i, name)
      /\ \A j \in DOMAIN o.applied.conditions :
           o.applied.conditions[j].name = name => j = i /\ Kept(store, i)
  BY <1>2 DEF Done
<1>4. QED
  BY <1>2, <1>3 DEF Live, CopyHolds

\* What the worker has done stays done, and what it does now is done.
LEMMA StepWorkerDone ==
  ASSUME TypeOK, TypeOK', LeakInv, NEW order, NeverBack(order), CopiesInv(order),
         ConditionsInv(order), [Next]_vars
  PROVE  WorkerDone(order)'
<1> DEFINE w == worker.object
<1> SUFFICES ASSUME OnCourse', NEW q, q = worker'.object,
                    NEW i \in DOMAIN q.spec.conditions, Past(i)',
                    NEW name, name = q.spec.conditions[i].name,
                    NEW p, p = Written(q)
             PROVE  /\ name \in names' /\ Live(name)'
                    /\ resources'[name].object.spec = q.spec.conditions[i].spec
                    /\ CopyHolds(order, p, i, name)'
                    /\ \A j \in DOMAIN q.applied.conditions :
                         q.applied.conditions[j].name = name => j = i /\ Kept(store', i)
                    /\ \A j \in DOMAIN q.spec.conditions :
                         Past(j)' /\ name = q.spec.conditions[j].name => i = j
                    /\ worker'.pc = "conditions" => name \in worker'.done
                    /\ worker'.pc = "stragglers" => \A e \in worker'.left : e.name # name
  BY DEF WorkerDone, Done, Live, CopyHolds
<1>1. /\ worker'.pc \in {"conditions", "stragglers", "link", "save"}
      /\ worker'.pc \in {"conditions", "stragglers"} => ~worker'.failed
      /\ worker'.pc # "idle" /\ worker' # Idle /\ worker'.pc \notin {"search", "create"}
      /\ revision' = worker'.rev
  BY DEF OnCourse, Conflict, Idle
<1>2. ASSUME UNCHANGED <<store, revision>>, worker.pc # "idle", worker'.rev = worker.rev,
             worker'.pc \in Deletion <=> worker.pc \in Deletion
      PROVE  ~Conflict /\ worker.pc \notin {"idle"} \cup Deletion
  BY <1>1, <1>2 DEF Conflict, Deletion
<1>3. ASSUME UNCHANGED store, OnCourse, q = w, Past(i), p \in Versions, w \in Object
      PROVE  /\ name \in names' /\ Live(name)'
             /\ resources'[name].object.spec = q.spec.conditions[i].spec
             /\ CopyHolds(order, p, i, name)'
             /\ \A j \in DOMAIN q.applied.conditions :
                  q.applied.conditions[j].name = name => j = i /\ Kept(store', i)
             /\ \A j \in DOMAIN q.spec.conditions :
                  Past(j) /\ name = q.spec.conditions[j].name => i = j
             /\ worker.pc = "conditions" => name \in worker.done
             /\ worker.pc = "stragglers" => \A e \in worker.left : e.name # name
  <2>1. /\ \A j \in DOMAIN w.applied.conditions :
             w.applied.conditions[j].name = name => j = i /\ Kept(store, i)
        /\ \A j \in DOMAIN w.spec.conditions :
             Past(j) /\ name = w.spec.conditions[j].name => i = j
        /\ worker.pc = "conditions" => name \in worker.done
        /\ worker.pc = "stragglers" => \A e \in worker.left : e.name # name
    BY <1>3 DEF ConditionsInv, WorkerDone, Done
  <2>2. /\ name \in names' /\ Live(name)'
        /\ resources'[name].object.spec = w.spec.conditions[i].spec
        /\ CopyHolds(order, p, i, name)'
    BY <1>3, DoneStays
  <2>3. QED
    BY <1>3, <2>1, <2>2
<1>4. CASE UNCHANGED <<store, revision, worker>>
  <2>1. ~Conflict /\ OnCourse /\ Past(i) /\ q = w
        /\ \A j \in DOMAIN q.spec.conditions : Past(j)' => Past(j)
    BY <1>4 DEF OnCourse, Conflict, Past
  <2>2. w \in Object /\ w \in PolicyCopies
    BY <1>1, <1>4, WorkerBusy, ObjectFields DEF PolicyCopies
  <2>3. p \in Versions
    BY <2>1, <2>2, CopyVersion
  <2>4. QED
    BY <1>3, <1>4, <2>1, <2>2, <2>3
<1>5. ASSUME User PROVE FALSE
  <2>1. revision' = revision + 1 /\ worker' = worker /\ revision \in Nat
    BY <1>5 DEF User, UserCreate, UserEdit, UserDelete, UserOp, Put, TypeOK
  <2>2. worker.rev <= revision /\ worker.rev \in Nat
    BY <1>1, <2>1, WorkerBusy DEF LeakInv, WorkerCoherent
  <2>3. revision' = worker.rev
    BY <1>1, <2>1
  <2>4. QED
    BY <2>1, <2>2, <2>3
<1>6. CASE ReconcileDeletion \/ ReconcileSpec
  <2> DEFINE c == cache.object
  <2>1. /\ UNCHANGED <<store, revision, cache, resources, copies, names>>
        /\ worker.pc = "idle" /\ c \in PolicyCopies /\ c # None /\ q \in Object
        /\ q.spec = c.spec /\ q.applied = c.applied /\ q.deleting = c.deleting
        /\ worker'.rev = cache.rev /\ ~c.deleting /\ worker'.pc = AtUpdate(q)
        /\ \E step, mode : worker' = At(step, mode, q, cache.rev)
    BY <1>1, <1>6, BeginFields DEF Deletion
  <2>2. /\ c = store /\ store # None /\ Seen = Written(q) /\ p \in Versions
        /\ Seen = p /\ store.spec = q.spec
    <3>1. c = store
      BY <1>1, <2>1 DEF LeakInv, CacheCoherent
    <3>2. Seen = Written(c) /\ Written(c) = Written(q)
      BY <2>1 DEF Seen, Written
    <3>3. Written(c) \in Versions
      BY <2>1, CopyVersion
    <3>4. QED
      BY <2>1, <3>1, <3>2, <3>3
  <2>3. worker'.pc = "conditions" => worker'.next = 1
    BY <2>1 DEF At
  <2>4. CASE worker'.pc = "conditions"
    <3>1. i >= 1 /\ i \in Nat
      BY <2>1, CopyEntries
    <3>2. i < 1
      BY <2>3, <2>4 DEF Past
    <3>3. QED
      BY <3>1, <3>2
  <2>5. CASE worker'.pc \in {"link", "save"}
    <3>1. q.spec.conditions = q.applied.conditions
      BY <2>1, <2>5 DEF AtUpdate, AtConditions
    <3>2. q.applied # Nothing => Settled
      BY <2>1, <2>2 DEF Settled
    <3>3. /\ name \in names' /\ Live(name)'
          /\ resources'[name].object.spec = q.spec.conditions[i].spec
          /\ CopyHolds(order, p, i, name)'
          /\ \A j \in DOMAIN q.applied.conditions :
               q.applied.conditions[j].name = name => j = i /\ Kept(store', i)
          /\ \A j \in DOMAIN q.spec.conditions : name = q.spec.conditions[j].name => i = j
      <4>1. PICK o : o = q
        OBVIOUS
      <4>2. /\ UNCHANGED <<store, resources, names, copies>> /\ o \in Object
            /\ o.spec.conditions = o.applied.conditions
            /\ o.applied = store.applied /\ (o.applied # Nothing => Settled)
            /\ Written(o) = Seen /\ Seen \in Versions
            /\ i \in DOMAIN o.spec.conditions /\ name = o.spec.conditions[i].name
            /\ p \in Versions /\ p = Written(o)
        BY <2>1, <2>2, <3>1, <3>2, <4>1
      <4>3. /\ DOMAIN store.spec.conditions = DOMAIN o.spec.conditions
            /\ \A j \in DOMAIN o.spec.conditions :
                 store.spec.conditions[j] = o.spec.conditions[j]
        BY <2>2, <4>1
      <4>4. /\ name \in names' /\ Live(name)'
            /\ resources'[name].object.spec = o.spec.conditions[i].spec
            /\ CopyHolds(order, p, i, name)'
            /\ \A j \in DOMAIN o.applied.conditions :
                 o.applied.conditions[j].name = name => j = i /\ Kept(store', i)
            /\ \A j \in DOMAIN o.spec.conditions : name = o.spec.conditions[j].name => i = j
        BY <4>2, <4>3, NoneToDo
      <4>5. QED
        BY <4>1, <4>4
    <3>4. QED
      BY <2>5, <3>3
  <2>6. worker'.pc # "stragglers"
    BY <2>1, NextStep
  <2>7. QED
    BY <1>1, <2>4, <2>5, <2>6
<1>7. CASE Call /\ ~Save /\ ~Release
  <2>1. Advance
    BY <1>1, <1>7, CallAdvances
  <2>2. /\ UNCHANGED <<store, revision, cache>> /\ worker.pc # "idle" /\ q \in Object
        /\ q.applied = w.applied /\ Written(q) = Written(w) /\ ~Conflict
        /\ worker.pc \notin {"idle"} \cup Deletion
    BY <1>2, <2>1 DEF Advance
  <2>3. /\ w \in Object /\ w \in PolicyCopies /\ Seen = Written(w) /\ Seen \in Versions
        /\ p = Written(w) /\ p \in Versions
        /\ w.applied = store.applied /\ (w.applied # Nothing => Settled)
        /\ DOMAIN store.spec.conditions = DOMAIN w.spec.conditions
        /\ DOMAIN q.spec.conditions = DOMAIN w.spec.conditions
        /\ \A j \in DOMAIN w.spec.conditions :
             Untouched(j) => store.spec.conditions[j] = w.spec.conditions[j]
    BY <2>2, WorkerSettled, SameEntries
  <2>4. CASE worker'.pc \in {"link", "save"}
    <3>1. /\ q = w /\ UNCHANGED <<resources, names, copies>>
          /\ \/ worker.pc = "link"
             \/ worker.pc = "stragglers" /\ ~worker.failed
             \/ worker.pc = "update" /\ w.spec.conditions = w.applied.conditions
      BY <1>7, <2>1, <2>4, EndKinds
    <3>2. CASE worker.pc = "link" \/ (worker.pc = "stragglers" /\ ~worker.failed)
      <4>1. OnCourse /\ \A j : Past(j)
        BY <2>2, <3>2 DEF OnCourse, Past
      <4>2. QED
        BY <1>3, <2>2, <2>3, <2>4, <3>1, <4>1
    <3>3. CASE worker.pc = "update" /\ w.spec.conditions = w.applied.conditions
      <4>1. \A j \in DOMAIN w.spec.conditions :
              store.spec.conditions[j] = w.spec.conditions[j]
        BY <2>3, <3>3 DEF Untouched
      <4>2. i \in DOMAIN w.spec.conditions /\ name = w.spec.conditions[i].name
        BY <3>1
      <4>3. /\ name \in names' /\ Live(name)'
            /\ resources'[name].object.spec = w.spec.conditions[i].spec
            /\ CopyHolds(order, p, i, name)'
            /\ \A j \in DOMAIN w.applied.conditions :
                 w.applied.conditions[j].name = name => j = i /\ Kept(store', i)
            /\ \A j \in DOMAIN w.spec.conditions : name = w.spec.conditions[j].name => i = j
        <5>1. PICK o : o = w
          OBVIOUS
        <5>2. /\ UNCHANGED <<store, resources, names, copies>> /\ o \in Object
              /\ o.spec.conditions = o.applied.conditions
              /\ o.applied = store.applied /\ (o.applied # Nothing => Settled)
              /\ Written(o) = Seen /\ Seen \in Versions
              /\ i \in DOMAIN o.spec.conditions /\ name = o.spec.conditions[i].name
              /\ p \in Versions /\ p = Written(o)
          BY <2>2, <2>3, <3>1, <3>3, <4>2, <5>1
        <5>3. /\ DOMAIN store.spec.conditions = DOMAIN o.spec.conditions
              /\ \A j \in DOMAIN o.spec.conditions :
                   store.spec.conditions[j] = o.spec.conditions[j]
          BY <2>3, <4>1, <5>1
        <5>4. /\ name \in names' /\ Live(name)'
              /\ resources'[name].object.spec = o.spec.conditions[i].spec
              /\ CopyHolds(order, p, i, name)'
              /\ \A j \in DOMAIN o.applied.conditions :
                   o.applied.conditions[j].name = name => j = i /\ Kept(store', i)
              /\ \A j \in DOMAIN o.spec.conditions : name = o.spec.conditions[j].name => i = j
          BY <5>2, <5>3, NoneToDo
        <5>5. QED
          BY <5>1, <5>4
      <4>4. QED
        BY <2>4, <3>1, <4>3
    <3>4. QED
      BY <3>1, <3>2, <3>3
  <2>5. CASE worker'.pc = "conditions" /\ worker'.next = 1
    <3>1. i >= 1 /\ i \in Nat
      BY <2>2, CopyEntries
    <3>2. i < 1
      BY <2>5 DEF Past
    <3>3. QED
      BY <3>1, <3>2
  <2>6. CASE EndConditions
    <3>1. /\ worker.pc = "conditions" /\ q = w /\ worker'.failed = worker.failed
          /\ \A j \in DOMAIN w.spec.conditions : j < worker.next
          /\ worker'.pc = "stragglers"
          /\ \A e \in worker'.left :
               \E j \in DOMAIN w.applied.conditions :
                 e = w.applied.conditions[j] /\ e.name \notin worker.done
      BY <2>6, AllPast
    <3>2. OnCourse /\ \A j \in DOMAIN w.spec.conditions : Past(j)
      BY <1>1, <2>2, <3>1 DEF OnCourse, Past
    <3>3. /\ name \in names' /\ Live(name)'
          /\ resources'[name].object.spec = q.spec.conditions[i].spec
          /\ CopyHolds(order, p, i, name)'
          /\ \A j \in DOMAIN q.applied.conditions :
               q.applied.conditions[j].name = name => j = i /\ Kept(store', i)
          /\ \A j \in DOMAIN q.spec.conditions :
               Past(j) /\ name = q.spec.conditions[j].name => i = j
          /\ name \in worker.done
      BY <1>3, <2>2, <2>3, <3>1, <3>2
    <3>4. \A e \in worker'.left : e.name # name
      BY <3>1, <3>3
    <3>5. QED
      BY <3>1, <3>2, <3>3, <3>4
  <2>7. CASE DeleteCondition /\ worker.pc = "stragglers"
    <3>1. /\ worker'.pc = "stragglers" /\ q = w /\ worker'.left \subseteq worker.left
          /\ worker.failed => worker'.failed
      BY <2>7, DeletingStep
    <3>2. OnCourse /\ \A j : Past(j)
      BY <1>1, <2>2, <2>7, <3>1 DEF OnCourse, Past
    <3>3. QED
      BY <1>3, <2>2, <2>3, <2>7, <3>1, <3>2
  <2>8. CASE CreateCondition \/ UpdateCondition
    <3>1. PICK k : k = worker.next
      OBVIOUS
    <3>2. PICK m : m = worker'.object.spec.conditions[k].name
      OBVIOUS
    <3>9. PICK v \in Versions : v = Written(worker.object) /\ v = p
      BY <2>3
    <3>10. /\ m \in names' /\ m \in SomeName /\ m # None /\ Processed(m, FALSE)
           /\ resources'[m].object # None /\ ~resources'[m].object.deleting
           /\ resources'[m].object.spec = Current.spec
           /\ CopyHolds(order, v, k, m)'
           /\ \A j \in DOMAIN w.applied.conditions :
                w.applied.conditions[j].name = m => j = k /\ Kept(store, k)
           /\ \A j \in DOMAIN w.spec.conditions : j < k => w.spec.conditions[j].name # m
      <4>1. worker'.pc = "conditions"
        BY <2>8, ConditionProcessed, ProcessedFields
      <4>2. ~worker'.failed
        BY <1>1, <4>1
      <4>3. ~Conflict
        BY <2>2
      <4>4. QED
        BY <2>8, <3>1, <3>2, <3>9, <4>2, <4>3, DoneNow, ZenonT(60)
    <3>3. InLoop /\ worker.pc = "conditions"
      BY <2>8, ConditionProcessed DEF InLoop
    <3>4. /\ worker'.pc = "conditions" /\ worker'.next = k + 1 /\ k \in Nat
          /\ worker'.done = worker.done \cup ({m} \ {None})
          /\ worker'.failed = (worker.failed \/ FALSE)
          /\ k \in DOMAIN w.spec.conditions
          /\ \A j \in DOMAIN w.spec.conditions \ {k} :
               q.spec.conditions[j] = w.spec.conditions[j]
          /\ q.spec.conditions[k].name = m
          /\ q.spec.conditions[k].spec = Current.spec
      BY <3>1, <3>10, <3>3, ProcessedFields
    <3>5. \A j \in DOMAIN q.spec.conditions : j \in Nat /\ (Past(j)' => j < k + 1)
      BY <2>2, <3>4, CopyEntries DEF Past
    <3>6. CASE i = k
      <4>1. name = m
        BY <3>4, <3>6
      <4>2. \A j \in DOMAIN q.spec.conditions :
              Past(j)' /\ name = q.spec.conditions[j].name => i = j
        <5>1. ASSUME NEW j \in DOMAIN q.spec.conditions, Past(j)',
                     name = q.spec.conditions[j].name, i # j
              PROVE  FALSE
          <6>1. j < k /\ j \in DOMAIN w.spec.conditions \ {k}
            BY <2>3, <3>4, <3>5, <3>6, <5>1
          <6>2. w.spec.conditions[j].name = m
            BY <3>4, <4>1, <5>1, <6>1
          <6>3. QED
            BY <3>10, <6>1, <6>2
        <5>2. QED
          BY <5>1
      <4>3. name \in worker'.done
        BY <3>10, <3>4, <4>1
      <4>4. Live(name)' /\ resources'[name].object.spec = q.spec.conditions[i].spec
        BY <3>10, <3>4, <3>6, <4>1 DEF Live
      <4>5. \A j \in DOMAIN q.applied.conditions :
              q.applied.conditions[j].name = name => j = i /\ Kept(store', i)
        BY <2>2, <3>10, <3>6, <4>1
      <4>6. CopyHolds(order, p, i, name)'
        BY <3>10, <3>9, <3>6, <4>1
      <4>7. QED
        BY <3>10, <3>4, <4>1, <4>2, <4>3, <4>4, <4>5, <4>6
    <3>7. CASE i # k
      <4>1. /\ i < k /\ i \in DOMAIN w.spec.conditions
            /\ q.spec.conditions[i] = w.spec.conditions[i]
        BY <2>3, <3>4, <3>5, <3>7
      <4>2. worker.failed \in BOOLEAN
        BY <2>2, WorkerBusy DEF Busy
      <4>3. OnCourse /\ Past(i)
        BY <1>1, <2>2, <3>1, <3>3, <3>4, <4>1, <4>2 DEF OnCourse, Past
      <4>4. name = w.spec.conditions[i].name
        BY <4>1
      <4>5. /\ name \in names' /\ Live(name)'
            /\ resources'[name].object.spec = w.spec.conditions[i].spec
            /\ CopyHolds(order, p, i, name)'
        BY <2>3, <4>1, <4>3, <4>4, DoneStays
      <4>6. /\ \A j \in DOMAIN w.applied.conditions :
                 w.applied.conditions[j].name = name => j = i /\ Kept(store, i)
            /\ \A j \in DOMAIN w.spec.conditions :
                 Past(j) /\ name = w.spec.conditions[j].name => i = j
            /\ name \in worker.done
        BY <3>3, <4>1, <4>3, <4>4 DEF ConditionsInv, WorkerDone, Done
      <4>7. \A j \in DOMAIN q.spec.conditions :
              Past(j)' /\ name = q.spec.conditions[j].name => i = j
        <5>1. ASSUME NEW j \in DOMAIN q.spec.conditions, Past(j)',
                     name = q.spec.conditions[j].name
              PROVE  i = j
          <6>1. j \in DOMAIN w.spec.conditions /\ j < k + 1 /\ j \in Nat
            BY <2>3, <3>5, <5>1
          <6>2. CASE j = k
            BY <3>10, <3>4, <4>1, <4>4, <5>1, <6>2
          <6>3. CASE j # k
            <7>1. j < k /\ q.spec.conditions[j] = w.spec.conditions[j]
              BY <3>4, <6>1, <6>3
            <7>2. Past(j)
              BY <3>1, <7>1 DEF Past
            <7>3. QED
              BY <4>6, <5>1, <6>1, <7>1, <7>2
          <6>4. QED
            BY <6>2, <6>3
        <5>2. QED
          BY <5>1
      <4>8. name \in worker'.done
        BY <3>4, <4>6
      <4>9. QED
        BY <2>2, <3>4, <4>1, <4>5, <4>6, <4>7, <4>8
    <3>8. QED
      BY <3>6, <3>7
  <2>9. QED
    BY <1>1, <1>7, <2>1, <2>4, <2>5, <2>6, <2>7, <2>8, AdvanceKinds
<1>8. Save \/ Release \/ Crash => worker'.pc = "idle"
  BY DEF Save, Release, Crash, Return, Fail, Idle
<1>9. PolicySync \/ Resync \/ Others \/ ReconcileFails \/ ReconcileNothing
        \/ UNCHANGED vars => UNCHANGED <<store, revision, worker>>
  BY DEF PolicySync, Resync, Others, ConditionSync, ConditionReleased, ReconcileFails,
         ReconcileNothing, vars, cluster
<1>10. QED
  BY <1>1, <1>4, <1>5, <1>6, <1>7, <1>8, <1>9 DEF Next, Reconcile

\* For users who never go back, a condition that the spec still has keeps the
\* resource that was recorded for it, with the spec of a version since then; and a
\* worker that gets to its Update has made a resource of its own for every
\* condition, with its spec.
THEOREM ConditionsInvariant ==
  ASSUME NEW order, NeverBack(order)
  PROVE  Spec => []ConditionsInv(order)
<1>1. Init => ConditionsInv(order)
  BY InitConditions
<1>2. TypeOK /\ TypeOK' /\ LeakInv /\ CopiesInv(order) /\ ConditionsInv(order) /\ [Next]_vars
        => ConditionsInv(order)'
  BY StepNamesGiven, StepStillKept, StepResourcesKept, StepWorkerDone DEF ConditionsInv
<1>3. QED
  BY <1>1, <1>2, TypeCorrect, LeakInvariant, CopiesInvariant, PTL DEF Spec

-----------------------------------------------------------------------------
(* What an AppliedSpec that Equals the spec says.                          *)

\* Where Equals makes Reconcile return, nothing has been written since the version
\* that is recorded.
LEMMA InSyncSettled ==
  ASSUME TypeOK, LeakInv, NEW order, NeverBack(order), CopiesInv(order), InSync
  PROVE  /\ Settled /\ store \in Object /\ store \in PolicyCopies
         /\ store.id \in Ids /\ store.id # None /\ cache.object # None
         /\ Recorded(store) = Written(store) /\ Seen = Written(store)
         /\ Seen \in Versions
         /\ store.applied.title = store.spec.title
         /\ store.applied.channels = store.spec.channels
         /\ \A p \in Versions : Upto(order, Recorded(store), p) /\ Upto(order, p, Seen)
              => p = Written(store)
<1> DEFINE s == store
<1>1. s \in Object /\ s # None /\ ~s.deleting /\ Equals(s.spec, s.applied)
      /\ s \in PolicyCopies
  BY DEF InSync, TypeOK, PolicyCopies
<1>2. s.spec \in Policy /\ s.applied \in Policy \cup {Nothing}
  BY <1>1, ObjectFields
<1>3. s.applied # Nothing
  <2>1. Nothing.title = None
    BY DEF Nothing
  <2>2. s.spec.title # None
    BY <1>2, PolicyFields, ConstantsAssumption
  <2>3. QED
    BY <1>1, <2>1, <2>2 DEF Equals
<1>4. Settled
  BY <1>1, <1>3 DEF Settled
<1>5. /\ Recorded(s) \in Versions /\ Upto(order, Recorded(s), Seen) /\ cache.object # None
      /\ s.id \in Ids
  BY <1>4, SettledWorker
<1>6. Written(s) \in Versions /\ Upto(order, Recorded(s), Written(s))
  BY <1>1, <1>3, CopyVersion
<1>7. Seen \in Versions /\ Upto(order, Seen, Written(s))
  <2>1. CASE worker.pc = "idle"
    <3>1. cache.object \in PolicyCopies /\ Seen = Written(cache.object)
      BY <1>5, <2>1 DEF Seen, PolicyCopies
    <3>2. QED
      BY <1>1, <1>5, <3>1, CopyVersion DEF CopiesInv, VersionsInOrder
  <2>2. CASE worker.pc # "idle"
    <3>1. worker.object \in PolicyCopies /\ Seen = Written(worker.object)
      BY <2>2, WorkerBusy, ObjectFields DEF Seen, PolicyCopies
    <3>2. QED
      BY <1>1, <2>2, <3>1, CopyVersion DEF CopiesInv, VersionsInOrder
  <2>3. QED
    BY <2>1, <2>2
<1>8. Alike(Written(s), Recorded(s))
  <2> DEFINE p == Written(s)
             q == Recorded(s)
  <2>1. /\ p.title = s.spec.title /\ p.key = s.spec.key /\ p.channels = s.spec.channels
        /\ DOMAIN p.conditions = DOMAIN s.spec.conditions
        /\ Len(p.conditions) = Len(s.spec.conditions)
        /\ \A i \in DOMAIN s.spec.conditions : p.conditions[i] = s.spec.conditions[i].spec
    BY <1>2, WithoutNamesFields DEF Written
  <2>2. /\ q.title = s.applied.title /\ q.key = s.applied.key
        /\ q.channels = s.applied.channels
        /\ DOMAIN q.conditions = DOMAIN s.applied.conditions
        /\ Len(q.conditions) = Len(s.applied.conditions)
        /\ \A i \in DOMAIN s.applied.conditions :
             q.conditions[i] = s.applied.conditions[i].spec
    BY <1>2, WithoutNamesFields DEF Recorded
  <2>3. /\ s.spec.title = s.applied.title /\ s.spec.key = s.applied.key
        /\ Len(s.spec.conditions) = Len(s.applied.conditions)
        /\ SpecsOf(s.applied) \subseteq SpecsOf(s.spec)
        /\ Cardinality(s.spec.channels) = Cardinality(s.applied.channels)
        /\ s.applied.channels \subseteq s.spec.channels
    BY <1>1 DEF Equals
  <2>4. Range(q.conditions) \subseteq Range(p.conditions)
    <3>1. SUFFICES ASSUME NEW i \in DOMAIN q.conditions
                   PROVE  \E j \in DOMAIN p.conditions : p.conditions[j] = q.conditions[i]
      BY DEF Range
    <3>2. q.conditions[i] \in SpecsOf(s.applied)
      BY <2>2 DEF SpecsOf, Listed
    <3>3. q.conditions[i] \in SpecsOf(s.spec)
      BY <2>3, <3>2
    <3>4. PICK j \in DOMAIN s.spec.conditions : q.conditions[i] = s.spec.conditions[j].spec
      BY <3>3 DEF SpecsOf, Listed
    <3>5. QED
      BY <2>1, <3>4
  <2> HIDE DEF p, q
  <2>5. Alike(p, q)
    BY <2>1, <2>2, <2>3, <2>4 DEF Alike
  <2>6. QED
    BY <2>5 DEF p, q
<1>9. Recorded(s) = Written(s)
  <2>1. Upto(order, Recorded(s), Recorded(s))
    BY DEF Upto
  <2>2. QED
    BY <1>5, <1>6, <1>8, <2>1, NoneBetween
<1>10. ASSUME NEW p \in Versions, Upto(order, Recorded(s), p), Upto(order, p, Seen)
       PROVE  p = Written(s)
  <2>1. Upto(order, p, Written(s))
    BY <1>6, <1>7, <1>10, UptoTrans
  <2>2. QED
    BY <1>5, <1>6, <1>8, <1>9, <1>10, <2>1, NoneBetween
<1>11. Seen = Written(s)
  BY <1>5, <1>7, <1>10 DEF Upto
<1>12. s.applied.title = s.spec.title /\ s.applied.channels = s.spec.channels
  <2>1. /\ Written(s).title = s.spec.title /\ Written(s).channels = s.spec.channels
    BY <1>2, WithoutNamesFields DEF Written
  <2>2. /\ Recorded(s).title = s.applied.title /\ Recorded(s).channels = s.applied.channels
    BY <1>2, WithoutNamesFields DEF Recorded
  <2>3. QED
    BY <1>9, <2>1, <2>2
<1>13. s.id # None
  BY <1>5, ConstantsAssumption
<1>14. QED
  BY <1>1, <1>4, <1>5, <1>7, <1>9, <1>10, <1>11, <1>12, <1>13

\* So it says the truth of the policy in New Relic, and of its channels.
LEMMA TruthOfPolicy ==
  ASSUME TypeOK, LeakInv, NEW order, NeverBack(order), CopiesInv(order), PolicyInv(order)
  PROVE  PolicyIsTrue /\ LinksAreTrue
<1> SUFFICES ASSUME InSync
             PROVE  /\ store.id # None /\ policies[store.id] # None
                    /\ policies[store.id].title = store.spec.title
                    /\ policies[store.id].channels = store.spec.channels
  BY DEF PolicyIsTrue, LinksAreTrue
<1>1. /\ Settled /\ store \in Object
      /\ store.id \in Ids /\ store.id # None /\ Seen = Written(store)
      /\ store.applied.channels = store.spec.channels
      /\ \A p \in Versions : Upto(order, Recorded(store), p) /\ Upto(order, p, Seen)
           => p = Written(store)
  BY InSyncSettled
<1>2. Written(store).title = store.spec.title /\ Written(store).channels = store.spec.channels
  <2>1. store.spec \in Policy
    BY <1>1, ObjectFields
  <2>2. QED
    BY <2>1, WithoutNamesFields DEF Written
<1>3. policies[store.id] # None
  BY <1>1 DEF PolicyInv, TitleKept
<1>4. PICK p \in Versions :
        /\ Upto(order, Recorded(store), p) /\ Upto(order, p, Seen)
        /\ policies[store.id].title = p.title
  BY <1>1 DEF PolicyInv, TitleKept
<1>5. policies[store.id].title = store.spec.title
  BY <1>1, <1>2, <1>4
<1>6. /\ policies[store.id].channels \subseteq Seen.channels
      /\ store.applied.channels \subseteq policies[store.id].channels
  BY <1>1, <1>3 DEF PolicyInv, LinksKept, Settled
<1>7. QED
  BY <1>1, <1>2, <1>3, <1>5, <1>6

\* And of the resources of its conditions.
LEMMA TruthOfResources ==
  ASSUME TypeOK, LeakInv, NEW order, NeverBack(order), CopiesInv(order),
         ConditionsInv(order)
  PROVE  ResourcesAreTrue
<1> SUFFICES ASSUME InSync, NEW i \in DOMAIN store.applied.conditions
             PROVE  LET e == store.applied.conditions[i] IN
                    /\ e.name \in Names
                    /\ Live(e.name)
                    /\ resources[e.name].object.spec = e.spec
                    /\ \A j \in DOMAIN store.applied.conditions :
                         store.applied.conditions[j].name = e.name => i = j
  BY DEF ResourcesAreTrue
<1> DEFINE name == store.applied.conditions[i].name
<1>1. /\ Settled /\ store \in Object /\ store \in PolicyCopies
      /\ Recorded(store) = Written(store)
      /\ \A p \in Versions : Upto(order, Recorded(store), p) /\ Upto(order, p, Seen)
           => p = Written(store)
  BY InSyncSettled
<1>2. /\ i \in DOMAIN store.spec.conditions
      /\ store.spec.conditions[i].spec = store.applied.conditions[i].spec
      /\ Written(store).conditions[i] = store.applied.conditions[i].spec
  BY <1>1, CopyEntries
<1>3. Kept(store, i)
  BY <1>2 DEF Kept
<1>4. /\ name \in names
      /\ \A j \in DOMAIN store.applied.conditions :
           name = store.applied.conditions[j].name => i = j
  BY <1>1 DEF ConditionsInv, NamesGiven
<1>5. name \in Names
  BY <1>4 DEF TypeOK
<1>6. /\ Live(name)
      /\ \E p \in Versions :
           /\ Upto(order, Recorded(store), p) /\ Upto(order, p, Seen)
           /\ Holds(p, i, resources[name])
  BY <1>1, <1>3 DEF ConditionsInv, ResourcesKept
<1>7. Holds(Written(store), i, resources[name])
  BY <1>1, <1>6
<1>8. resources[name].object.spec = store.applied.conditions[i].spec
  BY <1>2, <1>7 DEF Holds
<1>9. QED
  BY <1>4, <1>5, <1>6, <1>8

\* For users who never go back, an AppliedSpec that Equals the spec tells the
\* truth: the policy is in New Relic under its title and with its channels, and
\* each condition has a resource of its own with its spec, whatever caches lag
\* behind and whatever calls, saves and managers failed before.
THEOREM AppliedTrue ==
  ASSUME NEW order, NeverBack(order)
  PROVE  Spec => []AppliedIsTrue
<1>1. TypeOK /\ LeakInv /\ CopiesInv(order) /\ PolicyInv(order) /\ ConditionsInv(order)
        => AppliedIsTrue
  BY TruthOfPolicy, TruthOfResources DEF AppliedIsTrue
<1>2. QED
  BY <1>1, TypeCorrect, LeakInvariant, CopiesInvariant, PolicyInvariant,
     ConditionsInvariant, PTL
=============================================================================
