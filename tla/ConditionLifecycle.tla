------------------------ MODULE ConditionLifecycle ------------------------
(***************************************************************************)
(* What a condition reconciler promises, and nothing of how it does it: no *)
(* cache, no queue, no worker, no revision and no retry.  A resource is    *)
(* declared by its users and records at most one New Relic condition; New  *)
(* Relic holds only what users declared for one resource; a recorded       *)
(* condition goes before its resource does.                                *)
(***************************************************************************)
EXTENDS Naturals

CONSTANTS
  Conditions,  \* the condition resources that may exist in the cluster
  Specs,       \* the values a resource's Spec may take
  SpecsFor,    \* the specs the users give to each resource
  Ids,         \* New Relic condition ids
  None         \* no resource, no id, no condition

VARIABLES
  resource,  \* each resource: its spec, whether it is being deleted, its id
  nr,        \* New Relic: the spec each condition id holds, or None
  used       \* New Relic: the ids given out so far

vars == <<resource, nr, used>>

Init ==
  /\ resource = [c \in Conditions |-> None]
  /\ nr       = [i \in Ids |-> None]
  /\ used     = {}

-----------------------------------------------------------------------------
(* The users.                                                              *)

Declare(c) ==
  /\ resource[c] = None
  /\ \E s \in SpecsFor[c] :
       resource' = [resource EXCEPT
                      ![c] = [spec |-> s, deleting |-> FALSE, id |-> None]]
  /\ UNCHANGED <<nr, used>>

Edit(c) ==
  /\ resource[c] # None
  /\ \E s \in SpecsFor[c] : resource' = [resource EXCEPT ![c].spec = s]
  /\ UNCHANGED <<nr, used>>

Retire(c) ==
  /\ resource[c] # None
  /\ resource' = [resource EXCEPT ![c].deleting = TRUE]
  /\ UNCHANGED <<nr, used>>

\* A resource that records nothing goes at once.
Forget(c) ==
  /\ resource[c] # None
  /\ resource[c].id = None
  /\ resource' = [resource EXCEPT ![c] = None]
  /\ UNCHANGED <<nr, used>>

-----------------------------------------------------------------------------
(* New Relic, and the status.                                              *)

\* A condition is created under a new id, as users declared it.
Provision(c, i) ==
  /\ i \notin used
  /\ \E s \in SpecsFor[c] : nr' = [nr EXCEPT ![i] = s]
  /\ used' = used \cup {i}
  /\ UNCHANGED resource

\* A condition is only ever changed for the resource it was created for.
Amend(c, i) ==
  /\ nr[i] \in SpecsFor[c]
  /\ \E s \in SpecsFor[c] : nr' = [nr EXCEPT ![i] = s]
  /\ UNCHANGED <<resource, used>>

\* An id is recorded once, for one resource, which is not being deleted.
Record(c, i) ==
  /\ resource[c] # None
  /\ ~resource[c].deleting
  /\ resource[c].id = None
  /\ i \in used
  /\ nr[i] \in SpecsFor[c] \cup {None}
  /\ \A d \in Conditions : resource[d] # None => resource[d].id # i
  /\ resource' = [resource EXCEPT ![c].id = i]
  /\ UNCHANGED <<nr, used>>

\* Only the deletion of the resource that records a condition removes it.
Withdraw(c) ==
  /\ resource[c] # None
  /\ resource[c].deleting
  /\ resource[c].id # None
  /\ nr[resource[c].id] \in SpecsFor[c]
  /\ nr' = [nr EXCEPT ![resource[c].id] = None]
  /\ UNCHANGED <<resource, used>>

\* Somebody deletes a condition in New Relic itself.
Vanish(i) ==
  /\ nr[i] # None
  /\ nr' = [nr EXCEPT ![i] = None]
  /\ UNCHANGED <<resource, used>>

\* A resource leaves when what it records is gone.
Drop(c) ==
  /\ resource[c] # None
  /\ resource[c].deleting
  /\ resource[c].id # None => nr[resource[c].id] = None
  /\ resource' = [resource EXCEPT ![c] = None]
  /\ UNCHANGED <<nr, used>>

Next ==
  \/ \E c \in Conditions :
       Declare(c) \/ Edit(c) \/ Retire(c) \/ Forget(c) \/ Withdraw(c) \/ Drop(c)
  \/ \E c \in Conditions, i \in Ids :
       Provision(c, i) \/ Amend(c, i) \/ Record(c, i)
  \/ \E i \in Ids : Vanish(i)

Spec == Init /\ [][Next]_vars
=============================================================================
