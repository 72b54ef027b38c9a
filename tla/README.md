# A TLA+ model of the New Relic Kubernetes operator

The operator keeps New Relic alert policies, conditions and notification
channels in step with custom resources of a Kubernetes cluster. Each resource
kind has a controller (`src/controllers/*_controller.go`) that reads the
resource from an informer cache, calls New Relic, writes condition resources
(the policy controllers), and at the end writes the whole resource back. What
makes the code hard to get right is not any one call but what lies between
them: a user's edit or deletion, a conflict, a lost answer, a crash, a cache
that lags behind, a retry that starts from the old status.

## Inventory

All the controllers run in one manager (`main.go`, `alerts.go`): one process,
one worker for each kind (`MaxConcurrentReconciles` keeps its default 1), a
shared informer cache, the default resync period. No CRD has a status
subresource, so one `Update` writes spec, status and metadata together and is
refused when the resource has changed since it was read.

| component | state it keeps | operations | what makes it correct |
|---|---|---|---|
| condition controllers (`alerts_nrqlcondition`, `alerts_apmcondition`, legacy `nrqlalertcondition`, `apmalertcondition`) | finalizer, `Status.ConditionID`, `Status.AppliedSpec` | adopt by name, create, update, save, delete, release the finalizer | a status that claims a spec is true; one New Relic condition for each resource; no condition outlives its resource; users' changes are kept; every spec is applied and every deletion ends |
| AlertsPolicy controller (`alerts_policy_controller.go`) | the same for the policy, the names of the condition resources inside the spec | adopt, create and update the policy, create/update/delete condition resources, link and unlink channels, save, delete | as above, and one condition resource for each condition, the links the spec asks for, inherited values reach the conditions, nothing recorded outlives the policy |
| legacy Policy controller (`policy_controller.go`) | the same | the same without channels and owner references | the same |
| AlertsChannel controller (`alertschannel_controller.go`) | `ChannelID`, `AppliedSpec`, `AppliedPolicyIDs` | adopt or replace by name, create, link and unlink policies, delete | an adopted channel still exists; links that are claimed exist; no channel outlives its resource |
| webhooks (`api/v1/*_webhook.go`) | none | defaults, validation on create and update, of users' and of controllers' requests | what the reconcilers rely on: `AppliedSpec` is never nil, no two conditions of one policy are equal; what is admitted can be brought to New Relic; no deletion is refused for good |
| comparison of specs (`SpecHash`, `Equals`, `diffIntSlice`) | none | pure functions | equal exactly when there is nothing to do |
| New Relic client, fakes, deep copies, manifests | none of their own | - | external or generated |

Interaction: users and the API server through resources; the policy controller
with the condition controllers through condition resources; every controller
with New Relic through calls that can fail, or succeed with a lost answer.

Hard behaviours: a status that is saved after the external effect it records;
errors that are logged and swallowed (conditions) or returned (policies); work
that is repeated from an old status; caches for each kind that advance
separately; deletions of several things that stop half way.

## Modules

| module | models |
|---|---|
| `ConditionLifecycle` | what a condition reconciler promises, and nothing of how: the abstract specification |
| `ConditionController` | the four condition controllers, as instances of one control flow; implements `ConditionLifecycle` |
| `ConditionControllerProofs`, `ConditionClaimsProofs` | its theorems: what holds of all users, and what holds of users who edit forward |
| `ConditionLifecycleProofs` | the proof of the refinement |
| `ConditionWebhooks` | the admission webhooks of the four condition kinds, as operators |
| `AdmittedConditions` | the condition controllers behind their webhooks, while policies and the secret may go |
| `AdmittedConditionsProofs` | its theorems, from those of `ConditionController` |
| `PolicyController` | the legacy Policy controller composed with the controllers of its condition resources |
| `PolicyControllerProofs` | its theorems, from those of `ConditionController` |
| `AlertsPolicyController` | the controller of one AlertsPolicy with its condition resources and channel links |
| `AlertsPolicyProofs`, `AlertsPolicyClaimsProofs` | its theorems |
| `AlertsChannelController` | the controller of one AlertsChannel with its links to policies |
| `AlertsChannelProofs` | its theorems |
| `MC...` | the instances of each for TLC |

`AdmittedConditions` and `PolicyController` use `ConditionController` by `INSTANCE`:
its actions are theirs, with what surrounds them added. The same variables hold
the condition resources, the caches, the workers and New Relic's conditions.

### ConditionController

`store` and `revision` are the API server; `cache` and `queue` the informer and
the work queues; `worker` says for each kind where its worker is in a reconcile
and what its local copy holds; `nr` and `used` are New Relic. A step of a worker
is one call that leaves the process, since nothing else can happen to what it
reads or writes in between: `ReconcileSpec`, `ReconcileDeletion`,
`ReconcileNothing` and `ReconcileFails` are `Reconcile` up to its first call
(`Get` is a read of the cache), `Search` is `checkForExistingCondition`,
`UpdateCondition`, `CreateCondition` and `Save` are `writeNewRelicAlertCondition`,
`DeleteCondition` and `Release` the deletion branch. The finalizer and the status
live in the worker's copy until `Save`, as in the code. A call may fail, or be
carried out with its answer lost.

Abstractions: a spec is a model value with a New Relic name; API keys and clients
that cannot be had are the fault "get"; all conditions belong to one policy;
an update in New Relic keeps the condition's id. The map names the
AlertsNrqlCondition controller; `AdmittedConditions` has an action for the
reconcile and the calls of each of the other three, which have the same flow but
for one case (an APM condition whose existing_policy_id is no number is not saved,
`alerts_apmcondition_controller.go:218`), which its webhook refuses before.

### ConditionLifecycle

A resource is declared, edited, retired and forgotten by users; a condition is
provisioned under a new id and amended only for the resource it was created for;
an id is recorded once; a condition is withdrawn only by the deletion of the
resource that records it, and the resource drops after that. There is no cache,
queue, worker, revision, finalizer, applied spec or retry. `ConditionController`
implements it (`ImplementsLifecycle`) by the mapping `Recorded`: a resource shows
its spec, its deletion mark and its id. All the rest stutters. It asks that
resources do not share New Relic names (`DistinctNames`); when they do, one adopts
the other's condition, and the refinement fails as it should.

### ConditionWebhooks and AdmittedConditions

`ConditionWebhooks` has one operator for each check of each kind. What they tell
apart of a spec is kept: how the key is given, the region, the policy, whether the
baseline direction is set, which attributes and which fields of which terms are
wrong. The policy is looked up in one of two ways. `GetPolicy` (REST, the legacy
kinds) says of a policy that is not there "no alert policy found for id", and that
is the text which the webhooks forgive on deletion (`PolicyFound`). `QueryPolicy`
(NerdGraph, AlertsNrqlCondition and AlertsAPMCondition) says it otherwise, and any
other error of either is not forgiven. These texts are those of the client that
`go.mod` names, whose source is not in the repository; the webhooks' tests stub `GetPolicy` with
the first.

The API server calls the webhooks for every create and update, the controllers' own
included, so in `AdmittedConditions` a refused `Save` is logged and a refused
`Release` requeued (`UpdateRefused`), whether the webhook refuses for what it found
or because a look-up failed (`LookUpFails`, the fault "lookup"; of a user's request
that is refused nothing remains). `DeletePolicy` takes a policy's conditions with it,
`DeleteSecret` the key that resources refer to, and `CreateSecret` puts it back;
without a key or a client `Reconcile` fails before anything else (`Connects`).

`DeletionCompletes` excepts two sorts of resources: those whose key or region cannot
be used from some time on (`Unconnected`: no edit and no secret ever repairs them),
and AlertsAPMConditions whose policy is gone (`Forsaken`), which are never released
(see the findings). A deletion that was held up and
then repaired is not excepted. `Overlooked` names what
admission lets in though New Relic will refuse it: an AlertsNrqlCondition's edits
are checked for the baseline direction only, NRQL conditions have no attribute
checks, and a right `TimeFunction` makes the loop over the terms go on before it has
looked at the operator and the priority.

### PolicyController

One legacy Policy, one life of it, and its condition resources with their own
controllers. `policy`, `copy`, `queued` and `run` are the policy's resource, its
cached copy, its place in the queue and its worker; `policies` is New Relic. The
policy's worker writes the specs of the condition resources, reads them from the
cache their own workers read, and both write whole resources, so that each may
refuse the other's `Update`. `Search`, `CreatePolicy` and `UpdatePolicy`, then
`CreateCondition`, `UpdateCondition`, `EndConditions` (`createConditions`,
`createOrUpdateConditions`), `DeleteCondition` and `EndDeletes`, then `Save`, or
`DeletePolicy` and `Release`. `ResourceOf` is the resolution of a condition's
resource, `Equals` the comparison that makes `Reconcile` return at once. The
condition webhooks' lookup of the policy is part of it (`Admitted`).

Abstractions: inherited values are the policy's id; the hash of a spec is
injective; users do not touch the condition resources; the names that the API
server generates are taken in one order.

### AlertsPolicyController

One AlertsPolicy and one life of it. `store`, `revision`, `cache`, `queued` are as
above; `resources` and `copies` are the condition resources and the informers'
copies of them, which advance one kind at a time (`ConditionSync`); `policies` holds
the title and the channels of each policy in New Relic. `worker` also keeps the
loop variables of the code: the index of the condition, the processed resources,
what is left to delete or unlink, and whether an error was collected.

`Search` is `checkForExistingAlertsPolicy`; `CreatePolicy` and `UpdatePolicy` the
mutations; `CreateCondition`, `UpdateCondition`, `EndConditions`, `DeleteCondition`
and `EndDeletes` are `createConditions`, `createOrUpdateConditions` and the loop of
`deleteAlertsPolicy`; `UnlinkChannel` and `LinkChannels` are `updateAlertsChannels`
and `createAlertsChannels`; then `Save`, or `DeletePolicy` and `Release`. `AtUpdate`,
`AtConditions` and `AtChannels` are the conditions in memory that skip a part.

Abstractions: API key, its secret and the region are one value, `key`; `account` is
apart from it, since `Equals` leaves it out, `SameHash` (`SpecHash`) does not strip
it, and `UpdateCondition` writes both. So the conditions of a policy with an account
are written again by every reconcile that compares them, which is no write to the API
server when nothing else has changed; conditions give no account of their own, and
what one that did would get is not modelled. Channels are a set; removing a link that does not exist is no error; the
condition controllers are reduced to letting go of resources that are being
deleted (`ConditionReleased`); the garbage collector is left out; a webhook that
refuses a condition resource is the fault "condition". A user's edit keeps the
names that the operator wrote into the spec (`kubectl edit`) or drops them
(`kubectl apply`).

### AlertsChannelController

One AlertsChannel and one life of it, with the variables of the policy's module.
`channels` is New Relic (a channel and its links), `ready` the policies whose
resources have an id. `ListChannels`, `ClearExisting` and `EndExisting` are
`checkForExistingAlertsChannel`, one deletion at a time; `CreateChannel`, then
`GetAllPolicyIDs`, `Unlink`, `EndUnlink`, `Link` and `Save`, are
`createAlertsChannel` and `updateAlertsChannel` (the former is the case of an
`AppliedSpec` without links); `DeleteChannel` and `Release` are
`deleteAlertsChannel`. New Relic never changes a channel, so each reconcile
deletes what has the spec's name, its own channel included.

Abstractions: the three ways to name a policy are one set of policies; a policy
never loses its id; type and configuration of a channel are one value;
`AppliedPolicyIDs`, which nothing reads, is left out. An id that nothing refers to
any more stands for a new one (`Remembered`): the retries create and delete a
channel by turns while a policy has no id, so ids that are never used again would
make the instance infinite. A kind of fault happens once (`faults` is the set of
those that did), which lets `NoDuplicates` and `NoRecordedLeak` say which errors
they do not survive.

## Runs

Deadlock is not checked: users may stop, or delete everything, and then nothing is
left to do.

| run | bounds | shows |
|---|---|---|
| `ConditionFaults` | 2 resources of 2 kinds, 3 user operations, 2 faults of any kind (1.3 million states) | `ExclusiveOwnership`, `NoRecordedLeak`, `UserIntentSurvives`, and the refinement `ImplementsLifecycle` |
| `ConditionLiveness` | 2 resources, 1 worker, 4 user operations, 1 fault (no failing search, no out-of-band deletion), edits that only go forward | `AppliedIsTrue`, `NoDuplicates`, `DeletionCompletes`, `EventuallyInSync` |
| `ConditionRevert` | 1 resource, no fault | `EventuallyInSync` is violated |
| `AdmittedConditions` | a resource of one of the 4 kinds, created and edited well or badly, 4 user operations (among them the repair of the spec or of the secret), one fault of a look-up, a DELETE, a release or the process; the policy and the secret may go at any time (76 974 states) | `AppliedIsTrue`, `NoRecordedLeak`, `AdmittedReachNewRelic`, `DeletionCompletes` |
| `PolicyFaults` | 3 user operations, 2 faults (no failing search); the users may write resource names; a condition changes, one of another kind and a channel are added, then the title, the key and the account change (807 318 states) | `AppliedIsTrue`, `NoDuplicatePolicies`, `NothingOutlives`, `UserIntentSurvives` |
| `PolicyLiveness` | one edit of the same sort that also replaces the channel, 1 fault of any kind | `EventuallyApplied` |
| `PolicyDeletion` | one condition, one failed `DeletePolicyMutation` | `DeletionCompletes` is violated |
| `PolicyDuplicates` | two conditions, one failed `Create` | `NoDuplicateResources` is violated |
| `PolicyChannels` | the only channel is removed | `LinksAreTrue` is violated |
| `LegacyPolicy` | one policy, 3 resource names, 3 workers, 3 user operations, 1 fault or resync; the policy is renamed and its condition changed, or replaced by one of the other kind (1.1 million states) | `AppliedIsTrue`, `ClaimsAreTrue`, `NoDuplicates`, `NothingOutlives`, `PolicyWritesSurvive`, `UserIntentSurvives` |
| `ChannelFaults` | a rename that also moves the link, and its reversal; a channel of the name may be there before; 3 user operations, 2 faults of different kinds | `NoDuplicates`, `NoRecordedLeak`, `UserIntentSurvives`, `DeletionCompletes`, `EventuallyApplied` |
| `ChannelAdoption` | a channel like the spec is there before, no fault | `ChannelExists` is violated |

Why the bounds are enough to be of use: an operation on a resource has at most
three calls for a condition, so two faults reach every pair of "failed here, and
failed again on the retry"; three user operations are create, edit and one more,
at any point of a reconcile; two resources are what sharing a worker or a New
Relic name takes. `Ids` and `Names` bound what is created. A retry can create
resources without end, so `EventuallyApplied` and `DeletionCompletes` of the
policy say nothing of behaviours in which a bound is met (`Exhausted`); the
counterexamples listed above do not meet it.

`AdmittedConditions` creates one resource at a time, because the kinds share nothing
but the policy and the secret, and what happens between two resources is
`ConditionFaults`; the resource may be of any kind, and each check of its webhook has
a create or an edit that it refuses. Only an AlertsNrqlCondition can be edited so
that it cannot be released: the other webhooks refuse an edit that takes the key
away, and one that changes the region to another they cannot look the policy up in.
Four operations are creation, an edit that breaks, deletion and one that repairs,
in any order. In `LegacyPolicy` the resyncs, one
for each kind's informer, count as a fault, and so does a crash; two resource names
of one kind are what a retry that creates a resource again takes. It checks safety
only: the endless retries of a policy whose deletion got half way are the subject of
`PolicyDeletion`, whose code the legacy controller shares. `ClaimsAreTrue` leaves out
resources that were created twice, since the forgotten one may write its old spec
over the condition they share.

The passing runs leave out on purpose what the violated ones show. In particular
`PolicyFaults` and `PolicyLiveness` edit policies that grow: an edit that removes
all channels is what `PolicyChannels` is about; one that only changes the
key, the region or the account, one that is taken back and one that removes a condition are described below. A search that
fails is treated as one that finds nothing and ends in duplicates, and is left out
where they are checked.

## Fairness

`FairSpec` asks that watch events and the periodic resync arrive, that a worker
carries its calls to the end (the HTTP clients have timeouts, and a call that fails
is an end), that the work queue serves what is in it (a FIFO with back-off: strong
fairness, because other resources of the kind may take the worker in between), and
that the condition controllers let go of what is being deleted (for a channel: that the
policies it refers to get their ids). In `AdmittedConditions` a reconcile that cannot
connect is retried and changes nothing; strong fairness asks for a reconcile only
if it can connect again and again. Nothing is asked of
the users, and no fault has to happen or not to happen; faults are bounded.

## Findings

1. `ConditionRevert`: an edit followed by its reversal, while the save is refused,
   leaves New Relic with the intermediate spec for good.
2. `PolicyDeletion`: a deletion that fails after its condition resources are deleted
   never completes; the retry takes the missing resource for an error.
3. `PolicyDuplicates`: when one condition resource fails to be created, the retry
   creates the others again.
4. `PolicyChannels`: removing all channels removes none. (An edit that replaces a
   channel while the save of the earlier one is refused also leaves the earlier
   one linked: what to unlink is computed from `AppliedSpec`, which never had it.)
5. `ChannelAdoption`: a channel that is like the spec is adopted and deleted in one
   reconcile; the status records a channel that is gone. (The same happens to the
   resource's own channel whenever its links or configuration are edited under the
   same name: it is deleted, and `ChannelID` keeps the worker from creating another.)

The following has no run of its own, and the models show it all the same. A
condition resource deleted before its first save leaves its condition in New Relic,
since the finalizer was never written. A new API key or region of a policy
does not reach its conditions unless their list changes too, because neither the
comparison of the lists nor the hash of a condition sees it; a new account is no
change at all to `Equals`. A policy that is edited and edited back while a save
is refused keeps condition resources of the intermediate spec, as in 1.

An AlertsAPMCondition cannot be deleted once its policy is gone: its webhook forgives
the text of `GetPolicy`'s error (`alerts_apmcondition_webhook.go:271`) but asks
`QueryPolicy`, so every release is refused. The test that says "Should allow the
deletion anyway" (`alerts_apmcondition_webhook_test.go:149`) stubs `GetPolicy`, which
this webhook does not call. `DeletionCompletes` of `AdmittedConditions` names the case
(`Forsaken`); without that exception TLC finds a deletion that never completes.

What `PolicyDeletion` shows happens in an update too: when a condition is removed
and the `Update` that records it conflicts, each retry deletes a resource that is
gone, fails, and no later edit is applied.

A name that users write for a condition's resource is ignored on creation and
believed on update. After a lost save the policy is adopted and updated, and every
retry looks for a resource of that name in vain; the test at
`alerts_policy_controller_integration_test.go:369` has only the creation. No run
shows this, since it is a liveness failure of the same kind as `PolicyDeletion`.

## Proofs

`ConditionControllerProofs` proves for every value of the constants (under
`ConstantsAssumption`: the functions have the domains and ranges one expects, and
`None` is no resource, spec or id):

- `TypeCorrect`: `Spec => []TypeOK`.
- `LeakInvariant`: `Spec => []LeakInv`. `LeakInv` is inductive together with
  `TypeOK` and has five parts. A cached copy is never newer than the resource, and
  equal to it when as new (`CacheCoherent`). A worker whose `Update` would be
  accepted holds what the users last wrote and, while deleting, the recorded id
  (`WorkerCoherent`). Only a deletion removes the finalizer, after New Relic has
  let go of the condition (`WorkerPhases`). A recorded id comes with the finalizer
  (`FinalizerKept`), and ids are not given out twice (`IdsUsed`).
- `NoLeak`: `Spec => NoRecordedLeak`. A resource with a recorded id has the
  finalizer, so a user's deletion only marks it; what removes it is `Release`, whose
  worker holds that same id because its revision is current, and that id is gone.
- `IntentSurvives`: `Spec => UserIntentSurvives`, from the same invariant: the only
  accepted writes are from workers that hold the users' last spec and deletion mark.

`ConditionLifecycleProofs` proves, under the assumption `DistinctNames` (specs of
different resources never share a New Relic name):

- `OwnershipInvariant`: `Spec => []Ownership`. The copies of a resource (the API
  server's, the informer's, a worker's) and the New Relic condition that any of them
  records hold only specs that users gave to that resource, and no copy of another
  resource records the same condition. It is needed for all the copies, old ones
  included: a worker that read the resource long ago may still write. The step that
  matters is the adoption by name, where `DistinctNames` makes what is found the
  resource's own.
- `Exclusive`: `Spec => []ExclusiveOwnership`, from it.
- `LifecycleInvariant`: `Spec => []LifecycleInv`, which adds that a worker whose
  `Update` would be accepted replaces no recorded id (`IdsRecorded`), and that a
  condition some copy is about to delete is recorded by a resource under deletion or
  gone (`Doomed`).
- `Refinement`: `Spec => ImplementsLifecycle`. One lemma for each group of actions
  shows which abstract step it is: writes are `Amend`, creations `Provision`, saves
  `Record` or a stutter, deletions `Withdraw` or a stutter, releases `Drop`; everything
  that touches caches, queues and workers stutters.

`ConditionClaimsProofs` proves the two invariants that say something about the
contents of New Relic, and that do not hold of all users:

- `AppliedTrue`: `Spec => []AppliedIsTrue`, if `DistinctNames`, if nobody but the
  operator deletes in New Relic (`"outOfBand" \notin FaultKinds`), and if edits go
  forward in a strict order (`Forward(order)`, for any order on specs). The last is
  needed because a claim is a comparison of the spec with `AppliedSpec` only: after
  an edit and its reversal a claim about the first spec comes back while New Relic
  holds the second, which is what `ConditionRevert` shows. The inductive `ClaimInv`
  says where claims come from: what was applied is the spec or came before it
  (`AppliedBefore`), a worker makes a claim only once New Relic accepted the spec
  (`ClaimsInHand`), and while a status claims the spec, no copy of an older spec is
  left that a worker could still write (`ClaimsKnown`). The last is the heart: a
  worker's `Update` is the only step that makes a claim, it was accepted, so the
  informer's copy that the worker had read was the newest.
- `NoneTwice`: `Spec => []NoDuplicates`, if `DistinctNames`, if no search fails, and if
  edits keep the name (`NeverRename`). A failing search counts as one that found
  nothing, and then creates a second condition; a rename back can meet a condition
  that a lost save left behind. `NameInv` says that what a copy records has the
  copy's name, and that from the search to the create nothing of the name appears.

`AdmittedConditionsProofs` takes the lemmas of `ConditionController` through
`INSTANCE`. A step of `AdmittedConditions` is a step of that module, or one in which
workers give up, refused or unconnected, conditions go with their policy, or the
secret returns (`Withheld`; the faults and the users' operations may be counted in it);
`ConditionController` is instantiated with all the faults but "lookup"; `ConditionControllerProofs` shows that such steps keep its invariants
too. It proves `TypeCorrect`, `NoLeak`, and `AppliedTrue` under the same hypotheses
as above, with an invariant that leaves out the claims whose policy is gone.

`PolicyControllerProofs` does the same for the composition with the legacy Policy
controller. The condition resources now have a second writer: each of its steps is,
for the condition controllers, a step of their own, a `Withheld` one, or the writing
of one resource by the policy's worker (`Handed`), which keeps the id and the
finalizer and never takes a deletion back. Type correctness is not inductive
without the invariant, since what the policy's worker writes into a resource is typed
only if its policy has an id (`IdKnown`) and what it read from the cache is a
resource, so the lemma `Together` proves both at once. From it:

- `IntentSurvives`: `Spec => UserIntentSurvives`, for the policy.
- `WritesSurvive`: `Spec => PolicyWritesSurvive`: no condition worker, whatever it read
  before, undoes what the policy's worker wrote, because its `Update` would conflict.
- `NothingLeft`: `Spec => NothingOutlives`. Its inductive part is `DeletionSoFar`, what
  a deletion has got rid of so far, with `NoOrphans` (no condition of a policy that
  New Relic does not hold).
- `NoneTwice`: `Spec => []NoDuplicates`, if no search fails and no condition is renamed
  (`NeverRename`: the conditions of one kind that the versions of the policy have in one
  place have one name, and a name tells the kind of its conditions). `ConditionClaimsProofs`
  rests on `DistinctNames`, which is not to be had here: a retry leaves two resources of
  one name behind. What it needs is less, that no two workers are about to write one name
  (`DistinctWriters`), and this follows since each kind has one worker. The invariant
  `TitleInv`, proved inductive with `TypeOK` and `Inv` in `TitleInvariant`, adds to
  `NameInv` that all copies of a resource have one name (`OneName`), which
  the policy's worker must not change: the resource that a copy of the policy names in
  some place, in its spec or among the applied conditions, is in this policy and has the
  name that its kind has there in every version (`BelongsAt`). The name that a condition
  got from an attempt that failed need not (`InVain`); no `Save` follows one. A hypothesis
  like `NeverRename` is needed: an edit that keeps the resources' names in their places
  and renames a condition renames its resource, and a resource of that name may have been
  left behind before. Renames to names that were never used are not covered.

`AlertsPolicyProofs` proves of the AlertsPolicy controller `TypeCorrect`;
`LeakInvariant`, whose parts are those of the conditions and a `DeletionSoFar`;
`IntentSurvives`, `Spec => UserIntentSurvives`: what a reconcile of a dozen calls
writes back differs from what the users wrote in the names of resources only; and
`NothingLeft`, `Spec => NothingOutlives`: the finalizer goes after a loop over the
applied conditions in which no error was collected, and nothing brings back a
resource that is on its way out.

It also proves `NoneTwice`, `Spec => []NoDuplicatePolicies`, if no
search fails and renamings go forward in a strict order (`Renaming(order)`). Without
the latter a policy whose creation was lost can be left behind by a rename and met
again by the rename back. `TitleInv` is inductive with `TypeOK` and `LeakInv`. Titles
in New Relic, the worker's, the informer's and the API server's copy follow each
other in the order (`CopiesInOrder`, `PoliciesInOrder`). All copies that record a
policy record the same one, and only it has their title (`OnePolicy`). What makes this
inductive is the worker that reads the cache before its own last save has arrived
there: its copy knows of no policy, but has the title under which the policy was
recorded (`IdToCome`), so that its search finds that policy (`SearchFinds`).

`AlertsPolicyClaimsProofs` proves `AppliedTrue`, `Spec => []AppliedIsTrue`, for users who
never go back (`NeverBack(order)`, for any order on what they write). Of the `Versions`
of a policy, each edit leads to a later one and changes what `Equals` compares; no
channel is removed; a title, a condition or a condition's name that was given up does
not return; and a condition's name stays at its index. All but the last is what the
code needs. `Reconcile` compares the spec with `AppliedSpec` and nothing else, so a
reconcile that changed New Relic or a resource and could not save leaves a trace that
only a later edit repairs: after an edit back to the recorded version `Equals` holds and
the trace stays, and a channel that such a reconcile linked is not in `AppliedSpec` and
so never unlinked. The last lets the proof call a condition by its index; that
conditions which change places are served as well is not covered. `PolicyFaults`
satisfies the hypothesis, and the invariants below were checked on it. They come in
three parts, each inductive with `TypeOK`, `LeakInv` and those before it.

- `CopiesInvariant`: the worker's copy is no newer than the informer's and that no newer
  than the resource, and what any of them records no newer than what it asks for
  (`VersionsInOrder`); the id and the `AppliedSpec` are recorded together
  (`RecordedTogether`); a resource name in a spec is the one recorded for that condition
  (`NamesInPlace`); and a worker whose `Update` would be accepted has what the resource
  records (`WorkerKnows`).
- `PolicyInvariant`: New Relic's title is that of a version between the recorded one and
  the one that the last reconcile has read (`TitleKept`); its channels lie between those
  of the two (`LinksKept`); and a worker close to its save has made both right
  (`WorkerTells`).
- `ConditionsInvariant`: recorded names are given out once (`NamesGiven`); a resource
  that was recorded for a condition which the spec still has is not on any worker's
  way to deletion (`StillKept`), it lives, and both it and the lagging cached copy hold
  a version in between (`ResourcesKept`); and of a worker that has met no error, every
  condition it has processed has a resource of its own with its spec (`WorkerDone`).
  The last is about the loop's progress: a condition is left alone because the cached
  copy has its spec, and this is right because the resource's spec lies between the
  cached and the wanted one, which are equal and so leave no version in between.

When `Equals` holds there is no version between the recorded one and the spec, so each
"in between" above is an equality, which is the theorem.

`AlertsChannelProofs` proves of the channel controller, under its
`ConstantsAssumption`: `TypeCorrect`; `LeakInvariant`, whose four parts are those of the
conditions without the ids (an id may be reused once nothing refers to it, and no
part needs that it is not); `IntentSurvives`, `Spec => UserIntentSurvives`; `NoLeak`,
`Spec => NoRecordedLeak`: the worker that releases holds the recorded id, and its
channel is gone unless the deletion itself failed; and `NoneTwice`,
`Spec => []NoDuplicates`, of all users: until the creation, every channel of the
spec's name is on the list of those still to delete (`Cleared`).

The hypotheses of these theorems are about users and faults, and the runs' instances
satisfy them: `ConditionLiveness` and `PolicyFaults` edit forward and let no search
fail, `AdmittedConditions` has edits that follow an order, and `LegacyPolicy` never renames a
condition (its edit to another name is one to another kind). Each inductive
invariant was model-checked on the instances before it was proved.

What is only model-checked: `AppliedIsTrue` of the legacy Policy (its argument is that
of the AlertsPolicy, with the condition controllers as second writers of the resources),
`ClaimsAreTrue` under the legacy Policy (the proofs of the claims in
`ConditionClaimsProofs` rest on edits that go forward and on `DistinctNames`),
`AdmittedReachNewRelic`, and liveness, which is out of the prover's reach together with
`ENABLED`.

## Plan

Done: the four condition controllers, alone, behind their webhooks and under the
legacy Policy controller; their abstract specification with the refinement checked
and proved; the AlertsPolicy and AlertsChannel controllers; type correctness, what
deletions leave and what users' changes survive, proved of all of them; that none of
them makes two of a thing in New Relic, each under its hypotheses; and that a
status tells the truth, proved of the conditions and of the AlertsPolicy. Next, in this order:

1. Proofs: `AppliedIsTrue` of the legacy Policy, along the argument for the
   AlertsPolicy; its `ClaimsAreTrue`; `AppliedTrue` of the AlertsPolicy for conditions that change places.
2. The composition of the AlertsPolicy controller with the condition controllers
   and the garbage collector, as for the legacy Policy.
3. Pure operators over bounded inputs: `Equals` on lists of channels, `diffIntSlice`
   and the resolution of resource names, each against a reference definition.
4. The policies' and the channels' webhooks on the controllers' own updates, with a
   secret that goes.

## Not modelled

The generated code, the test doubles, the manifests and the process start-up have
no behaviour of their own to check. The texts of errors (but for the one that the webhooks look for), logging, New Relic agent
transactions, and the translation of a spec into API input are left out. The
webhooks of policies and channels are modelled as far as the controllers rely on
them: the default of `AppliedSpec` and the refusal of duplicate conditions; their
checks of key, secret and incident preference look at one field each. Hashes are
taken to be injective.
