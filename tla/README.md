# Specifications of the bare-metal fulfillment operator

TLA+ models of the operator in `src/`, checked with TLC and proved about with
TLAPS.  Paths below are relative to `src/`; `instance controller` is
`internal/controller/baremetalinstance_controller.go` and `pool controller` is
`internal/controller/baremetalpool_controller.go`.

## 1. The system

The operator turns `BareMetalPool` and `BareMetalInstance` objects into
allocated, provisioned and powered machines.

| part | state it keeps | operations |
|---|---|---|
| instance controller, allocation (`instance controller` 102-302, 700-784) | the object's `externalHostID`, `hostClass`, two finalizers, `Allocated`, phase | add finalizer, choose a host, claim it, record it; on deletion tear down, release, drop finalizers |
| instance controller, power and restart (414-452, 535-698) | `runStrategy`, `restartTrigger`, `PowerSynced` in the status | compare, set power, trigger a reboot, wait for it |
| provisioning of instances and pools (454-533, 786-824; `pool controller` 551-567, 644-699) | the job history in the status; the lifecycle itself is `pkg/provisioning` of osac-operator, not in this repository | trigger a job once, poll it, record the result |
| pool controller (100-549) | `spec.hostSets`, `status.hostSets`, phase, one finalizer | scale instances up and down, wait for them, tear them down |
| inventory clients (`internal/inventory`) | none of their own: the claim is a label of an Ironic node or the `consumerRef` of a BareMetalHost; with it go the labels the instance asks for, of which some outlive it.  OpenStack's service client is re-created after an authentication error | find a free host, assign, unassign |
| host locks (`internal/inventory/lock.go`) | one mutex per host ID, in memory | TryLock, Unlock |
| management clients (`internal/management`) | the service client, re-created after an authentication error | power state, set power, reboot, is the reboot over |
| profiles (`internal/profile/profile.go`) | a registry filled at start | load, get, validate parameters |
| wiring (`cmd/main.go`), manifests, charts | none that changes after the start | |

**How they interact.**  Both controllers are driven by a work queue of object
keys.  A handler reads the object from an informer cache that lags behind the
API server, calls the inventory or the management backend, writes the object
with optimistic concurrency, and finally writes its status.  One worker handles
a key at a time; different instances are handled concurrently and meet in the
inventory, where the host locks are all that keeps them apart on OpenStack.
The pool controller talks to the instances only by creating, deleting and
listing them.

**What is hard.**  The inventory and the API server are two stores, written one
after the other, with failures, lost replies, conflicts and crashes between the
writes.  Decisions are taken on cached objects.  An Ironic node is read and then
patched unconditionally.  Nothing but a `RequeueAfter` wakes an instance that
waits for a host, a lock or a job.  `PROJECT.json` lists each such place as a
hazard with the properties that watch it.

**What must hold.**
- Allocation: a claim is made in one step as far as others can see, on a host
  that is free; a host is allocated to one instance at a time; every claim and
  every label that is not to stay is undone by some deletion, and a label that
  is to stay stays; a lock is never left locked; a host is not given back before
  its teardown; an instance that waits is served when there is a host; a
  deletion ends.
- Power and restart: the power state converges to `runStrategy`, each new
  `restartTrigger` restarts the machine once, none is lost.
- Pools: the number of instances converges to the replicas, `Ready` means that
  all replicas are ready, no instance survives the pool, the teardown runs
  after the instances are gone.
- Provisioning: at most one job runs at a time for an object and version.

## 2. Modules

| module | models |
|---|---|
| `HostClaims` | the abstract contract of `inventory.Client` (`internal/inventory/client.go`): claims and releases are indivisible, only a free host is claimed |
| `HostAllocation` | the instance controller's allocation and release with the locks, both inventory clients and the labels they write, the API server's object versions, the informer cache and the work queue |
| `HostAllocationProofs` | types, locks, what a claim may rely on, and the refinement of `HostClaims` |
| `HostReleaseProofs` | the release: after the teardown, and without the labels that stay |
| `HostRecordProofs` | every claim is recorded, when the cache is up to date |
| `HostBookingProofs` | a host is booked once, managed for its holder, and its labels are recorded |
| `ManagedHost` | the management clients (`internal/management`) and the host behind them: what each call reads and orders, and how an Ironic node or a BareMetalHost then changes by itself |
| `PowerSync` | power and restart of a provisioned instance: the rest of `reconcileManagement`, `reconcilePower`, `reconcileRestartTrigger`, `syncBareMetalInstanceStatus`, over `ManagedHost`, with the cache and the work queue |
| `PowerSyncProofs` | types, and that a restart of a careful user is neither lost nor done twice |
| `PowerQuietProofs` | a machine at rest has what the spec asks for |
| `PoolReplicas` | the pool controller with its two caches, the instances it owns, and its provision job |
| `PoolReplicasProofs` | types, the finalizer, and the order of the teardown |
| `PoolReadyProofs` | scaling, one job at a time, what Ready means, and what a pool at rest has |
| `MCHostAllocation`, `MCClaims`, `MCProgress`, `MCPowerSync`, `MCPoolReplicas` | instances, hosts, labels and settings for TLC |

One run often asks the same question in several settings (backend, lag,
faults).  `MCClaims`, `MCProgress` and `MCPowerSync` instantiate their module
once for each setting (`INSTANCE ... WITH`) and the initial state chooses one for
good; `PoolReplicas` has its settings, the environments, as a constant.

`HostAllocation` and `PowerSync` divide the instance controller between them.
They are not composed: the first shows that a host is managed for its holder
only (`HolderManages`, under the conditions it names), the second
takes one instance and a host nobody else orders anything of.  `PoolReplicas`
sees an instance only as its object comes, gets ready, and goes; that it does get
ready and go is what the other two are about, and is assumed there.

### HostAllocation and the code

| variable | in the code |
|---|---|
| `versions[i]` | the object of instance `i`: the first element is the version in the informer cache, the last the one at the API server |
| `queue`, `timers` | the work queue, and the keys `RequeueAfter` and the error back-off will add to it |
| `pc[i]` | the next remote call of the worker that handles `i`; `idle` without one |
| `obj[i]`, `oldstatus[i]`, `requeue[i]` | the locals `bareMetalInstance`, `oldstatus`, and whether `result, err` make the key come back |
| `current[i]` | whether the copy's `resourceVersion` is still the stored one |
| `hostLocks` | the host IDs whose mutex is locked |
| `owner` | `bareMetalInstanceId` in a node's `osac_labels`, or `spec.consumerRef.name` |
| `bare` | the nodes without an `osac_labels` map |
| `labels` | per host, the keys of the other labels that instances gave it |
| `faults` | failures so far |
| `lag` | not in the code: how many versions the cache may be behind in this behaviour, fixed from the start |

Steps are remote calls: between two of them a worker touches only its own
copy, so each action is one remote call with the local code after it, and other
workers can act before the next.

| actions | code |
|---|---|
| `ReconcileMissing`, `ReconcileInventory`, `ReconcileManagement`, `HandleDeletion` | `Reconcile` up to the first remote call: cached read, dispatch of `handleUpdate` and `handleDeletion` |
| `AddInventoryFinalizer`, `FindFreeHost`, `NoFreeHost`, `SelectHost` | `reconcileInventory` 190-237 |
| `TryLock`, `TryLockFails`, `AfterUnlock` | 239-244, 750-754 and `lock.go`; the deferred Unlock is part of each action that ends the handler |
| `GetForClaim`, `InitLabels`, `Claim`, `ClaimConflict`, `ClaimReplyLost` | `AssignHost`: Ironic's get, patch that creates the label map, patch that claims and labels; Metal3's get and update |
| `SetHostClass`, `ClearHost` | 274-301 |
| `AddManagementFinalizer`, `ManageHost` | `reconcileManagement`; provisioning, restart and power are one step that ends ready, in progress or failed |
| `DeprovisionPending`, `DeprovisionDone`, `DropManagementFinalizer`, `GetForRelease`, `Release`, `ReleaseReplyLost`, `DropInventoryFinalizer` | `handleDeletion` and `UnassignHost` |
| `Reconnect` | `reconnect` of the OpenStack client and the second attempt of the operation |
| `EndReconcile`, `UpdateStatus`, `StatusConflict`, `StatusRequestFails` | the status update at the end of `Reconcile` |
| `UpdateRejected`, `RequestFails` | a conflict or NotFound of an `Update`; any other error of a remote call |
| `Create`, `Delete`, `EditByOther`, `DeliverEvent`, `FireTimer`, `Restart` | users and the pool controller, the informer, timers, a new process |

Two details of the client library decide what is stored and are modelled:
an `Update` decodes its response into the copy, so the status the handler had
set before it is replaced by the stored one (`Decoded`), and an object that is
being deleted disappears with its last finalizer (`Swept`).

Labels are keys: `Claim` adds those of `inventorylabels`, the pool's and
`inventorypersistentlabels`, `Release` removes those of `inventorylabels`.
Values are left out because no code compares them.  `Reconnect` starts an
operation over as often as there are faults left; the code does it once per
call, so the model allows more.

**Assumptions.**  One process is active (the manager runs with
`--leader-elect`, `config/manager/manager.yaml:64`,
`charts/operator/templates/deployment.yaml:52`).  The inventory's Metal3 client
reads the API server and not a cache (`client.New`, `metal3.go:92`).  A
provisioning provider is configured.  Nobody edits `externalHostID` or
`hostClass` by hand.  Which hosts fit an instance is a constant (`Matching`): the
attributes of hosts, and the label maps of an instance, do not change.  A UID is
used once.

### PowerSync and the code

| variable | in the code |
|---|---|
| `versions`, `obj`, `current`, `oldstatus` | as in `HostAllocation`, for one object |
| `queued`, `timer` | the key in the work queue; the delay after which it comes back: an error's back-off ("soon") or a `RequeueAfter` ("later") |
| `pc` | the next remote call |
| `acted` | `powerNeedsRequeue` |
| `result` | the `ctrl.Result` and the error the handler returns |
| `host` | a `HostStates` record of `ManagedHost` |
| `served` | history: reboots ordered since `restartTrigger` last changed (2 stands for more) |
| `careful` | history: every edit so far waited for the one before it, and there has always been a run strategy |
| `edits`, `faults`, `lag` | edits and failures so far; how far the cache may be behind, as in `HostAllocation` |

`PowerSynced` is one value per combination of status, reason and message the
code writes, so that `DeepEqual` of two statuses is equality.

| actions | code |
|---|---|
| `ReconcileNoRestart`, `ReconcileHalted`, `ReconcileRestart` | `reconcileManagement` 336-351 and `reconcileRestartTrigger` up to its remote call |
| `RestartComplete`, `RestartNotComplete` | `IsRestartComplete` and what follows (627-666) |
| `RestartRefused`, `TriggerRestart`, `ReadBeforeRestart` | `triggerRestart`; Metal3 reads the host and then patches it |
| `GetPower`, `ReportPower` | the first `GetPowerState` (353-369), with and without a run strategy |
| `PowerRefused`, `SetPower`, `ReadBeforePower` | `reconcilePower`'s `SetPowerState` |
| `RefreshPower` | the second `GetPowerState`, `syncBareMetalInstanceStatus`, and the decision to requeue or to be Ready (375-411) |
| `RequestFails`, `RestartReplyLost`, `PowerReplyLost` | a failed call; a call that took effect and failed |
| `EndReconcile`, `UpdateStatus`, `StatusConflict`, `StatusRequestFails` | the end of `Reconcile` |
| `EditSpec`, `DeliverEvent`, `FireTimer`, `HostWorks`, `Restart` | users, the informer, delays, the host by itself, a new process |

**Assumptions.**  Provisioning is over and the management finalizer is there.
Nobody but this worker orders anything of the host.  A `RequeueAfter` (ten
seconds by default, `cmd/main.go`) outlasts the lag of the cache and the time
Ironic needs to show an order it has accepted; a back-off need not.  The
priority queue of controller-runtime may bring a delayed key forward when an
event queues it, which loses the delay.  The ten-hour resync of informers is
left out.  Errors of one call have one message.

### PoolReplicas and the code

| variable | in the code |
|---|---|
| `env` | not in the code: what can happen around the controller in this behaviour |
| `config` | whether the pool's profile is registered, fits, and has a pool template, and whether there is a provisioning provider: the reconciler's fields, fixed while a process lives |
| `pools`, `lists` | the versions of the pool, and of its instances, from the one in each cache to the stored one |
| `jobs` | the provision jobs of the provider |
| `queued`, `timer` | the pool's key in the work queue; a `RequeueAfter` or a back-off |
| `pc` | the next remote call, or the next look into a cache |
| `obj`, `current`, `oldstatus`, `again` | the worker's copy, whether its `resourceVersion` is the stored one, `oldstatus`, and whether `result, err` make the key come back |
| `held`, `made`, `turn` | `currentBareMetalInstances`: the listed instances a worker still counts, the placeholders it has appended, and the host type its loop is at |
| `edits`, `failures` | what the bounds of `env` count |

| actions | code |
|---|---|
| `ReconcileMissing`, `RefuseProfile`, `NeedsFinalizer`, `HandleUpdate`, `HandleDeletion` | `Reconcile` up to the first remote call: cached read, `validateProfile`, the list of the instances |
| `StoreFinalizer`/`AddFinalizer` | `ensureFinalizer` |
| `Create`/`ScaleUp`, `Delete`/`ScaleDown`, `Scaled` | `reconcileBareMetalInstances`, one request at a time, and `updateStatusHostSets` |
| `Provision`, `Trigger`, `Flush`, `Poll` | `reconcileProvisioning` with the callbacks it gives to the lifecycle: is a job due, the duplicate-job check, start, flush of the status, poll |
| `CheckReady` | `checkBareMetalInstancesReady` and the end of `handleUpdate` |
| `RemoveInstance`, `TeardownPending`, `TeardownDone`, `DropFinalizer` | `handleDeletion` after its list |
| `EndReconcile`, `UpdateStatus`, `StatusConflict`, `StatusFails` | the status update at the end of `Reconcile` |
| `Rejected`, `RequestFails`, `ReplyLost` | a conflict or NotFound, another error, a call that took effect and failed |
| `DeliverPool`, `DeliverList`, `FireTimer`, `Restart` | the informers with the predicate of `SetupWithManager` (only the removal of an instance wakes the pool), delays, a new process |
| `EditHostSets`, `DeletePool`, `DeleteByOther`, `InstanceReady`, `InstanceUnready`, `InstanceGone`, `CollectGarbage`, `JobSucceeds`, `JobFails` | users, the instance controller, Kubernetes' garbage collection by owner reference, the provider |

`Create` is the request and `ScaleUp` the request with the code after it, so that
`ReplyLost` can have the request alone; so it is with each pair above.

**Assumptions.**  One pool.  A random suffix gives a name that neither a cache nor
the worker knows (`Fresh`).  A host type is listed once in `spec.hostSets`; zero
replicas stand for a host type that is not listed, for which the code deletes
the instances in the same way.  The lifecycle
(`pkg/provisioning` of osac-operator) is not in this repository: the model has
what the controller's callbacks and its use of the results show, lets a failed
poll end the reconcile or not, and lets a back-off and a teardown take any time.
The desired config version is a function of the replicas (`NoVersion` before
it is computed); a reconcile puts it in its copy of the status, where the response
of the finalizer's `Update` may replace it by the stored one (`AddFinalizer`).  An
instance is ready or not; the pool's conditions, which restate the phase, are left out.

## 3. Runs

Deadlock is not checked: once every object is gone, or is Ready and nobody
edits it, nothing more need happen.
The mutants (operators whose comment starts with "Mutant") are plausible bugs,
each of which some property detects; no run uses them.

| run | instance | shows |
|---|---|---|
| `claims` | four settings of `HostAllocation`, see below | locks exclude and are released; a claim is written on what was read; no release before the teardown; claims and labels are recorded; persistent labels stay; one holder per host; `HostClaims` is implemented |
| `progress` | fair scheduling; two settings | `InstanceServed`, `DeletionCompletes` |
| `power` | fair scheduling; two settings of `PowerSync` | `NoRestartLost`, `RestartOnce`, `QuietIsConverged`, `HastyPowerConverges` |
| `pool` | fair scheduling; seven environments of `PoolReplicas` | scaling, readiness, one job, the order of deletion, convergence |
| `double_booking` | Metal3, 3 instances, 1 host, deletion at any time | a violation, see findings |
| `host_leak` | OpenStack, 2 instances, 1 node, cache one version behind | a violation |
| `ready_not_allocated` | OpenStack, 2 instances, 1 node, 1 fault | a violation |
| `labels_kept` | OpenStack, 2 instances, 1 node, one key in both label maps | a violation |
| `restart_lost` | Metal3, all run strategies, 2 edits that wait for the last, no fault | a violation |
| `ready_unverified` | OpenStack whose orders may show late, any 2 edits, no fault | a violation |
| `pool_overshoot` | one replica, list cache one version behind | a violation |
| `pool_ready` | two replicas, one instance stops being ready | a violation |

**Settings of `claims`.**

| setting | instance | for |
|---|---|---|
| `lagging` | OpenStack, 2 instances, 1 node that fits, 2 workers, cache one version behind, deletion at any time, of one instance | decisions taken on stale objects |
| `crowded` | OpenStack, 3 instances with a label each, 1 node that fits, 2 workers, nobody deletes an instance between its choice of a host and its allocation, at most 1 deletion | one holder per host |
| `ironic` | 2 instances with labels, 2 nodes, 1 worker, 1 fault anywhere, a re-authentication included | what is left after a failure |
| `metal3` | the same, 1 BareMetalHost, 2 workers | the same, and conflicts |

Every property is checked in every setting, and names the conditions it needs.
`ClaimsStayRecorded` and `LabelsStayRecorded` need `lag = 0` (`host_leak`).
`BookedOnce` and `HolderManages` need `Orderly`: besides, nothing has failed, and
nobody has deleted an instance that had chosen a host and not been allocated it
(`double_booking`).  A failure is as bad: a release that is tried again, because the
finalizer could not be dropped, also removes the claim somebody has made since.
The labels need `Orderly` or at most two instances: when a third one is allocated a
host that two others disputed, the one whose claim was released finds the host
taken, clears `externalHostID`, and never comes back for its labels.  So `crowded`
is the setting where the first two say something, and `ironic` and `metal3` the
ones where records are put to the test by failures.

**Settings of `progress`.**  `contended`: OpenStack, two instances, one node, two
workers, no fault.  `failing`: Metal3, two instances, one host, one worker, one
fault.  The properties are stated for instance `i1`: exchanging the instances
maps behaviours to behaviours.

**Settings of `power`.**  `hasty`: Metal3, all run strategies, no `restartTrigger`
at first, any two edits, cache one version behind, one fault.  `patient`:
OpenStack whose orders may show late, Always and Halted, three edits that wait
for the last, cache up to date, one fault.  `NoRestartLost` and `QuietIsConverged`
speak of careful users, whom both settings have; `RestartOnce` also needs
`lag = 0` and no failure, which only `patient` has.

**Environments of `pool`.**  `Edited`: one edit between two replicas of one type
and one of the other, with one failed request, lost reply or restart.  `StalePool`,
`StaleList`: one of the caches is a version behind.  `Disturbed`: an instance
stops being ready or somebody else deletes it.  `EditedJob`, `FailedJob`: a pool
template, with an edit between one replica and none, or with a failed job, a failed
request, a lost reply or a restart; an edit and a failure together are left to the theorems.
`Rewired`: every profile, and a restart that brings another one or takes the provider
away.  `ScalesTowardsReplicas`, `TeardownIsLast`, `QuietIsComplete`,
`ReadyIsEarned` and `PoolConverges` are stated for a list that is up to date
(see `pool_overshoot`), `OneJob` for a pool that is.  The job is started before the
status that remembers it is stored, so each edit and each failure may cost the
record of a running job; `OneJob` says that it costs no more than one.  With an old
pool a second job runs without either: the duplicate-job check reads the same cache.

**Bounds.**  `lag` (`poolLag`, `listLag`) says how far a cache may be behind, and
`MaxLag` bounds it; `MaxFaults` (`failures`) the failures of a run, `Instances`, `Hosts` and `Jobs` the
objects; UIDs are used once, which bounds the runs of `HostAllocation`.  Two
instances and one host give every race for a host and for its lock; a third is
needed only to see a host allocated twice, since the one that frees the host by
mistake is gone.  `TwoBorn` and `OneDeleted` of `MCClaims` say how many of the
three are created, or deleted, in a setting.  A lag of one is a worker acting on a
version that has been replaced; it is what the informer shows after any write of
this controller.  One fault at an arbitrary point, followed by the retry, is what
crash and failure handling is written for.

In `PowerSync`, `MaxEdits` bounds what users change, and two edits give each
interesting order of a power change and a restart, in either direction; three
are needed for a restart after a change that followed another.  With
`EditWhenSettled` users wait until the last edit is done.  `RestartOnce` is
stated for careful users up to the first failure, and needs a cache that is up to date: an order
and the status that remembers it are two requests, and after a stale read or a
lost update the code reboots again; so it does after a failed
`IsRestartComplete` (`instance controller` 618-626), which turns the condition's
reason into PowerSyncFailed.  `NoRestartLost` speaks of users who wait and give a
run strategy: without one see `restart_lost`; users who do not wait can change
`restartTrigger` while a restart is under way, which then counts for both.
Metal3 never hides an order, so convergence is checked there with any edits,
and for Ironic with users who wait.

In `PoolReplicas` two replicas (`MaxReplicas`) are the fewest for which one
request of several can fail, three names let an instance be replaced while it
goes, and with three jobs the two that one edit or failure allows are not all there
are.

**Fairness** (`FairSpec`, `MCSpec`).  A worker whose calls return goes on; the
informer keeps delivering; timers fire.  `Start` of `HostAllocation` is strongly
fair: the work queue is first in, first out, so a key does not lose its turn for
ever although the workers are busy again and again.  A deprovision job that is
polled for ever finishes (strong fairness of `DeprovisionDone`).  Users are not
fair: nobody has to create or delete anything, so an instance may wait for as
long as instances that nobody deletes hold all hosts, which `InstanceServed`
allows.

In `PowerSync` the same parts are weakly fair: one key has the queue to itself,
and the host finishes what it was ordered.  Edits and faults are not fair; their
bounds make "for good" mean something.

In `PoolReplicas` the controller's parts are weakly fair too.  Of its environment
it is assumed that an instance becomes ready or, when it is being deleted, goes
(`InstanceServed`, `DeletionCompletes` and `PowerConverges` are about that), that
garbage collection and jobs end (weak fairness), and that a back-off and a
teardown that are looked at again and again end (strong fairness).

The liveness settings of `HostAllocation` have a cache that is up to date.  With
`lag = 1` `InstanceServed` fails even when nobody deletes an instance that is
being allocated: the claim that the `host_leak` run finds leaves the host held by
an instance that looks for a free one.

## 4. Proofs

From the assumptions the modules name about their constants (`NoHost` is no
host, `NoInstance` no instance, the backend is one of two, the bounds are
numbers, labels are sets of labels, ...), for every value of the constants:

| theorem | module | statement |
|---|---|---|
| `TypeCorrect` | `HostAllocationProofs` | `Spec => []TypeOK` |
| `LockExclusionHolds`, `NoLockLeakHolds` | `HostAllocationProofs` | the lock discipline |
| `ClaimStillFreeHolds` | `HostAllocationProofs` | what AssignHost read is true when its patches arrive |
| `HostClaimsImplemented` | `HostAllocationProofs` | `Spec => ImplementsHostClaims`, the refinement |
| `ReleaseAfterManagementHolds` | `HostReleaseProofs` | `Spec => []ReleaseAfterManagement`, for any lag |
| `PersistentLabelsKept` | `HostReleaseProofs` | `NoOverlap => (Spec => PersistentLabelsStay)`: unless a key is in both maps |
| `ClaimsRecorded` | `HostRecordProofs` | `Spec => []ClaimsStayRecorded`: with an up-to-date cache, whatever fails |
| `BookedOnceHolds`, `HolderManagesHolds` | `HostBookingProofs` | one holder per host, which is managed for it only, while all is in order |
| `LabelsStayRecordedHolds` | `HostBookingProofs` | `Spec => []LabelsStayRecorded`: while all is in order, or for two instances whatever fails |
| `TypeCorrect` | `PowerSyncProofs` | `Spec => []TypeOK` |
| `NoRestartLostHolds` | `PowerSyncProofs` | `Spec => NoRestartLost`, for any lag, edits and failures |
| `RestartOnceHolds` | `PowerSyncProofs` | `Spec => []RestartOnce`, for either backend and any edits of careful users |
| `QuietIsConvergedHolds` | `PowerQuietProofs` | `Spec => []QuietIsConverged`, for any lag and failures |
| `PoolTypeCorrect` | `PoolReplicasProofs` | `Spec => []TypeOK` |
| `PoolInstancesUnderFinalizer` | `PoolReplicasProofs` | `Spec => []InstancesUnderFinalizer`, for any lag of both caches |
| `PoolTeardownIsLast` | `PoolReplicasProofs` | `Spec => []TeardownIsLast` |
| `ScalesTowardsReplicasHolds` | `PoolReadyProofs` | `Spec => ScalesTowardsReplicas`, an action property |
| `OneJobHolds` | `PoolReadyProofs` | `Spec => []OneJob`: one job, and one more for each edit and failure |
| `ReadyIsEarnedHolds` | `PoolReadyProofs` | `Spec => []ReadyIsEarned` |
| `QuietIsCompleteHolds` | `PoolReadyProofs` | `Spec => []QuietIsComplete` |

**Locks and claims.**  The inductive invariant `IInv` has three parts.  `TypeOK`
alone is not inductive, because `TryLock` keeps `hostLocks` a set of hosts only if
the worker has a host (`WorkerHasHost`).  `LockInv` adds to the two lock properties
that every worker inside its critical section has its host locked
(`LockedIsHeld`): it is what makes a second TryLock fail.  `ClaimInv` adds to
`ClaimStillFree` that a node without labels has no owner (`BareIsFree`) and
that a worker about to write a claim has a node with labels
(`ClaimIsLabelled`): together with `LockInv`, no other worker can write the
host in between.  Every step is one of a few shapes, which the lemmas
`LockLeave`, `LockStay`, `LockReturn`, `LockGoOn`, `ClaimFrame`, `ClaimWrite`
and their like treat once.  The refinement then needs no more than
`ClaimStillFree`: a write of a claim finds the host free, a claim of
`HostClaims`, or its own, a stutter.

**Release.**  A worker decides on a cached object, which may be any version
still in the informer's way.  `OverForGood` says that a teardown which is over in
one of them is over in the stored object, so that what the cache says of it may
be believed; `WorkersOK` says for each place in the handlers what the copy looked
like, and that a copy which is current has the stored life and finalizers, which
is what an update that succeeds relies on.  Together (`ReleaseInv`) they are
inductive without any bound on the lag.

**Records.**  `RecordInv` is about an up-to-date cache (`Prompt`).  With it a
worker's copy names the stored host and finalizers even when the object has been
edited since (`WorkersRecord`): only this worker writes them.  So a claim is
written for a host that is stored, `ClearHost` forgets a host only while the
instance claims none, and the finalizer goes only after the release.

**Bookings.**  `Orderly` can be lost and never comes back (`OrderlyBefore`): failures
only grow, and an instance deleted while choosing stays one, because its worker's
next update conflicts and no later worker sees it alive.  So an invariant need only
hold while `Orderly` does.  `ClassInv` ties the host class to the handlers: an
instance that has one has a host, only `setClass` gives it one, and the steps that
manage a host have the management finalizer behind them.  `BookingInv` then says
that an instance with a host class holds its host in the inventory, except between
its own release and the drop of its finalizer, which no conflict can separate
while all is in order; and that the class is stored for a claim that is still
there.  A claim, a release or a label reset changes only the host its worker has
locked, when that is free or the worker's own (`BookingFrame`), so nobody else's
holding is disturbed.  `Orderly` is no convenience: after a failed
`DropInventoryFinalizer`, or on a stale cache, the deletion releases its host a
second time, and by then it may be another instance's (`metal3.go:274`,
`openstack.go:374`).

**Labels.**  A label is kept for an instance whose record the host is (`Keeps`), and
which either holds the host or has lost it with nobody left to take it: every other
instance ever created is being deleted, and its worker is past claiming (`Bereft`).
The latter is where a failed or early deletion may lead when there is no third
instance.  `GivingUp` says why a record is never lost too early: a worker clears its
host only because another instance holds it, and drops its finalizer only from a
host without its labels; both stay true under the lock.

**Restarts.**  A restart is acknowledged by a worker that read `PowerSynced`
False/Progressing earlier, so `RestartInv` carries the meaning of the condition
along.  `StoredServed` says it of the stored object: a pending restart with a
Progressing condition has been ordered.  `Sound` says of every version and of
the worker's copy that a run strategy is set and that Ready comes with
PowerSynced True; a user who waits for Ready therefore changes `restartTrigger`
only while the condition is True, and `StoredServed` survives the edit.  That
is where careful users are needed, and where `restart_lost` fails without them;
the invariant is `CarefulInv == careful => RestartInv`, and who was careless once
stays so.  `CurrentCopy` says that a worker whose copy is current began with the
stored object, so that a status update that succeeds cannot acknowledge an edit it
has not seen, and `WorkerServed` follows what such a worker is about to write from
call to call.  `OrderInv` is the converse, for `RestartOnce`: an order that is not
acknowledged is in the stored condition, or about to be stored by a worker whose
copy is current, so no worker orders a second reboot for it.

**Rest.**  `QuietInv` follows the host: what it is ordered leads to one power
(`Rests`), and where the power read is the desired one and nothing shows, nothing
else is to come (`Agrees`), because Ironic works on one order at a time and a
BareMetalHost hides none (`Tidy`).  A stale copy differs from the stored object in
the run strategy only if the older one had been settled and nothing was done since
(`StaleInv`): that is how a worker that acts on it does no harm.  `WakeInv` says who
comes back: a worker with an old copy is followed by another, and an object that is
not settled has an event or a timer on its way.

**Pools.**  `FinalizerInv`: no version the cache may show has a finalizer that the
stored pool has lost while it exists, nor is being deleted while the stored one
is not; so a worker that scales has the finalizer stored (`Kept`), and one that
deletes sees a pool that is being deleted.  `TeardownInv` orders the versions:
once not live, never live again.  A worker that has seen the deletion has no live
version behind it in the cache, hence no later worker can scale, and a list that is up to
date and empty stays empty.

`ScaleInv` compares what the worker counts with what is stored: the instances it
did not find listed are at most the placeholders it has appended, and exactly those,
with every instance it counts alive, as long as nobody else deletes.  `JobInv` counts
the running jobs that a status does not record (`Unrecorded`): there are never more
than edits and failures together (`Trouble`), in the stored status or in the copy of a
worker that may start one.  A worker starts a job only when its copy shows none that
runs, so then no more than `Trouble` do; the job is in its copy, and comes into the
stored status unless the copy is outdated, by an edit, or the flush is lost, by a
failure: one more `Trouble` either way.
`ReadyInv`: every version and copy of an unedited pool asks for the same replicas,
and one that says Ready says it of instances that are all there and, undisturbed,
stay.  `QuietInv` looks at a pool that nothing stirs (no event, timer, unseen version
or instance that goes).  A write, a failure or a restart stirs it, so in a step that
leaves it unstirred a worker has the stored pool before it; what is left to show is
that such a worker comes back, writes something, or finds the pool complete.

**Only model-checked.**  Every invariant and every action property of a passing run
has its theorem.  The liveness properties (`InstanceServed`, `DeletionCompletes`,
`HastyPowerConverges`, `PoolConverges`, `PoolDeletionCompletes`) rest on fairness
and are beyond the prover.  `PersistentLabelsStay` is proved for label maps that do not
overlap, which is what `labels_kept` shows to be needed.

## 5. Findings

1. `double_booking`.  `UnassignHost` removes the consumer of a host whoever it
   is (`metal3.go:274`, `openstack.go:374`), and `handleDeletion` calls it for
   the host the instance has chosen, claimed or not.  Instance A chooses a
   host, B claims it first, A is deleted before it finds out: B's host is free
   in the inventory while B uses it, and C is allocated it.  `metal3.go:244-245`
   says the claim "prevents double-booking".
2. `host_leak`.  `AssignHost` acts on the cached `externalHostID`.  If the
   cache has not seen the update that cleared it, and the host has become free,
   the instance claims it although its stored object no longer names it.  The
   update of `HostClass` conflicts, the instance chooses another host, and its
   deletion releases only that one.  `instance controller` 700 says deletion
   "frees the host in the inventory".
3. `ready_not_allocated`.  `HostClass` and `Allocated=True` are stored by two
   requests.  After the loss of the second one the instance goes on to `Ready`
   with `Allocated=False` for good.
4. `labels_kept`.  The allocation lets `inventorypersistentlabels` override
   `inventorylabels`; the deletion removes every key of `inventorylabels`
   (`instance controller` 757), the overridden ones included.
   `baremetalinstance_types.go:70-71` says persistent labels "will remain on the
   host after the BareMetalInstance is deleted".
5. `restart_lost`.  PowerSynced False/Progressing means a restart under way in
   `reconcileRestartTrigger`; `syncBareMetalInstanceStatus` writes it for every
   power state that is changing.  When an instance without a run strategy restarts,
   its restart is over for `IsRestartComplete` once the reboot annotation has gone
   (`management/metal3.go:205-207`), and acknowledged while the machine is still powering on.
   The same reconcile writes the condition for that power-on and, since no
   run strategy asks for a power, sets Ready without a requeue (`instance controller`
   366, 409).  The next change of `restartTrigger` finds the condition, is taken for a
   restart under way, and is acknowledged without a reboot, against
   `baremetalinstance_types.go:90-91`.
6. `ready_unverified`.  The guard of `instance controller` 398-406 wants one more
   look after the recheck interval.  Its own status update has set PowerSynced
   True and wakes the key at once, so the second look is made immediately,
   skips the guard, and trusts the same stale reading.
7. `pool_overshoot`.  The replicas are counted in a cached list (`pool controller`
   357).  The pool's own status event can bring the next reconcile before the
   list shows the instance just created: another one is created, and the pool
   becomes Ready with too many, since the readiness check reads the same list and
   creations do not wake it.  Line 339 says the function creates or deletes
   instances "to match the desired replica count per hostType".
8. `pool_ready`.  A Ready pool is not requeued, and the predicate of
   `pool controller` 142 drops every update of an instance: one that stops being
   ready leaves its pool Ready, against `baremetalpool_types.go:34`, "the pool and
   all associated resources are ready".

## 6. Not modelled

- **The instance's own provision job.**  The same library runs it with the same
  callbacks as the pool's (`instance controller` 454-533, 786-824), which
  `PoolReplicas` has; in `HostAllocation` it is part of `ManageHost`, and its
  teardown is `DeprovisionPending` and `DeprovisionDone`.  The job history and
  the lifecycle are code of osac-operator, outside this repository.
- **The service clients' pointers.**  `reconnect` of the inventory client replaces a
  pointer other workers read without a lock; the pointer is one word, so a worker
  uses the old client or the new one, and both outcomes are in the model
  (`Reconnect`, `RequestFails`).  The management client's reconnect has a lock
  and the same retry, of operations that `PowerSync` already lets fail after they
  took effect.
- **Hosts' attributes and labels' values.**  Nothing here changes the former, and
  no code compares the latter.  What should happen when a host stops fitting
  between its choice and its claim, no code or document says.
- **Profiles** (`internal/profile/profile.go`): a registry filled once and a pure
  check of parameters.  `PoolReplicas` has what they decide, not how.
- **API types**: printed columns, `LastUpdated`, messages, and the conditions that
  only restate the phase.
- **Wiring** (`cmd/main.go`), manifests, charts, generated code, test helpers and
  logs: no behaviour of their own after the start.  The ten-hour resync of the
  informers would end some of the waits the findings describe; it is left out
  because nothing in the code relies on it.
