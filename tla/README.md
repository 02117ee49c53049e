# Formal models of the RDS DBaaS operator

The operator offers Amazon RDS databases to a DBaaS platform. It drives a second
operator, the ACK RDS controller, and AWS. What it has to get right is therefore
not in one function but between writers: it installs, starts and stops the ACK
controller, adopts every database of an AWS account, gives each a password that
three places must agree on, and takes all of it down again, while its caches lag,
its calls fail, and it is restarted. The modules here model that, one action per
call the code makes, and check it with TLC; TLAPS proves what is listed under
*Proofs* for every value of the constants.

`tlc -config inventory_faults.cfg MCInventory` runs one of the configurations,
`tlapm InventoryProofs.tla` checks a module of proofs.

## The system

| Part | State it keeps | Operations | Talks to |
|---|---|---|---|
| RDSInventory reconciler, `controllers/rdsinventory_controller.go` | finalizer, `SpecSynced` condition and `status.instances` of the RDSInventory; Secret `ack-user-secrets`, ConfigMap `ack-user-config`, replicas of the ACK Deployment; the AdoptedResources; username, password and Secret of each adopted DBInstance; the password in AWS | `SetupWithManager` (scales the ACK controller to zero), finalizer, teardown, `validateAWSParameter`, `installRDSController`, `adoptDBInstances`, `syncDBInstancesStatus`, the deferred condition | API server through caches, AWS directly; woken by RDSInventories and DBInstances |
| RDSInventory webhook, `api/v1alpha1/rdsinventory_webhook.go` | none | `ValidateCreate` lists the inventories | the manager's cache |
| RDSInstance reconciler, `controllers/rdsinstance_controller.go` | finalizer, phase and `ProvisionReady` of the RDSInstance; the DBInstance and its credential Secret | finalizer, deletion, `createOrUpdateDBInstance`, `setCredentials`, `syncDBInstanceStatus` | needs a Ready inventory; the ACK controller acts on its DBInstance |
| RDSConnection reconciler, `controllers/rdsconnection_controller.go` | the Secret `<name>-credentials` and the ConfigMap `<name>-configs` of each connection, its references and its `ReadyForBinding` | `checkDBInstanceStatus`, `checkDBConnectionStatus`, `createOrUpdateSecret`, `createOrUpdateConfigMap`, the deferred condition | reads what the other two write; woken by RDSConnections and DBInstances |
| DBaaSProvider reconciler, `controllers/dbaasprovider_controller.go` | the cluster-scoped DBaaSProvider | creates it once per start, owned by a ClusterRole | lifecycle manager, garbage collector |
| Credential helpers, `controllers/credential.go` | none | usernames, database names, binding types, passwords | used by the reconcilers |
| AWS client, `controllers/rds/dbinstance.go` | none | describe and modify | AWS |
| Manager, `main.go` | caches, leases | starts the above; resync every 180 minutes | |

What makes this hard:

* *Three writers per database.* The credential Secret, AWS and the DBInstance get a
  password one after the other (`rdsinventory_controller.go` 483-507). A crash, a
  refusal or a conflict in between must be repaired by the next pass and must never
  be published.
* *Caches.* Each Get and List of the reconcilers is answered by an informer. Whether
  a stale answer is harmless differs from one call to the next: a write is refused by
  its resource version, a Create with a fixed name by the name; a Create with
  `GenerateName`, and a NotFound that lets the teardown go on, by nothing.
* *A controller that is both tool and subject.* The operator stops the ACK controller
  at every start and as a part of every teardown, and needs it to finish others'
  finalizers.
* *Nothing watches* AWS, the credential Secret, the AdoptedResources or the
  Deployment; progress comes from requeues, errors and the resync.
* *One reader of three writers.* A connection copies a password, an endpoint and a
  reference that three others write, at different times, and nobody watches the
  inventory or the credential Secret for it. A DBInstance whose status is not there
  yet ends the process (`rdsconnection_controller.go` 167).
* *Check then act* across processes: the webhook and the API server, the
  DBaaSProvider and the ClusterRole that owns it.

`PROJECT.json` lists these hazards with the line at which each one bites and the
properties that are aimed at it.

## Modules

| Module | What it has |
|---|---|
| `InventoryState` | constants, variables and value types of the inventory's system; `Seen` (the cache or the stored object), `Stored` |
| `InventoryReconciler` | the reconciler: one action per call of a pass, its failures, restarts and standbys |
| `InventoryCluster` | everything around it: user, informers, ACK controller, Deployment controller, garbage collector, AWS |
| `InventorySystem` | both together: `Init`, `Next`, fairness, the properties |
| `MCInventory` | symmetry for TLC |
| `MasterCredential` | the abstract specification of what the operator promises of the master credentials of one database |
| `InventoryProofs`, `AgreementProofs`, `ClaimProofs`, `TeardownProofs` | proofs about `InventorySystem`: types; credentials, and that it implements `MasterCredential`; what is adopted; teardown and readiness |
| `InventoryWebhook`, `MCWebhook`, `WebhookProofs` | the webhook with several inventories and concurrent requests |
| `DBInstanceParameters` | the parameters of a RDSInstance and the tables of `credential.go` and `setConfigMap`, without state |
| `InstanceReconciler`, `MCInstance`, `InstanceProofs` | the RDSInstance reconciler with its DBInstance, Secret and database; its parameters are those of `DBInstanceParameters` |
| `ConnectionReconciler`, `ConnectionProofs` | the RDSConnection reconciler with what it publishes, and the inventory, the DBInstance and the user around it |
| `DBaaSProvider`, `MCProvider`, `ProviderProofs` | the registration of the operator, and the form the platform gets with it |

Operators that are only there to be exchanged for a definition, to see that a
property notices a plausible bug, are marked `mutant of`.

### The RDSInventory reconciler

`pc` names the worker's next call. A pass starts at `idle` when the key is queued,
goes through the calls in the order of the source, and ends at `done`, where
`UpdateReadyCondition` models the deferred write of the condition. A `return...`
closure of the code is an operator of the same name: `Updating`, `Failed`,
`NotReady`, `Requeue`, `Ready`. The worker's local variables (`copy`, `cred`,
`live`, `todo`, `batch`, `cur`, `pw`, `waiting`) are variables because everything
else may happen between two calls.

| Code | Actions |
|---|---|
| `SetupWithManager` | `SetupWithManager`, `StandbySetup` (a second replica: leader election comes later) |
| `checkFinalizer` | `AddFinalizer`, `DeleteAdopted`, `StopController`, `DeleteSecret`, `DeleteConfigMap`, `RemoveFinalizer` |
| `validateAWSParameter` | `ValidateAWSParameter` |
| `installRDSController` | `CreateOrUpdateSecret`, `CreateOrUpdateConfigMap`, `StartController`, `WaitForController` |
| `adoptDBInstances` | `DescribeDBInstances`, `ListManaged`, `CreateAdoptedResource`, `AdoptionRequested`, `ListAdopted`, `FillConnectionInfo`, `SkipDBInstance`, `SetCredentials`, `ModifyDBInstance`, `SaveDBInstance`, `AdoptionChecked` |
| `syncDBInstancesStatus`, `updateInventoryReadyCondition` | `SyncInstances`, `UpdateReadyCondition` |
| errors of any call, conflicts, the end of the process | `CallFails`, `Conflict`, `Restart` |

Abstractions. A set of credentials, a password, an identifier is a model value. A
resource version is the value of the object: an Update with a copy that is equal to
the stored object succeeds. The action `Conflict` gives the other outcome, of an
object that was changed and changed back or touched in a field the model leaves out.
Each status in which AWS refuses a modification is `busy`. masterUsername and dbName
are one field. The AdoptedResources of one pass are created in any order, as AWS may
list the databases in any; so are the DBInstances handled, one after the other. A
call that fails has no effect; a call that takes effect and whose answer is lost is a
`Restart` after it. `NoNameLeft` is the bound `MaxCopies` at work: a Create with no
name left in the model fails.

### The other modules

`InventoryWebhook` takes a pass of the reconciler for one step, since its question
is who owns the installation, and lets several inventories be requested at once, checked
against a cache of any age. `OnlyOne` is what the webhook's message claims; two concurrent
requests break it (`webhook_race`). The history variable `raced` says whether the last
admission was in a race: answered from an old list, or while another request was admitted
and not stored. `OnlyOneUnlessRaced` and `ReadyUnlessRaced` say that nothing else breaks
the rule, and that it holds again from the next admission on that is in none. No code
reads `raced`.

`InstanceReconciler` has the same shape as `InventoryReconciler`; the inventory is
its readiness. A parameter map is a function from parameter names to texts: `Valid`
and `Applied` are `setDBInstanceSpec`, which refuses what is missing or not of its
type and leaves alone what is not given, so that an optional parameter that the user
removes stays in the DBInstance. The username is generated once, from the engine of
that moment, and the user may edit the engine. `status.instanceInfo` is
`ParseDBInstanceStatus`; the fields of a DBInstance's status come with one update, and
one of them stands for all.

`ConnectionReconciler` is about one name: a RDSConnection that is deleted and made
again with another identity (`Uids`), and databases of its identifier that follow one
another (`Databases`). A password and an endpoint are named after the database they
belong to, so that what has been copied from different ones shows. A pass of the
inventory is one step (`SyncInstances`, `InventoryWaits`, `SecureDB`). `Panic` ends the
process; what a start does to the ACK controller is in `InventoryReconciler`, and
here nothing is assumed of when the ACK controller writes a status. `Ownable` is what
`SetControllerReference` does with an owner that is there already: it compares kind and
name and not the UID, so that a new connection takes over what the old one had, and
refuses the Secret of a RDSInstance of the same name.

`DBaaSProvider` has one key, one event per start of the operator, and a lifecycle
manager that creates and removes ClusterRoles. `InstanceParameterSpecs` is the form it
registers with the platform.

### What is promised of credentials

`MasterCredential` has three variables: whether the DBInstance refers to its Secret, the
password in the Secret, the password of the database. Secret and database are prepared in
as many attempts as it takes; the reference comes last, when they agree; from then on
neither changes, until the DBInstance goes. `InventorySystem!Master(o)` maps an adopted
DBInstance to it and `InstanceReconciler!Master` one that a RDSInstance provisions. That
DBInstance names its Secret from its creation on, before there is a database, and usually
after the Secret is there; when a cache still showed a Secret that had been collected, it
comes to refer to one when a later pass makes it. In the model it refers to its Secret
when both are there, and the only steps that publish are those over a Secret that agrees,
or before there is a database. `MasterCredentials` is the implementation, checked as a
property of both systems and proved of both, of the second with an up-to-date cache of
DBInstances. `ConnectionReconciler` relies on it: there, the Secret of a DBInstance does
not change.

## What the runs check

Passing runs:

| Run | Properties | What is varied | States |
|---|---|---|---|
| `inventory_faults` | `TypeOK`, `CredentialAgreement`, `NoOrphans`, `ReadyConsistent`, `PasswordStable`, `MasterCredentials` | a fault of three kinds, lagging DBInstances and credential Secrets, credentials that change, deleted DBInstances | 2.4 M |
| `inventory_claims` | `AdoptOnce`, `ClaimUnmanaged`, `ForeignUntouched` | RDSInstances that provision meanwhile, the user's own AdoptedResources, busy databases, a standby, a reinstalled ACK controller, room for duplicates | 3.4 M |
| `inventory_progress` | `DeletionCompletes`, `EventuallyAdopted`, `FinalizersServed` | a failed call, a conflict, a restart or an uninstalled ACK bundle, credentials that come and go | 0.3 M |
| `webhook_admission` | `OnlyOneUnlessRaced`, `ReadyUnlessRaced` | three inventories, two requests at a time, a lagging cache | 2.3 k |
| `provider_registration` | `TypeOK`, `Offered`, `EventuallyRegistered`, `EventuallyCleaned` | two versions, a crash, failed calls | 688 |
| `instance_faults` | `TypeOK`, `NothingLeft`, `CredentialsKept`, `MasterCredentials` | two faults of three kinds, edits of engine and parameters, invalid ones, a removed inventory, failures of AWS, lagging Secrets | 4.0 M |
| `instance_progress` | `DeletionCompletes`, `EventuallyMirrored` | edits, invalid ones, an inventory that is not Ready for a while, a failed call or a restart, lagging Secrets | 0.9 M |
| `connection_bound` | `TypeOK`, `BoundWhenIdle`, `RefsKept`, `ForeignSecretKept`, `EventuallyBound` | two databases and two connections of one name, adoption, an inventory that comes and goes, a RDSInstance of the name, a restart or a failed call, lagging ConfigMaps | 1.3 M |

Runs that show a disagreement between the code and what the repository says of it
(`findings` in `PROJECT.json` quotes both):

| Run | What TLC finds |
|---|---|
| `inventory_restarted` | The operator restarts before the first pass of a teardown, or while the teardown waits for the ACK controller to finalize the AdoptedResources. It stops the ACK controller at start-up and never starts it for an inventory that is being deleted: the deletion never ends. |
| `inventory_twice` | A pass that reads AdoptedResources from a cache that has not seen the last Create adopts a database twice. |
| `webhook_race` | Two requests are validated before either is stored. |
| `instance_orphan` | A deletion whose cache has not seen the DBInstance sets the phase Deleted and leaves the DBInstance. |

These properties hold under a premise that the code does not secure, and would fail
without it:

* `DeletionCompletes` of the inventory assumes `Served`: as long as the inventory is
  being deleted and AdoptedResources of the operator's are left, the ACK controller's
  Deployment is not scaled to zero. `inventory_restarted` checks the same without the
  premise (`DeletionSurvives`). It assumes too that an ACK bundle somebody uninstalls comes
  back in the end; until then each pass of the teardown fails.
* `EventuallyRegistered` assumes that no pass of the provider reconciler meets the
  resource of the version before (`Handover`). The pass takes it for its own and ends;
  when the old ClusterRole goes the resource goes with it, and as update and delete
  events are ignored nothing makes the operator register again.
* `NoOrphans` is checked, and proved, with an up-to-date cache of the ACK Secret. With
  `ackSecret` in `Lagging` TLC finds a teardown that has not seen the Secret the pass before
  it created: it skips the deletion, and the Secret stays after the inventory is gone.
* `BoundWhenIdle` is checked with an up-to-date cache of the credential Secrets. They
  are not watched: with `dbSecret` in `Lagging` a pass may copy the password of a
  database that is gone from a cache that is late, and the connection stays Ready with
  it until the next resync.
* `CredentialsKept` and `MasterCredentials` of a RDSInstance assume that a RDSInstance of
  the name is made again only when the Secret of the last one has been collected
  (`CreateInstance`). Otherwise `setCredentials` would use the old Secret, and make
  another one with another password when it has gone. What the cache of Secrets shows is
  not part of the premise: it may go on showing the Secret that has been collected. The
  pass then makes none and writes a DBInstance that refers to none. The ACK controller
  cannot provision it; a later pass makes the Secret (`EventuallyMirrored`), so that no
  database ever has another password.
* `EventuallyBound` assumes that the status of the DBInstance is there from some time on.
  Nothing in the code keeps the connection from reading it before and ending the process
  (`Panic`), at each start again.

`Offered` is about tables and not about steps: what the provider's form asks for, what
`setDBInstanceSpec` and `validateAWSParameter` need, and what `setConfigMap` can name,
are written down in four files, and nothing in the code keeps them together.

### Bounds

`DBIds` has one identifier: the code treats identifiers independently of each other
except that a pass which fails for one of them does not go on to the next, and that
failure is among the faults. `MaxCopies` is how many generated names an identifier
has; one is enough where duplicates are not the question, since `Fresh` gives a name
out again when nothing of it is left, and two lets them happen. Two passwords tell a
kept one from a new one, two credentials a mixed installation from a consistent one.
`MaxFaults` bounds the faults of a behaviour; two, in `instance_faults`, let a fault hit
the repair of another one, and `inventory_faults` has one, besides caches of two kinds that
lag. Nothing else is bounded: the user creates and deletes, and AWS moves,
without end. A run names in `Lagging`, `Events` and `Faults` only what its question is
about; the union of the runs takes every action. In `connection_bound` two databases and two
identities are one more than what a pass can have read; they are used over and over, as
soon as nothing shows them any more. `MaxInFlight`, `MaxVersion`,
`MaxCrashes` and `MaxErrors` bound the webhook's and the provider's models in the same
way. `CHECK_DEADLOCK FALSE` stands in the provider's configuration only, where an
uninstalled operator has nothing left to do.

### Fairness

Weak fairness of `Reconcile` as a whole: the queue hands out a key it holds and each
call returns; no choice among the worker's calls is assumed. Of `SetupWithManager`,
and of `Start` in the other models: the kubelet starts the operator again. Of each
informer: it catches up. Of `Resync`: `SyncPeriod` is set in `main.go`; a connection
needs it, as nothing tells it that its inventory has become Ready. Of the ACK
controller, the Deployment controller, the garbage collector and AWS, one object at a
time: they are level-triggered and retry. Nothing is assumed of the user, the
administrator, or of any fault. `EventuallyAdopted` has one more premise, that the
passes do not lose the race of `SaveDBInstance` against the ACK controller's status
write for ever: each ModifyDBInstance makes the database busy, which the ACK
controller writes into the DBInstance that the pass is about to update, so that
without the premise the pass may conflict and start over without end. That is a
weakness of the code and not of the model, and is listed as a hazard.

## Proofs

A theorem holds for all values of the constants that satisfy the module's assumption
(`ConstantsAssumption`, `InstanceAssumption`, `ConnectionAssumption`, `WebhookAssumption`,
`ProviderAssumption`): any number of databases and of duplicates of each, any events, any
number of faults, any `Lagging`. Whatever else is assumed is listed here, and is about
which caches may lag or which faults may happen. Each premise is needed: with any of the
caches, faults or requests it excludes let in, TLC refutes the property, if not for the
constants of a run then for others of that size.

| Theorem | States | Premise |
|---|---|---|
| `InventoryProofs!TypeCorrect` | `Spec => []TypeOK` | none |
| `AgreementProofs!Agreement` | `Spec => []CredentialAgreement` | none |
| `AgreementProofs!Stability` | `Spec => PasswordStable` | none |
| `AgreementProofs!Mastered` | `Spec => MasterCredentials` | none |
| `ClaimProofs!ForeignSafe` | `Spec => ForeignUntouched` | none |
| `ClaimProofs!OnlyUnmanaged` | `Spec => ClaimUnmanaged` | DBInstances up to date |
| `ClaimProofs!AdoptedOnce` | `Spec => []AdoptOnce` | AdoptedResources and DBInstances up to date |
| `TeardownProofs!FinalizerGuards` | `Spec => []NoOrphans` | the four kinds the teardown removes up to date, no `undeploy` |
| `TeardownProofs!StopsLast` | `Spec => FinalizersServed` | no `standby` |
| `TeardownProofs!ReadyOverOne` | `Spec => ReadyConsistent` | ACK Secret and ConfigMap up to date |
| `WebhookProofs!OneInventory` | `Spec => []OnlyOneUnlessRaced` | none |
| `WebhookProofs!ReadyIsInstalled` | `Spec => []ReadyUnlessRaced` | none |
| `InstanceProofs!TypeCorrect` | `Spec => []TypeOK` | none |
| `InstanceProofs!FinalizerWorks` | `Spec => []NothingLeft` | DBInstances up to date |
| `InstanceProofs!CredentialsHold` | `Spec => []CredentialsKept` | the same |
| `InstanceProofs!Mastered` | `Spec => MasterCredentials` | the same |
| `ConnectionProofs!TypeCorrect` | `Spec => []TypeOK` | none |
| `ConnectionProofs!RefsAreKept` | `Spec => []RefsKept` | none |
| `ConnectionProofs!ForeignSecrets` | `Spec => ForeignSecretKept` | none |
| `ConnectionProofs!ReadyIsBound` | `Spec => []BoundWhenIdle` | credential Secrets up to date |
| `ProviderProofs!TypeCorrect` | `Spec => []TypeOK` | none |
| `ProviderProofs!FormIsEnough` | `Spec => []Offered` | none |

Seldom is one of these properties inductive. What the invariants add, and why:

*The inventory.* `TypeOK` is inductive as it stands, since it says of `pc` what the
worker's variables hold at each call (`cred` during the installation, `cur` between
`SetCredentials` and `SaveDBInstance`); `SeenType` derives the type of every read, from a
cache or not. `CredentialAgreement` only speaks of DBInstances that have a reference;
`AgreementInv` adds how they get there. `Reserved`: the name of an AdoptedResource that is
not adopted yet is used by nothing, in no cache. `SecretsKnown` and `DBsKnown`: what a
stale cache shows is what is stored, or is about a database that is gone. `Described`:
what was adopted and AWS has not described is gone, so that no username is made up for an
adopted DBInstance. `Modifying`: between `SetCredentials` and the Update, the Secret, and
then AWS, hold the password on its way, so that the one a repeated `ModifyDBInstance` sets
is that of the Secret. Most steps are covered by one relation, `Steady`, of what a step
that sets no credentials may change; the seven calls of the adoption have a lemma each.
For `MasterCredential`, each step is one of its steps or changes none of its variables
(`MasterStep`); `Quiet` says that a step that changes a DBInstance leaves the Secrets
alone, so that the reference is set over what was there before.

*What is adopted.* `AdoptedOnce` needs `Unclaimed`: as long as a pass is creating
AdoptedResources, what is left of its list has neither one of the operator's nor a
DBInstance made of one. It is the list that `ListManaged` has made from two caches, and
nobody else adds to what it is about. Both caches matter: `inventory_twice` shows it of
the AdoptedResources', and with `dbs` in `Lagging` an inventory that is made anew does not
see the DBInstance that the teardown of the last one has left, and adopts its database
again. `OnlyUnmanaged` needs `Unmanaged`: a database on the list has no DBInstance but of
an AdoptedResource. A RDSInstance that provisions one between the description of the
databases and the list does no harm, since its DBInstance is there before AWS has the
database. `ForeignSafe` needs no premise: a password is on its way to AWS only for a
DBInstance of the operator's own, whose Secret has it already (`BatchKnown`, `Modifying`),
no other DBInstance has a Secret (`SecretsKnown`), and no AdoptedResource of the user's is
deleted (`NotDeleted`).

*The teardown.* `Guarded`: the finalizer is there through all of the installation, and
only the teardown runs for a deleted inventory. `Removed`: what the teardown has removed
stays removed until the finalizer is. `CacheSound`: a stale inventory does not mislead. A
pass that sees an inventory without the finalizer adds it, or is refused, before it
installs anything; one that sees the last inventory, deleted, may tear down under a new
one, but not after a pass has put the finalizer on it. So the inventory, the DBInstances
and the credential Secrets may lag. The other four may not (`RemovedKinds`): with any one
of `adopted`, `deployment`, `ackSecret` or `ackConfig` in `Lagging`, TLC finds a teardown
that misses it. `undeploy` puts a Deployment with one replica back. `StopsLast` needs no
cache to be up to date. It rests on `Cleared`: an AdoptedResource that waits for the ACK
controller is one that `DeleteAdopted` has seen, and a cache that has shown it goes on
showing it until it is gone, so that no pass gets beyond `DeleteAdopted` before. A second
replica stops the ACK controller at its start, in the middle of everything. An uninstalled
bundle takes the controller away too, but not by a step of the operator's. `ReadyOverOne`
rests on `Held`: from the first write on, the Secret has the credentials of this pass, the
ConfigMap too after the second, and nobody else writes them. With `ackSecret` in `Lagging`
the cache shows to a pass the credentials of the pass before last, which happen to be the
right ones again, and it writes nothing.

*The webhook.* Unless the last admission was in a race, `OneExisting` counts an inventory
from its admission on: what is stored or about to be is one. An admission that is in no race
has found every inventory absent, in a cache that is up to date, and no other request
admitted, whatever happened before (`CleanAdmission`); that is why the rule holds again
after it. One in a race has nothing to show.

*The RDSInstance.* `Finalized`: the finalizer is there, stored and in what the cache shows
of a RDSInstance in use, while a pass makes or changes a DBInstance. `Current`: a pass that
deletes has not read a RDSInstance from before one in use. `Provisioned`: a
database is there only behind a managed DBInstance that agrees with it and its Secret, a
DBInstance only behind the finalizer. That a DBInstance has its Secret is not part of it,
since a pass with an old cache of Secrets writes it without; the ACK controller then makes
no database. `DesiredType` is what `setDBInstanceSpec` keeps: a
username that was generated is never generated again, and texts that are no number do
not come in. `instance_orphan` shows that the cache of DBInstances has to be up to date for
`NothingLeft`; the inventory's, the Secret's and the RDSInstance's own need not.

*The RDSConnection.* `Known`: a connection whose identity is on anything the operator has
read or written is the one that the cache shows, and its predecessors are over for good.
`Owned`: what a connection has come to own it keeps, in the cache and stored, and the
references are set over what it owns. That is all `RefsKept` needs, whichever caches lag.
`ForeignSecretKept` holds of each step, a write over a Secret that the cache has not shown
included, which `AlreadyExists` or the resource version refuses. `BoundWhenIdle` needs more:
once a pass has seen the database there is, none sees an earlier one (`SeenOnce`); the
copies of a pass that nobody is going to repeat are what the caches show (`Copies`); the
Secret and the ConfigMap, once made from this database, stay so (`MineKept`); and a pass
that ends Ready, unless it is to be repeated, leaves both (`WrittenSoFar`, `Rests`). The
caches that are watched may lag, since what they bring queues the connection again.

*The provider.* `FormIsEnough` is about tables, and TLC evaluates it for forms with few
entries; the lemma it rests on, `AcceptedIsValid`, says that `setDBInstanceSpec` takes every
form the platform accepts, with any texts under any of the names.

Model-checked only, and for good: the liveness properties, which rest on fairness and
ENABLED and are out of the prover's reach. That the model's abstract steps (the passes in
`InventoryWebhook`, the surroundings in `ConnectionReconciler`) stand for what the detailed
models do is argued in the modules' comments and not proved.

## Not modelled

* The conditions that `syncDBInstanceStatus` copies from a DBInstance, and the texts of
  conditions: wording, and no decision depends on them.
* The names a user gives: a DBInstance's identifier is fixed, two RDSInstances of one name
  in two namespaces do not occur. The code has no guard that a property could be about.
* The pages of `DescribeDBInstances`: they are one read. An identifier is on one page, and
  the identifiers are handled independently of each other.
* What the ACK controller's pod was started with: `startRDSController` leaves a running one
  alone when the credentials change, so that no property could hold of it.
* The database name of a DBInstance whose engine the user edits: the code follows the
  edit, AWS does not.
* `installCRD`: it reads a file and writes it at start-up.
* The entropy and character sets of `credential.go`: a password is any member of
  `Passwords`.
* Flags, logging, health checks, generated code, deployment manifests.
* What AWS and the ACK controller do beyond what this operator can notice: failovers,
  replicas, retries of their own.

## Plan

Done: the four reconcilers, the webhook, the surroundings of the inventory; the abstract
specification of the master credentials and that both reconcilers that write them
implement it; every safety property that a passing run checks proved. To come, in this order:

1. The installation of the ACK controller (absent, installed, running) as an abstract
   specification that the webhook's model and the inventory's share, and the proof that
   both implement it.
2. That a database which `ConnectionReconciler` sees secured keeps its Secret, as a step of
   `MasterCredential`, so that what the connection relies on is the same specification.
3. `DescribeDBInstances` by pages, with the proofs of `AgreementProofs` over it.
