------------------------ MODULE InventoryReconciler -------------------------
(* The RDSInventory reconciler: one worker (MaxConcurrentReconciles is 1) on a *)
(* queue with one key. Each of its calls to the API server or to AWS is a      *)
(* step, so everything else runs between any two of them.                      *)
EXTENDS InventoryState

(* How a pass ends: the return... closures set the condition and the result,   *)
(* the deferred updateInventoryReadyCondition writes the condition. An error   *)
(* puts the key back in the queue, as Requeue does.                            *)
ClearScratch ==
    /\ cred' = "none" /\ live' = {} /\ todo' = {} /\ batch' = NoBatch
    /\ cur' = NoObject /\ pw' = "none" /\ waiting' = FALSE

Finish(ready, again) ==
    /\ pc' = "done"
    /\ outcome' = [ready |-> ready, again |-> again]
    /\ ClearScratch

Updating == Finish("Unknown", TRUE)
Failed == Finish("False", TRUE)
Requeue == Finish("False", TRUE)
NotReady == Finish("False", FALSE)
Ready == Finish("True", FALSE)

Goto(label) == pc' = label /\ outcome' = outcome

-----------------------------------------------------------------------------
(* Start of the operator and of a pass.                                        *)

\* stopRDSController and startRDSController, on the Deployment they have read.
ScaledByOne(d) == [d EXCEPT !.replicas = @ - 1]   \* mutant of ScaledToZero
ScaledToZero(d) == [d EXCEPT !.replicas = 0]

LeftAlone(d) == d                                  \* mutant of Started
Started(d) == [d EXCEPT !.replicas = 1]

(* SetupWithManager waits for the ACK controller's Deployment and scales it to *)
(* zero. It uses a client without a cache; the caches fill afterwards, and     *)
(* what they list at first is queued.                                          *)
SetupWithManager ==
    /\ pc = "setup"
    /\ deployment.present
    /\ deployment' = ScaledToZero(deployment)
    /\ cache' = [k \in Lagging |->
                    IF k = "deployment" THEN deployment' ELSE Stored(k)]
    /\ queued' = TRUE
    /\ Goto("idle")
    /\ UNCHANGED <<inventory, credential, ackSecret, ackConfig, objects, copy, scratch, faults>>

\* checkFinalizer decides between adding the finalizer, the teardown and the
\* installation.
FinalizerNotFirst(inv) ==                          \* mutant of FirstCall
    IF inv.phase = "live" THEN "validate" ELSE "deleteAdopted"
FirstCall(inv) ==
    CASE inv.phase = "live" /\ ~inv.finalizer -> "addFinalizer"
      [] inv.phase = "live" /\ inv.finalizer  -> "validate"
      [] inv.phase = "deleting"               -> "deleteAdopted"

\* The worker takes the key and reads the inventory.
GetInventory ==
    /\ pc = "idle" /\ queued
    /\ queued' = FALSE
    /\ copy' = Seen("inventory")
    /\ Goto(IF copy'.phase = "absent" THEN "idle" ELSE FirstCall(copy'))
    /\ UNCHANGED <<inventory, credential, install, objects, cache, scratch, faults>>

\* Every write of the inventory is an Update that fails with a conflict when the
\* copy is not the stored version.
AddFinalizer ==
    /\ pc = "addFinalizer"
    /\ IF copy = inventory
       THEN /\ inventory' = [copy EXCEPT !.finalizer = TRUE]
            /\ copy' = inventory'
            /\ queued' = QueuedByInventory
            /\ NotReady
       ELSE /\ Updating
            /\ UNCHANGED <<inventory, copy, queued>>
    /\ UNCHANGED <<credential, install, objects, cache, faults>>

-----------------------------------------------------------------------------
(* Teardown: the branch of checkFinalizer for an inventory being deleted.      *)

\* An AdoptedResource the ACK controller has seen carries its finalizer.
Terminated(state) == IF state = "pending" THEN "none" ELSE "deleting"

\* Those whose annotations name the inventory as owner, deleted already or not.
AnyAdoptedResource ==                              \* mutant of MyAdoptedResources
    {o \in Objects : Seen("adopted")[o] # "none"}
NotYetDeleted ==                                   \* mutant of MyAdoptedResources
    {o \in Owned : Seen("adopted")[o] \notin {"none", "deleting"}}
MyAdoptedResources == {o \in Owned : Seen("adopted")[o] # "none"}

\* The Delete of one that is gone already fails, and the rest is not tried. The
\* pass goes on only when none is left.
DeleteAdopted ==
    /\ pc = "deleteAdopted"
    /\ LET targets == {o \in MyAdoptedResources : Seen("adopted")[o] # "deleting"} IN
           IF MyAdoptedResources = {}
           THEN /\ Goto("stop")
                /\ UNCHANGED <<adopted, scratch, faults>>
           ELSE \E S \in SUBSET {o \in targets : adopted[o] # "none"} :
                /\ adopted' = [o \in Objects |->
                                 IF o \in S THEN Terminated(adopted[o]) ELSE adopted[o]]
                /\ IF S = targets
                   THEN Updating /\ faults' = faults
                   ELSE /\ Failed
                        /\ \/ (\E o \in targets \ S : adopted[o] = "none") /\ faults' = faults
                           \/ Fault("call")
    /\ UNCHANGED <<inventory, credential, install, dbs, dbSecret, aws, cache, queued, copy>>

\* stopRDSController without wait: no Deployment is an error, and so is the
\* conflict of an Update.
StopsOnce(seen) ==                                 \* mutant of StopFails
    ~seen.present \/ seen.replicas = 0
StopFails(seen) ==
    ~seen.present \/ (seen.replicas > 0 /\ seen # deployment)

StopController ==
    /\ pc = "stop"
    /\ LET seen == Seen("deployment") IN
       IF StopFails(seen)
       THEN Failed /\ deployment' = deployment
       ELSE /\ deployment' = IF seen.replicas > 0 THEN ScaledToZero(seen) ELSE deployment
            /\ Goto("deleteSecret")
            /\ UNCHANGED scratch
    /\ UNCHANGED <<inventory, credential, ackSecret, ackConfig, objects, cache, queued,
                   copy, faults>>

\* Get, then Delete and another pass, or the next resource when it is not found.
DeleteSecret ==
    /\ pc = "deleteSecret"
    /\ CASE Seen("ackSecret") = "absent" ->
              Goto("deleteConfigMap") /\ UNCHANGED <<ackSecret, scratch>>
         [] Seen("ackSecret") # "absent" /\ ackSecret = "absent" ->
              Failed /\ UNCHANGED ackSecret
         [] OTHER -> ackSecret' = "absent" /\ Updating
    /\ UNCHANGED <<inventory, credential, ackConfig, deployment, objects, cache, queued,
                   copy, faults>>

DeleteConfigMap ==
    /\ pc = "deleteConfigMap"
    /\ CASE Seen("ackConfig") = "absent" ->
              Goto("removeFinalizer") /\ UNCHANGED <<ackConfig, scratch>>
         [] Seen("ackConfig") # "absent" /\ ackConfig = "absent" ->
              Failed /\ UNCHANGED ackConfig
         [] OTHER -> ackConfig' = "absent" /\ Updating
    /\ UNCHANGED <<inventory, credential, ackSecret, deployment, objects, cache, queued,
                   copy, faults>>

\* Without its last finalizer the inventory is gone.
RemoveFinalizer ==
    /\ pc = "removeFinalizer"
    /\ IF copy = inventory
       THEN /\ inventory' = AbsentInventory
            /\ copy' = [copy EXCEPT !.finalizer = FALSE]
            /\ queued' = QueuedByInventory
            /\ NotReady
       ELSE /\ Updating
            /\ UNCHANGED <<inventory, copy, queued>>
    /\ UNCHANGED <<credential, install, objects, cache, faults>>

-----------------------------------------------------------------------------
(* validateAWSParameter and installRDSController.                              *)

ValidateAWSParameter ==
    /\ pc = "validate"
    /\ IF credential \in Creds
       THEN /\ Goto("createSecret")
            /\ cred' = credential
            /\ UNCHANGED <<live, todo, batch, cur, pw, waiting>>
       ELSE Failed
    /\ UNCHANGED <<inventory, credential, install, objects, cache, queued, copy, faults>>

(* controllerutil.CreateOrUpdate: Create fails when the cache has missed that  *)
(* the object exists, Update when the cached version is not the stored one,    *)
(* and nothing is written when the content is already right.                   *)
WriteFails(seen, stored) == seen # stored /\ seen # cred
CreateOnly(seen, stored) ==                        \* mutant of Written
    IF seen = "absent" THEN cred ELSE stored
Written(seen, stored) == IF seen = cred THEN stored ELSE cred

CreateOrUpdateSecret ==
    /\ pc = "createSecret"
    /\ IF WriteFails(Seen("ackSecret"), ackSecret)
       THEN Failed /\ UNCHANGED ackSecret
       ELSE /\ ackSecret' = Written(Seen("ackSecret"), ackSecret)
            /\ Goto("createConfigMap")
            /\ UNCHANGED scratch
    /\ UNCHANGED <<inventory, credential, ackConfig, deployment, objects, cache, queued,
                   copy, faults>>

CreateOrUpdateConfigMap ==
    /\ pc = "createConfigMap"
    /\ IF WriteFails(Seen("ackConfig"), ackConfig)
       THEN Failed /\ UNCHANGED ackConfig
       ELSE /\ ackConfig' = Written(Seen("ackConfig"), ackConfig)
            /\ Goto("start")
            /\ UNCHANGED scratch
    /\ UNCHANGED <<inventory, credential, ackSecret, deployment, objects, cache, queued,
                   copy, faults>>

StartController ==
    /\ pc = "start"
    /\ LET seen == Seen("deployment") IN
       IF ~seen.present \/ (seen.replicas = 0 /\ seen # deployment)
       THEN Failed /\ deployment' = deployment
       ELSE /\ deployment' = IF seen.replicas = 0 THEN Started(seen) ELSE deployment
            /\ Goto("wait")
            /\ UNCHANGED scratch
    /\ UNCHANGED <<inventory, credential, ackSecret, ackConfig, objects, cache, queued,
                   copy, faults>>

WaitForController ==
    /\ pc = "wait"
    /\ LET seen == Seen("deployment") IN
       CASE ~seen.present                -> Failed
         [] seen.present /\ ~seen.ready  -> Requeue
         [] seen.present /\ seen.ready   -> Goto("describe") /\ UNCHANGED scratch
    /\ UNCHANGED <<inventory, credential, install, objects, cache, queued, copy, faults>>

-----------------------------------------------------------------------------
(* adoptDBInstances.                                                           *)

\* All pages of DescribeDBInstances. An empty account skips the first half.
DescribeDBInstances ==
    /\ pc = "describe"
    /\ live' = {i \in DBIds : Alive(i)}
    /\ todo' = {i \in live' : aws[i].status # "deleting"}
    /\ Goto(IF live' = {} THEN "listAdopted" ELSE "listManaged")
    /\ UNCHANGED <<inventory, credential, install, objects, cache, queued, copy, cred,
                   batch, cur, pw, waiting, faults>>

\* A DBInstance or an AdoptedResource of the namespace has the identifier.
HasDBInstance(i) ==                                \* mutant of Covered
    \E o \in Objects : o[1] = i /\ Seen("dbs")[o].present
HasAdoptedResource(i) ==                           \* mutant of Covered
    \E o \in Objects : o[1] = i /\ Seen("adopted")[o] # "none"
Covered(i) ==
    \E o \in Objects : o[1] = i /\ (Seen("dbs")[o].present \/ Seen("adopted")[o] # "none")

\* The lists are made after AWS was described.
ListManaged ==
    /\ pc = "listManaged"
    /\ todo' = {i \in todo : ~Covered(i)}
    /\ Goto("adopt")
    /\ UNCHANGED <<inventory, credential, install, objects, cache, queued, copy, cred,
                   live, batch, cur, pw, waiting, faults>>

\* GenerateName gives each new AdoptedResource a name nothing has or had.
Fresh(o) ==
    /\ adopted[o] = "none" /\ ~dbs[o].present /\ dbSecret[o] = "none"
    /\ Seen("adopted")[o] = "none" /\ ~Seen("dbs")[o].present /\ Seen("dbSecret")[o] = "none"

CreateAdoptedResource(i) ==
    /\ pc = "adopt" /\ i \in todo
    /\ \E o \in Owned :
        /\ o[1] = i /\ Fresh(o)
        /\ adopted' = [adopted EXCEPT ![o] = "pending"]
    /\ todo' = todo \ {i}
    /\ waiting' = TRUE
    /\ UNCHANGED <<inventory, credential, install, dbs, dbSecret, aws, cache, queued, pc,
                   copy, cred, live, batch, cur, pw, outcome, faults>>

\* The bound MaxCopies: the Create fails when the model has no name left.
NoNameLeft(i) ==
    /\ pc = "adopt" /\ i \in todo
    /\ \A o \in Owned : o[1] = i => ~Fresh(o)
    /\ Failed
    /\ UNCHANGED <<inventory, credential, install, objects, cache, queued, copy, faults>>

AdoptionRequested ==
    /\ pc = "adopt" /\ todo = {}
    /\ IF waiting THEN Updating ELSE Goto("listAdopted") /\ UNCHANGED scratch
    /\ UNCHANGED <<inventory, credential, install, objects, cache, queued, copy, faults>>

\* The DBInstances with the label the AdoptedResources give them.
ListAdopted ==
    /\ pc = "listAdopted"
    /\ batch' = [o \in {p \in Objects : Seen("dbs")[p].present /\ Seen("dbs")[p].label}
                    |-> Seen("dbs")[o]]
    /\ Goto("secure")
    /\ UNCHANGED <<inventory, credential, install, objects, cache, queued, copy, cred,
                   live, todo, cur, pw, waiting, faults>>

Others(o) == [p \in DOMAIN batch \ {o} |-> batch[p]]

\* The DBInstances are handled one after the other, in the order of the list.
Handles(o) == pc = "secure" /\ o \in DOMAIN batch /\ cur \in {NoObject, o}

\* masterUsername and dbName come from what AWS has described.
NeedsUsername(o) == batch[o].username = "none" /\ o[1] \in live

FillConnectionInfo(o) ==
    /\ Handles(o) /\ NeedsUsername(o)
    /\ IF dbs[o] = batch[o]
       THEN /\ dbs' = [dbs EXCEPT ![o].username = "aws"]
            /\ batch' = [batch EXCEPT ![o].username = "aws"]
            /\ cur' = o
            /\ queued' = QueuedByDB
            /\ UNCHANGED <<pc, cred, live, todo, pw, waiting, outcome>>
       ELSE /\ IF dbs[o].present THEN Updating ELSE Failed
            /\ UNCHANGED <<dbs, queued>>
    /\ UNCHANGED <<inventory, credential, install, adopted, dbSecret, aws, cache, copy, faults>>

\* One that has a password is done, one that is not available has to wait.
SkipDBInstance(o) ==
    /\ Handles(o) /\ ~NeedsUsername(o)
    /\ batch[o].password \/ batch[o].status = "busy"
    /\ batch' = Others(o)
    /\ cur' = NoObject
    /\ waiting' = (waiting \/ ~batch[o].password)
    /\ UNCHANGED <<inventory, credential, install, objects, cache, queued, pc, copy, cred,
                   live, todo, pw, outcome, faults>>

\* The password of the credential Secret, or a new one when there is no Secret.
AnyPassword(o) == Passwords                        \* mutant of PasswordsFor
PasswordsFor(o) == IF Seen("dbSecret")[o] = "none" THEN Passwords ELSE {Seen("dbSecret")[o]}

\* The Create of a Secret that the cache does not show is refused.
SecretMissed(o) == Seen("dbSecret")[o] = "none" /\ dbSecret[o] # "none"

\* setCredentials creates the Secret that is missing; the references are set on
\* the copy of the DBInstance only.
SetCredentials(o) ==
    /\ Handles(o) /\ ~NeedsUsername(o)
    /\ ~batch[o].password /\ batch[o].status # "busy"
    /\ IF SecretMissed(o)
       THEN Failed /\ UNCHANGED dbSecret
       ELSE /\ pw' \in PasswordsFor(o)
            /\ dbSecret' = IF pw' = Seen("dbSecret")[o] THEN dbSecret
                                                       ELSE [dbSecret EXCEPT ![o] = pw']
            /\ cur' = o
            /\ Goto("modify")
            /\ UNCHANGED <<cred, live, todo, batch, waiting>>
    /\ UNCHANGED <<inventory, credential, install, adopted, dbs, aws, cache, queued, copy, faults>>

\* ModifyDBInstance, which AWS refuses unless the database is available.
ModifyIgnoringError ==                             \* mutant of ModifyDBInstance
    /\ pc = "modify"
    /\ aws' = IF aws[cur[1]].status = "available"
              THEN [aws EXCEPT ![cur[1]] = [status |-> "busy", password |-> pw]] ELSE aws
    /\ Goto("save")
    /\ UNCHANGED <<inventory, credential, install, adopted, dbs, dbSecret, cache, queued,
                   copy, scratch, faults>>
ModifyDBInstance ==
    /\ pc = "modify"
    /\ IF aws[cur[1]].status = "available"
       THEN /\ aws' = [aws EXCEPT ![cur[1]] = [status |-> "busy", password |-> pw]]
            /\ Goto("save")
            /\ UNCHANGED scratch
       ELSE Failed /\ UNCHANGED aws
    /\ UNCHANGED <<inventory, credential, install, adopted, dbs, dbSecret, cache, queued,
                   copy, faults>>

\* What setCredentials has set on the copy.
WithReferences(d) ==
    [d EXCEPT !.password = TRUE,
              !.username = IF d.username = "none" THEN "generated" ELSE d.username]

\* The Update of the DBInstance with the username and the password reference.
SaveDBInstance ==
    /\ pc = "save"
    /\ IF dbs[cur] = batch[cur]
       THEN /\ dbs' = [dbs EXCEPT ![cur] = WithReferences(@)]
            /\ batch' = Others(cur)
            /\ cur' = NoObject /\ pw' = "none"
            /\ queued' = QueuedByDB
            /\ Goto("secure")
            /\ UNCHANGED <<cred, live, todo, waiting>>
       ELSE /\ IF dbs[cur].present THEN Updating ELSE Failed
            /\ UNCHANGED <<dbs, queued>>
    /\ UNCHANGED <<inventory, credential, install, adopted, dbSecret, aws, cache, copy, faults>>

AdoptionChecked ==
    /\ pc = "secure" /\ DOMAIN batch = {}
    /\ IF waiting THEN Updating ELSE Goto("sync") /\ UNCHANGED scratch
    /\ UNCHANGED <<inventory, credential, install, objects, cache, queued, copy, faults>>

-----------------------------------------------------------------------------
(* syncDBInstancesStatus and the deferred write of the condition.              *)

SyncInstances ==
    /\ pc = "sync"
    /\ copy' = [copy EXCEPT !.instances = {o \in Objects : Seen("dbs")[o].present}]
    /\ IF copy = inventory
       THEN /\ inventory' = copy'
            /\ queued' = (queued \/ (copy' # copy /\ "inventory" \notin Lagging))
            /\ Ready
       ELSE /\ Updating
            /\ UNCHANGED <<inventory, queued>>
    /\ UNCHANGED <<credential, install, objects, cache, faults>>

EndPass(again) ==
    /\ queued' = (queued \/ again)
    /\ pc' = "idle" /\ outcome' = NoOutcome /\ copy' = AbsentInventory
    /\ UNCHANGED scratch

UpdateReadyCondition ==
    /\ pc = "done"
    /\ LET new == [copy EXCEPT !.ready = outcome.ready] IN
       IF copy = inventory
       THEN /\ inventory' = new
            /\ EndPass(outcome.again \/ (new # copy /\ "inventory" \notin Lagging))
       ELSE /\ UNCHANGED inventory
            /\ EndPass(TRUE)
    /\ UNCHANGED <<credential, install, objects, cache, faults>>

-----------------------------------------------------------------------------
(* Faults of the reconciler's surroundings.                                    *)

CallPCs == {"addFinalizer", "deleteAdopted", "stop", "deleteSecret", "deleteConfigMap",
            "removeFinalizer", "validate", "createSecret", "createConfigMap", "start",
            "wait", "describe", "listManaged", "adopt", "listAdopted", "secure", "modify",
            "save", "sync"}

\* The call fails, without an effect: the pass ends with an error.
CallFails ==
    /\ pc \in CallPCs
    /\ Fault("call")
    /\ Failed
    /\ UNCHANGED <<inventory, credential, install, objects, cache, queued, copy>>

\* Somebody has touched the object: the Update is refused and the pass repeated.
Conflict ==
    /\ pc \in {"addFinalizer", "removeFinalizer", "secure", "save", "sync"}
    /\ pc = "secure" => \E o \in DOMAIN batch : Handles(o) /\ NeedsUsername(o)
    /\ Fault("conflict")
    /\ Updating
    /\ UNCHANGED <<inventory, credential, install, objects, cache, queued, copy>>

\* The operator stops, between any two calls, and is started again.
Restart ==
    /\ pc # "setup"
    /\ Fault("restart")
    /\ pc' = "setup" /\ outcome' = NoOutcome /\ copy' = AbsentInventory
    /\ ClearScratch
    /\ queued' = FALSE
    /\ cache' = [k \in Lagging |-> Stored(k)]
    /\ UNCHANGED <<inventory, credential, install, objects>>

\* A second replica runs SetupWithManager, which does not wait for the leader's
\* lease, while this one reconciles.
StandbySetup ==
    /\ deployment.present
    /\ Fault("standby")
    /\ deployment' = ScaledToZero(deployment)
    /\ UNCHANGED <<inventory, credential, ackSecret, ackConfig, objects, cache, queued, pc,
                   copy, scratch, outcome>>

-----------------------------------------------------------------------------
Reconcile ==
    \/ GetInventory \/ AddFinalizer
    \/ DeleteAdopted \/ StopController \/ DeleteSecret \/ DeleteConfigMap \/ RemoveFinalizer
    \/ ValidateAWSParameter \/ CreateOrUpdateSecret \/ CreateOrUpdateConfigMap
    \/ StartController \/ WaitForController
    \/ DescribeDBInstances \/ ListManaged \/ (\E i \in DBIds : CreateAdoptedResource(i) \/ NoNameLeft(i))
    \/ AdoptionRequested \/ ListAdopted
    \/ (\E o \in Objects : FillConnectionInfo(o) \/ SkipDBInstance(o) \/ SetCredentials(o))
    \/ ModifyDBInstance \/ SaveDBInstance \/ AdoptionChecked
    \/ SyncInstances \/ UpdateReadyCondition
=============================================================================
