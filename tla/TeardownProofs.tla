---------------------------- MODULE TeardownProofs ----------------------------
(* Proofs about what the finalizer of the RDSInventory guards, and about what   *)
(* the inventory is Ready over. What the reconciler removes and writes itself it *)
(* has to see as it is: the theorems say whose caches are up to date.           *)
EXTENDS InventoryProofs

-----------------------------------------------------------------------------
(* The inductive invariant.                                                    *)

Installing == {"validate", "createSecret", "createConfigMap", "start", "wait", "describe",
               "listManaged", "adopt", "listAdopted", "secure", "modify", "save", "sync"}
Unadopted == {"stop", "deleteSecret", "deleteConfigMap", "removeFinalizer"}
Tearing == {"deleteAdopted"} \cup Unadopted

NothingAdopted == \A o \in Owned : adopted[o] = "none"

\* An inventory whose installation may be torn down.
Condemned(inv) == inv.phase = "deleting" \/ ~inv.finalizer

\* The finalizer is there while the API server holds a deleted inventory back, and
\* nobody but the teardown removes it.
Guarded ==
    /\ inventory.phase = "absent" => ~inventory.finalizer
    /\ inventory.phase = "deleting" => inventory.finalizer
    /\ pc = "addFinalizer" => copy.phase = "live" /\ ~copy.finalizer
    /\ pc \in Installing => inventory.finalizer
    /\ pc \in Tearing => Condemned(inventory)

\* What the teardown has removed stays removed until it ends.
Removed ==
    /\ pc \in Unadopted => NothingAdopted
    /\ pc \in {"deleteSecret", "deleteConfigMap", "removeFinalizer"} => deployment.replicas = 0
    /\ pc \in {"deleteConfigMap", "removeFinalizer"} => ackSecret = "absent"
    /\ pc = "removeFinalizer" => ackConfig = "absent"

InstallInv == Guarded /\ Removed /\ NoOrphans /\ (pc # "setup" => deployment.present)

\* A stale inventory does not mislead: one with the finalizer has not lost it, since
\* the teardown ends with an Update that a stale copy is refused, and one being deleted
\* has not been replaced by another with the finalizer, which takes a pass that has
\* seen the new one.
CacheSound ==
    LET seen == Seen("inventory") IN
        /\ seen.phase = "live" /\ seen.finalizer => inventory.finalizer
        /\ seen.phase = "deleting" => Condemned(inventory)
        /\ pc \in Tearing => Condemned(seen)
        /\ pc = "addFinalizer" /\ ~inventory.finalizer => seen.phase # "deleting"

TeardownInv == InstallInv /\ CacheSound

-----------------------------------------------------------------------------
\* The kinds the teardown reads before it removes them.
RemovedKinds == {"adopted", "deployment", "ackSecret", "ackConfig"}

LEMMA UpToDate ==
    ASSUME RemovedKinds \cap Lagging = {}
    PROVE  /\ Seen("adopted") = adopted /\ Seen("deployment") = deployment
           /\ Seen("ackSecret") = ackSecret /\ Seen("ackConfig") = ackConfig
BY DEF RemovedKinds, Seen, Stored

\* Steps of the others: nothing is installed, and nothing of the operator's adopted.
Harmless ==
    /\ deployment'.present = deployment.present
    /\ deployment'.replicas \in {deployment.replicas, 0}
    /\ NothingAdopted => NothingAdopted'
    /\ UNCHANGED <<ackSecret, ackConfig>>

LEMMA HarmlessStep ==
    ASSUME TeardownInv, Harmless, UNCHANGED <<inventory, pc, copy>> PROVE InstallInv'
BY DEF TeardownInv, InstallInv, Harmless, Guarded, Removed, NoOrphans, NothingAdopted

\* The end of a pass, and a conflict or an error at any call.
LEMMA EndStep ==
    ASSUME TeardownInv, Harmless, UNCHANGED inventory, pc # "setup",
           Updating \/ Failed \/ Requeue \/ NotReady \/ Ready
    PROVE  InstallInv'
<1>1. pc' = "done"
    BY DEF Updating, Failed, Requeue, NotReady, Ready, Finish
<1> QED
    BY <1>1 DEF TeardownInv, InstallInv, Harmless, Guarded, Removed, NoOrphans, NothingAdopted,
       Installing, Tearing, Unadopted

\* A call of the installation and the next one.
LEMMA InstallStep ==
    ASSUME TeardownInv, pc \in Installing, pc' \in Installing, UNCHANGED inventory,
           deployment.present => deployment'.present
    PROVE  InstallInv'
BY DEF TeardownInv, InstallInv, Guarded, Removed, NoOrphans, Installing, Tearing, Unadopted

LEMMA SameInstallation == UNCHANGED <<install, adopted>> => Harmless
BY DEF install, Harmless, NothingAdopted

-----------------------------------------------------------------------------
LEMMA TeardownInit == Init => TeardownInv
<1> SUFFICES ASSUME Init PROVE TeardownInv
    OBVIOUS
<1>1. InstallInv
    BY DEF Init, InstallInv, Guarded, Removed, NoOrphans, AbsentInventory, Installing,
       Tearing, Unadopted, Owned
<1>2. Seen("inventory") = inventory /\ pc = "setup"
    BY DEF Init, Seen, Stored
<1> QED
    BY <1>1, <1>2 DEF TeardownInv, CacheSound, InstallInv, Guarded, Tearing, Unadopted,
       Condemned

LEMMA TeardownCalls ==
    ASSUME RemovedKinds \cap Lagging = {}, TypeOK, TeardownInv,
           \/ SetupWithManager \/ GetInventory \/ AddFinalizer
           \/ DeleteAdopted \/ StopController \/ DeleteSecret \/ DeleteConfigMap
           \/ RemoveFinalizer
    PROVE  InstallInv'
<1>0. /\ Seen("adopted") = adopted /\ Seen("deployment") = deployment
      /\ Seen("ackSecret") = ackSecret /\ Seen("ackConfig") = ackConfig
    BY UpToDate
<1>1. CASE SetupWithManager
    <2>1. /\ pc' = "idle" /\ deployment' = [deployment EXCEPT !.replicas = 0]
          /\ deployment.present /\ UNCHANGED <<inventory, ackSecret, ackConfig, adopted>>
        BY <1>1 DEF SetupWithManager, Goto, ScaledToZero, objects
    <2>2. deployment'.present /\ deployment'.replicas = 0
        BY <2>1 DEF TypeOK, Deployments
    <2> QED
        BY <2>1, <2>2 DEF TeardownInv, InstallInv, Guarded, Removed, NoOrphans, Installing, Tearing,
           Unadopted
<1>2. CASE GetInventory
    <2> DEFINE seen == Seen("inventory")
    <2>1. /\ pc = "idle" /\ UNCHANGED <<inventory, install, adopted>> /\ copy' = seen
          /\ pc' = IF seen.phase = "absent" THEN "idle" ELSE FirstCall(seen)
        BY <1>2 DEF GetInventory, Goto, objects
    <2>2. seen \in Inventories
        BY SeenType
    <2>3. /\ pc' \in {"idle", "addFinalizer", "validate", "deleteAdopted"}
          /\ pc' = "addFinalizer" => seen.phase = "live" /\ ~seen.finalizer
          /\ pc' = "validate" => seen.phase = "live" /\ seen.finalizer
          /\ pc' = "deleteAdopted" => seen.phase = "deleting"
        BY <2>1, <2>2 DEF FirstCall, Inventories
    <2> QED
        BY <2>1, <2>3 DEF TeardownInv, InstallInv, CacheSound, Guarded, Removed, NoOrphans,
           Installing, Tearing, Unadopted, install
<1>3. CASE AddFinalizer
    <2>1. pc = "addFinalizer" /\ UNCHANGED <<install, adopted>>
        BY <1>3 DEF AddFinalizer, objects
    <2>2. CASE copy = inventory
        <3>1. pc' = "done" /\ inventory' = [inventory EXCEPT !.finalizer = TRUE]
            BY <1>3, <2>2 DEF AddFinalizer, NotReady, Finish
        <3>2. inventory'.finalizer /\ inventory'.phase = "live"
            BY <2>1, <2>2, <3>1 DEF TeardownInv, InstallInv, Guarded, TypeOK, Inventories
        <3> QED
            BY <2>1, <3>1, <3>2 DEF TeardownInv, InstallInv, Guarded, Removed, NoOrphans, Installing,
               Tearing, Unadopted, install
    <2>3. CASE copy # inventory
        BY <1>3, <2>1, <2>3, EndStep, SameInstallation DEF AddFinalizer
    <2> QED
        BY <2>2, <2>3
<1>4. CASE DeleteAdopted
    <2>1. pc = "deleteAdopted" /\ UNCHANGED <<inventory, install>>
        BY <1>4 DEF DeleteAdopted
    <2>2. CASE MyAdoptedResources = {}
        <3>1. pc' = "stop" /\ adopted' = adopted
            BY <1>4, <2>2 DEF DeleteAdopted, Goto
        <3>2. NothingAdopted
            BY <1>0, <2>2 DEF MyAdoptedResources, NothingAdopted
        <3> QED
            BY <2>1, <3>1, <3>2 DEF TeardownInv, InstallInv, Guarded, Removed, NoOrphans, Installing,
               Tearing, Unadopted, NothingAdopted, install
    <2>3. CASE MyAdoptedResources # {}
        <3>1. Updating \/ Failed
            BY <1>4, <2>3 DEF DeleteAdopted
        <3>2. NothingAdopted => NothingAdopted'
            BY <1>0, <2>3 DEF MyAdoptedResources, NothingAdopted
        <3> QED
            BY <2>1, <3>1, <3>2, EndStep DEF Harmless, install
    <2> QED
        BY <2>2, <2>3
<1>5. CASE StopController
    <2>1. /\ pc = "stop"
          /\ UNCHANGED <<inventory, ackSecret, ackConfig, adopted>>
        BY <1>5 DEF StopController, objects
    <2>2. CASE StopFails(deployment)
        <3>1. Failed /\ UNCHANGED deployment
            BY <1>0, <1>5, <2>2 DEF StopController
        <3> QED
            BY <2>1, <3>1, EndStep DEF Harmless, NothingAdopted
    <2>3. CASE ~StopFails(deployment)
        <3>1. /\ pc' = "deleteSecret"
              /\ deployment' = IF deployment.replicas > 0 THEN ScaledToZero(deployment)
                                                          ELSE deployment
            BY <1>0, <1>5, <2>3 DEF StopController, Goto
        <3>2. deployment'.replicas = 0 /\ deployment'.present = deployment.present
            BY <3>1 DEF ScaledToZero, TypeOK, Deployments
        <3> QED
            BY <2>1, <3>1, <3>2 DEF TeardownInv, InstallInv, Guarded, Removed, NoOrphans, Installing,
               Tearing, Unadopted, NothingAdopted
    <2> QED
        BY <2>2, <2>3
<1>6. CASE DeleteSecret
    <2>1. /\ pc = "deleteSecret" /\ ackSecret' \in {ackSecret, "absent"}
          /\ UNCHANGED <<inventory, ackConfig, deployment, adopted>>
          /\ \/ pc' = "deleteConfigMap" /\ ackSecret' = "absent"
             \/ pc' = "done"
        BY <1>0, <1>6 DEF DeleteSecret, Goto, Updating, Failed, Finish, objects
    <2> QED
        BY <2>1 DEF TeardownInv, InstallInv, Guarded, Removed, NoOrphans, Installing, Tearing,
           Unadopted, NothingAdopted
<1>7. CASE DeleteConfigMap
    <2>1. /\ pc = "deleteConfigMap" /\ ackConfig' \in {ackConfig, "absent"}
          /\ UNCHANGED <<inventory, ackSecret, deployment, adopted>>
          /\ \/ pc' = "removeFinalizer" /\ ackConfig' = "absent"
             \/ pc' = "done"
        BY <1>0, <1>7 DEF DeleteConfigMap, Goto, Updating, Failed, Finish, objects
    <2> QED
        BY <2>1 DEF TeardownInv, InstallInv, Guarded, Removed, NoOrphans, Installing, Tearing,
           Unadopted, NothingAdopted
<1>8. CASE RemoveFinalizer
    <2>1. /\ pc = "removeFinalizer" /\ pc' = "done" /\ UNCHANGED <<install, adopted>>
          /\ inventory' \in {inventory, AbsentInventory}
        BY <1>8 DEF RemoveFinalizer, NotReady, Updating, Finish, objects
    <2>2. /\ ackSecret = "absent" /\ ackConfig = "absent" /\ deployment.replicas = 0
          /\ NothingAdopted
        BY <2>1 DEF TeardownInv, InstallInv, Removed, Unadopted
    <2> QED
        BY <2>1, <2>2 DEF TeardownInv, InstallInv, Guarded, Removed, NoOrphans, Installing, Tearing,
           Unadopted, NothingAdopted, install, AbsentInventory
<1> QED
    BY <1>1, <1>2, <1>3, <1>4, <1>5, <1>6, <1>7, <1>8

LEMMA InstallationCalls ==
    ASSUME RemovedKinds \cap Lagging = {}, TypeOK, TeardownInv, Reconcile,
           ~(GetInventory \/ AddFinalizer \/ DeleteAdopted \/ StopController
             \/ DeleteSecret \/ DeleteConfigMap \/ RemoveFinalizer)
    PROVE  InstallInv'
<1>1. CASE ValidateAWSParameter \/ WaitForController \/ AdoptionRequested \/ AdoptionChecked
    <2>1. UNCHANGED <<inventory, install, adopted>> /\ pc # "setup"
        BY <1>1 DEF ValidateAWSParameter, WaitForController, AdoptionRequested,
           AdoptionChecked, objects
    <2>2. \/ Updating \/ Failed \/ Requeue
          \/ pc \in Installing /\ pc' \in Installing
        <3>1. Seen("deployment") \in Deployments
            BY SeenType
        <3> QED
            BY <1>1, <3>1 DEF ValidateAWSParameter, WaitForController, AdoptionRequested,
               AdoptionChecked, Goto, Installing, Deployments
    <2> QED
        BY <2>1, <2>2, EndStep, InstallStep, SameInstallation DEF install
<1>2. CASE CreateOrUpdateSecret \/ CreateOrUpdateConfigMap
    <2>1. UNCHANGED <<inventory, deployment, adopted>> /\ pc # "setup"
        BY <1>2 DEF CreateOrUpdateSecret, CreateOrUpdateConfigMap, objects
    <2>2. \/ Failed /\ UNCHANGED <<ackSecret, ackConfig>>
          \/ pc \in Installing /\ pc' \in Installing
        BY <1>2 DEF CreateOrUpdateSecret, CreateOrUpdateConfigMap, Goto, Installing
    <2> QED
        BY <2>1, <2>2, EndStep, InstallStep DEF Harmless, NothingAdopted
<1>3. CASE StartController
    <2>1. UNCHANGED <<inventory, ackSecret, ackConfig, adopted>> /\ pc = "start"
        BY <1>3 DEF StartController, objects
    <2>2. Seen("deployment") = deployment
        BY UpToDate
    <2>3. \/ Failed /\ UNCHANGED deployment
          \/ pc' = "wait" /\ deployment'.present
        BY <1>3, <2>2 DEF StartController, Goto, Started, TypeOK, Deployments
    <2> QED
        BY <2>1, <2>3, EndStep, InstallStep DEF Harmless, NothingAdopted, Installing
<1>4. CASE DescribeDBInstances \/ ListManaged \/ ListAdopted
    <2>1. UNCHANGED <<inventory, install>> /\ pc \in Installing /\ pc' \in Installing
        BY <1>4 DEF DescribeDBInstances, ListManaged, ListAdopted, Goto, Installing
    <2> QED
        BY <2>1, InstallStep DEF install
<1>5. ASSUME NEW i \in DBIds, CreateAdoptedResource(i) \/ NoNameLeft(i) PROVE InstallInv'
    <2>1. CASE CreateAdoptedResource(i)
        BY <2>1, InstallStep DEF CreateAdoptedResource, Installing, install
    <2>2. CASE NoNameLeft(i)
        BY <2>2, EndStep, SameInstallation DEF NoNameLeft, objects
    <2> QED
        BY <1>5, <2>1, <2>2
<1>6. ASSUME NEW o \in Objects, FillConnectionInfo(o) \/ SkipDBInstance(o) \/ SetCredentials(o)
      PROVE  InstallInv'
    <2>1. UNCHANGED <<inventory, install, adopted>> /\ pc = "secure"
        BY <1>6 DEF FillConnectionInfo, SkipDBInstance, SetCredentials, Handles, objects
    <2>2. Updating \/ Failed \/ pc' \in Installing
        BY <1>6 DEF FillConnectionInfo, SkipDBInstance, SetCredentials, Handles, Goto,
           Installing
    <2> QED
        BY <2>1, <2>2, EndStep, InstallStep, SameInstallation DEF Installing, install
<1>7. CASE ModifyDBInstance \/ SaveDBInstance
    <2>1. UNCHANGED <<inventory, install, adopted>> /\ pc \in {"modify", "save"}
        BY <1>7 DEF ModifyDBInstance, SaveDBInstance
    <2>2. Updating \/ Failed \/ pc' \in Installing
        BY <1>7 DEF ModifyDBInstance, SaveDBInstance, Goto, Installing
    <2> QED
        BY <2>1, <2>2, EndStep, InstallStep, SameInstallation DEF Installing, install
<1>8. CASE SyncInstances \/ UpdateReadyCondition
    <2>1. /\ UNCHANGED <<install, adopted>> /\ pc # "setup" /\ pc' \in {"done", "idle"}
          /\ \/ UNCHANGED inventory
             \/ /\ inventory'.finalizer = inventory.finalizer
                /\ inventory'.phase = inventory.phase
        BY <1>8 DEF SyncInstances, UpdateReadyCondition, EndPass, Ready, Updating, Finish,
           objects, TypeOK, Inventories
    <2> QED
        BY <2>1 DEF TeardownInv, InstallInv, Guarded, Removed, NoOrphans, Installing, Tearing,
           Unadopted, install
<1> QED
    BY <1>1, <1>2, <1>3, <1>4, <1>5, <1>6, <1>7, <1>8 DEF Reconcile

LEMMA TroubleKeeps ==
    ASSUME "undeploy" \notin Faults, TypeOK, TeardownInv, Trouble PROVE InstallInv'
<1>1. CASE CallFails \/ Conflict
    <2>1. UNCHANGED <<inventory, install, adopted>> /\ pc # "setup"
        BY <1>1 DEF CallFails, Conflict, CallPCs, objects
    <2>2. Updating \/ Failed
        BY <1>1 DEF CallFails, Conflict
    <2> QED
        BY <2>1, <2>2, EndStep, SameInstallation
<1>2. CASE Restart
    <2>1. UNCHANGED <<inventory, install, adopted>> /\ pc' = "setup"
        BY <1>2 DEF Restart, objects
    <2> QED
        BY <2>1 DEF TeardownInv, InstallInv, Guarded, Removed, NoOrphans, Installing, Tearing,
           Unadopted, install
<1>3. CASE StandbySetup
    <2>1. /\ UNCHANGED <<inventory, ackSecret, ackConfig, adopted, pc, copy>>
          /\ deployment' = ScaledToZero(deployment)
        BY <1>3 DEF StandbySetup, objects
    <2>2. Harmless
        BY <2>1 DEF Harmless, ScaledToZero, NothingAdopted, TypeOK, Deployments
    <2> QED
        BY <2>1, <2>2, HarmlessStep
<1> QED
    BY <1>1, <1>2, <1>3 DEF Trouble, Undeploy, Fault

LEMMA OthersKeep == ASSUME TypeOK, TeardownInv, User \/ Cluster PROVE InstallInv'
<1>1. CASE CreateInventory \/ DeleteInventory
    <2>1. UNCHANGED <<install, adopted, pc, copy>>
        BY <1>1 DEF CreateInventory, DeleteInventory, Worker, objects
    <2>2. /\ inventory'.finalizer = inventory.finalizer
          /\ inventory'.phase = "absent" => ~inventory'.finalizer
          /\ inventory'.phase = "deleting" => inventory'.finalizer
          /\ Condemned(inventory) => Condemned(inventory')
        <3>1. CASE CreateInventory
            <4>1. /\ inventory.phase = "absent" /\ inventory'.phase = "live"
                  /\ inventory'.finalizer = FALSE
                BY <3>1 DEF CreateInventory, AbsentInventory
            <4>2. inventory.finalizer = FALSE
                BY <4>1 DEF TypeOK, Inventories, TeardownInv, InstallInv, Guarded
            <4> QED
                BY <4>1, <4>2 DEF Condemned
        <3>2. CASE DeleteInventory /\ inventory.finalizer
            <4>1. inventory.phase = "live" /\ inventory' = [inventory EXCEPT !.phase = "deleting"]
                BY <3>2 DEF DeleteInventory
            <4> QED
                BY <4>1, <3>2 DEF TypeOK, Inventories, Condemned
        <3>3. CASE DeleteInventory /\ ~inventory.finalizer
            <4>1. inventory.phase = "live" /\ inventory' = AbsentInventory
                BY <3>3 DEF DeleteInventory
            <4> QED
                BY <4>1, <3>3 DEF AbsentInventory, TypeOK, Inventories, Condemned
        <3> QED
            BY <1>1, <3>1, <3>2, <3>3
    <2> QED
        BY <2>1, <2>2 DEF TeardownInv, InstallInv, Guarded, Removed, NoOrphans, NothingAdopted, install
<1>2. CASE Deploy
    <2>1. /\ UNCHANGED <<inventory, ackSecret, ackConfig, adopted, pc, copy>>
          /\ ~deployment.present /\ deployment' = NewDeployment
        BY <1>2 DEF Deploy, objects
    <2>2. pc = "setup"
        BY <2>1 DEF TeardownInv, InstallInv
    <2> QED
        BY <2>1, <2>2 DEF TeardownInv, InstallInv, Guarded, Removed, NoOrphans, NothingAdopted,
           Installing, Tearing, Unadopted
<1>3. ASSUME ~Deploy, ~(CreateInventory \/ DeleteInventory) PROVE InstallInv'
    <2>1. UNCHANGED <<inventory, pc, copy>>
        BY <1>3, User \/ Cluster DEF User, Cluster, ChangeCredential, ProvisionDBInstance,
           ObjectsChanged, AdoptByUser, AckDelete, AwsCreate, AwsBusy, AwsDelete, AwsMoves,
           Resync, InformerSync, DeploymentSettles, AckManage, AckAdopt, AckFinalize,
           AckCreate, AckStatus, CollectSecret, AwsSettle, AwsGone, Worker
    <2>2. UNCHANGED <<ackSecret, ackConfig>> /\ deployment'.present = deployment.present
          /\ deployment'.replicas = deployment.replicas
        <3>1. CASE DeploymentSettles
            BY <3>1 DEF DeploymentSettles, TypeOK, Deployments
        <3>2. CASE ~DeploymentSettles
            BY <1>3, <3>2, User \/ Cluster DEF User, Cluster, ChangeCredential,
               ProvisionDBInstance, ObjectsChanged, AdoptByUser, AckDelete, AwsCreate,
               AwsBusy, AwsDelete, AwsMoves, Resync, InformerSync, AckManage, AckAdopt,
               AckFinalize, AckCreate, AckStatus, CollectSecret, AwsSettle, AwsGone, install
        <3> QED
            BY <3>1, <3>2
    <2>3. NothingAdopted => NothingAdopted'
        BY <1>3, User \/ Cluster DEF User, Cluster, ChangeCredential, ProvisionDBInstance,
           ObjectsChanged, AdoptByUser, AckDelete, AwsCreate, AwsBusy, AwsDelete, AwsMoves,
           Resync, InformerSync, DeploymentSettles, AckManage, AckAdopt, AckFinalize,
           AckCreate, AckStatus, CollectSecret, AwsSettle, AwsGone, objects, NothingAdopted,
           Owned, TypeOK
    <2> QED
        BY <2>1, <2>2, <2>3, HarmlessStep DEF Harmless
<1> QED
    BY <1>1, <1>2, <1>3

-----------------------------------------------------------------------------
(* The cache of the inventory.                                                 *)

\* Only GetInventory leads into the teardown and to the finalizer.
LEMMA Enters ==
    ASSUME [Next]_vars, ~GetInventory
    PROVE  /\ pc' \in Tearing => pc \in Tearing
           /\ pc' \in Unadopted => pc \in Unadopted \/ DeleteAdopted
           /\ pc' = "addFinalizer" => pc = "addFinalizer"
<1> DEFINE Elsewhere == pc' \notin Tearing \cup {"addFinalizer"}
<1>f. Updating \/ Failed \/ Requeue \/ NotReady \/ Ready => Elsewhere
    BY DEF Updating, Failed, Requeue, NotReady, Ready, Finish, Tearing, Unadopted
<1>1. CASE User \/ Cluster
    <2>1. UNCHANGED pc
        BY <1>1 DEF User, Cluster, CreateInventory, DeleteInventory, ChangeCredential, Deploy,
           ProvisionDBInstance, AdoptByUser, AckDelete, AwsCreate, AwsBusy, AwsDelete,
           AwsMoves, Resync, InformerSync, DeploymentSettles, AckManage, AckAdopt,
           AckFinalize, AckCreate, AckStatus, CollectSecret, AwsSettle, AwsGone,
           ObjectsChanged, Worker
    <2> QED
        BY <2>1
<1>2. CASE Trouble \/ UNCHANGED vars
    BY <1>2, <1>f DEF Trouble, CallFails, Conflict, Restart, StandbySetup, Undeploy, vars,
       Tearing, Unadopted
<1>3. CASE DeleteAdopted \/ StopController \/ DeleteSecret \/ DeleteConfigMap \/ RemoveFinalizer
    <2>1. pc \in Tearing /\ (DeleteAdopted \/ pc \in Unadopted)
        BY <1>3 DEF DeleteAdopted, StopController, DeleteSecret, DeleteConfigMap,
           RemoveFinalizer, Tearing, Unadopted
    <2>2. pc' \in {"done", "stop", "deleteSecret", "deleteConfigMap", "removeFinalizer"}
        BY <1>3 DEF DeleteAdopted, StopController, DeleteSecret, DeleteConfigMap,
           RemoveFinalizer, Goto, Updating, Failed, NotReady, Finish
    <2> QED
        BY <2>1, <2>2
<1>4. CASE \/ SetupWithManager \/ AddFinalizer \/ ValidateAWSParameter
           \/ CreateOrUpdateSecret \/ CreateOrUpdateConfigMap \/ StartController
    BY <1>4, <1>f DEF SetupWithManager, AddFinalizer, ValidateAWSParameter,
       CreateOrUpdateSecret, CreateOrUpdateConfigMap, StartController, Goto, Tearing,
       Unadopted
<1>5. CASE \/ WaitForController \/ DescribeDBInstances \/ ListManaged \/ AdoptionRequested
           \/ ListAdopted
    <2>1. CASE WaitForController
        BY <2>1, <1>f DEF WaitForController, Goto, Tearing, Unadopted
    <2>2. CASE DescribeDBInstances \/ ListManaged \/ AdoptionRequested \/ ListAdopted
        BY <2>2, <1>f DEF DescribeDBInstances, ListManaged, AdoptionRequested, ListAdopted,
           Goto, Tearing, Unadopted
    <2> QED
        BY <1>5, <2>1, <2>2
<1>6. ASSUME NEW i \in DBIds, CreateAdoptedResource(i) \/ NoNameLeft(i) PROVE pc' = pc \/ Elsewhere
    BY <1>6, <1>f DEF CreateAdoptedResource, NoNameLeft
<1>7. ASSUME NEW o \in Objects, FillConnectionInfo(o) \/ SkipDBInstance(o) \/ SetCredentials(o)
      PROVE  pc' = pc \/ Elsewhere
    BY <1>7, <1>f DEF FillConnectionInfo, SkipDBInstance, SetCredentials, Goto, Tearing,
       Unadopted
<1>8. CASE \/ ModifyDBInstance \/ SaveDBInstance \/ AdoptionChecked \/ SyncInstances
           \/ UpdateReadyCondition
    BY <1>8, <1>f DEF ModifyDBInstance, SaveDBInstance, AdoptionChecked, SyncInstances,
       UpdateReadyCondition, EndPass, Goto, Tearing, Unadopted
<1> QED
    BY <1>1, <1>2, <1>3, <1>4, <1>5, <1>6, <1>7, <1>8 DEF Next, Reconcile, Tearing

\* The cache shows what it showed, or what is stored.
LEMMA CacheFollows ==
    ASSUME TypeOK, [Next]_vars, NEW k \in Kinds
    PROVE  Seen(k)' = Stored(k)' \/ Seen(k)' = Seen(k)
<1>1. CASE k \notin Lagging
    BY <1>1 DEF Seen
<1>2. CASE SetupWithManager \/ Restart
    <2>1. k # "deployment" => Stored(k)' = Stored(k)
        BY <1>2 DEF SetupWithManager, Restart, Stored, Kinds, install, objects
    <2> QED
        BY <1>2, <2>1 DEF SetupWithManager, Restart, Seen, Stored, install
<1>3. ASSUME NEW l \in Kinds, InformerSync(l)
      PROVE  Seen(k)' = Stored(k)' \/ Seen(k)' = Seen(k)
    <2>1. Stored(k)' = Stored(k)
        BY <1>3 DEF InformerSync, Stored, Kinds, install, objects
    <2>2. cache' = [cache EXCEPT ![l] = Stored(l)] /\ DOMAIN cache = Lagging
        BY <1>3 DEF InformerSync, TypeOK
    <2> QED
        BY <1>1, <2>1, <2>2 DEF Seen
<1>4. CASE UNCHANGED cache
    BY <1>1, <1>4 DEF Seen
<1>5. CASE Trouble \/ User \/ (Cluster /\ \A l \in Kinds : ~InformerSync(l)) \/ UNCHANGED vars
    BY <1>2, <1>4, <1>5 DEF Trouble, CallFails, Conflict, StandbySetup, Undeploy, User,
       Cluster, CreateInventory, DeleteInventory, ChangeCredential, Deploy,
       ProvisionDBInstance, AdoptByUser, AckDelete, AwsCreate, AwsBusy, AwsDelete, AwsMoves,
       Resync, DeploymentSettles, AckManage, AckAdopt, AckFinalize, AckCreate, AckStatus,
       CollectSecret, AwsSettle, AwsGone, ObjectsChanged, vars
<1>6. CASE Reconcile
    BY <1>4, <1>6 DEF Reconcile, GetInventory, AddFinalizer, DeleteAdopted, StopController,
       DeleteSecret, DeleteConfigMap, RemoveFinalizer, ValidateAWSParameter,
       CreateOrUpdateSecret, CreateOrUpdateConfigMap, StartController, WaitForController,
       DescribeDBInstances, ListManaged, CreateAdoptedResource, NoNameLeft,
       AdoptionRequested, ListAdopted, FillConnectionInfo, SkipDBInstance, SetCredentials,
       ModifyDBInstance, SaveDBInstance, AdoptionChecked, SyncInstances, UpdateReadyCondition
<1> QED
    BY <1>2, <1>3, <1>5, <1>6 DEF Next, Cluster

\* How the phase and the finalizer move.
Moves ==
    \/ inventory'.phase = inventory.phase /\ inventory'.finalizer = inventory.finalizer
    \/ AddFinalizer /\ copy = inventory /\ pc' = "done"
    \/ RemoveFinalizer /\ pc' = "done" /\ inventory' = AbsentInventory
    \/ inventory'.finalizer = inventory.finalizer /\ UNCHANGED pc
       /\ (inventory.finalizer => inventory'.phase = "deleting")

LEMMA InventoryMoves == ASSUME TypeOK, TeardownInv, [Next]_vars PROVE Moves
<1>1. CASE SyncInstances \/ UpdateReadyCondition
    <2>1. \/ inventory' = inventory
          \/ inventory' = [inventory EXCEPT !.ready = outcome.ready]
          \/ inventory' = [inventory EXCEPT !.instances = {o \in Objects : Seen("dbs")[o].present}]
        BY <1>1 DEF SyncInstances, UpdateReadyCondition
    <2> QED
        BY <2>1 DEF TypeOK, Inventories, Moves
<1>2. CASE AddFinalizer \/ RemoveFinalizer
    BY <1>2 DEF AddFinalizer, RemoveFinalizer, NotReady, Finish, Moves
<1>3. CASE CreateInventory
    <2>1. inventory' = [AbsentInventory EXCEPT !.phase = "live"] /\ inventory.phase = "absent"
        BY <1>3 DEF CreateInventory
    <2>2. ~inventory.finalizer /\ inventory'.finalizer = FALSE /\ inventory.finalizer \in BOOLEAN
        BY <2>1 DEF TeardownInv, InstallInv, Guarded, AbsentInventory, TypeOK, Inventories
    <2> QED
        BY <1>3, <2>2 DEF CreateInventory, Worker, Moves
<1>4. CASE DeleteInventory
    <2>1. inventory' = IF inventory.finalizer THEN [inventory EXCEPT !.phase = "deleting"]
                                              ELSE AbsentInventory
        BY <1>4 DEF DeleteInventory
    <2>2. /\ inventory'.finalizer = inventory.finalizer
          /\ inventory.finalizer => inventory'.phase = "deleting"
        BY <2>1 DEF AbsentInventory, TypeOK, Inventories
    <2> QED
        BY <1>4, <2>2 DEF DeleteInventory, Worker, Moves
<1>5. CASE Reconcile /\ ~UpdateReadyCondition /\ ~SyncInstances /\ ~AddFinalizer
           /\ ~RemoveFinalizer
    <2>1. inventory' = inventory
        BY <1>5 DEF Reconcile, GetInventory, DeleteAdopted, StopController,
           DeleteSecret, DeleteConfigMap, ValidateAWSParameter,
           CreateOrUpdateSecret, CreateOrUpdateConfigMap, StartController,
           WaitForController, DescribeDBInstances, ListManaged, CreateAdoptedResource,
           NoNameLeft, AdoptionRequested, ListAdopted, FillConnectionInfo, SkipDBInstance,
           SetCredentials, ModifyDBInstance, SaveDBInstance, AdoptionChecked
    <2> QED
        BY <2>1 DEF Moves
<1>6. CASE SetupWithManager \/ Trouble \/ UNCHANGED vars
    BY <1>6 DEF SetupWithManager, Trouble, CallFails, Conflict, Restart, StandbySetup,
       Undeploy, vars, Moves
<1>7. CASE (User /\ ~CreateInventory /\ ~DeleteInventory) \/ Cluster
    <2>1. inventory' = inventory
        BY <1>7 DEF User, Cluster, ChangeCredential, Deploy, ProvisionDBInstance,
           AdoptByUser, AckDelete, AwsCreate, AwsBusy, AwsDelete, AwsMoves, ObjectsChanged,
           Resync, InformerSync, DeploymentSettles, AckManage, AckAdopt, AckFinalize,
           AckCreate, AckStatus, CollectSecret, AwsSettle, AwsGone
    <2> QED
        BY <2>1 DEF Moves
<1> QED
    BY <1>1, <1>2, <1>3, <1>4, <1>5, <1>6, <1>7 DEF Next

LEMMA CacheStep ==
    ASSUME TypeOK, TeardownInv, InstallInv', [Next]_vars PROVE CacheSound'
<1>1. CASE Seen("inventory")' = inventory'
    BY <1>1 DEF CacheSound, InstallInv, Guarded, Condemned
<1>2. CASE Seen("inventory")' = Seen("inventory")
    <2> DEFINE seen == Seen("inventory")
    <2>1. CASE GetInventory
        <3>1. /\ inventory' = inventory
              /\ pc' = IF seen.phase = "absent" THEN "idle" ELSE FirstCall(seen)
            BY <2>1 DEF GetInventory, Goto
        <3>2. /\ pc' \in {"idle", "addFinalizer", "validate", "deleteAdopted"}
              /\ pc' = "addFinalizer" => seen.phase = "live"
              /\ pc' = "deleteAdopted" => seen.phase = "deleting"
            BY <3>1, SeenType DEF FirstCall, Inventories
        <3> QED
            BY <1>2, <3>1, <3>2 DEF TeardownInv, CacheSound, Condemned, Tearing, Unadopted
    <2>2. CASE ~GetInventory
        <3>1. /\ pc' \in Tearing => pc \in Tearing
              /\ pc' = "addFinalizer" => pc = "addFinalizer"
            BY <2>2, Enters
        <3>2. CASE inventory'.phase = inventory.phase /\ inventory'.finalizer = inventory.finalizer
            BY <1>2, <3>1, <3>2 DEF TeardownInv, CacheSound, Condemned
        <3>3. CASE AddFinalizer /\ copy = inventory /\ pc' = "done"
            <4>1. /\ pc = "addFinalizer" /\ ~inventory.finalizer
                  /\ inventory' = [inventory EXCEPT !.finalizer = TRUE]
                BY <3>3 DEF AddFinalizer, TeardownInv, InstallInv, Guarded
            <4>2. inventory'.finalizer /\ seen.phase # "deleting"
                BY <4>1 DEF TypeOK, Inventories, TeardownInv, CacheSound
            <4> QED
                BY <1>2, <3>3, <4>2 DEF CacheSound, Tearing, Unadopted
        <3>4. CASE RemoveFinalizer /\ pc' = "done" /\ inventory' = AbsentInventory
            <4>1. Condemned(seen) /\ ~inventory'.finalizer
                BY <3>4 DEF RemoveFinalizer, TeardownInv, CacheSound, Tearing, Unadopted,
                   AbsentInventory
            <4> QED
                BY <1>2, <3>4, <4>1 DEF CacheSound, Condemned, Tearing, Unadopted
        <3>5. CASE inventory'.finalizer = inventory.finalizer /\ UNCHANGED pc
                   /\ (inventory.finalizer => inventory'.phase = "deleting")
            BY <1>2, <3>1, <3>5 DEF TeardownInv, CacheSound, Condemned
        <3> QED
            BY <3>2, <3>3, <3>4, <3>5, InventoryMoves DEF Moves
    <2> QED
        BY <2>1, <2>2
<1> QED
    BY <1>1, <1>2, CacheFollows DEF Kinds, Stored

-----------------------------------------------------------------------------
(* The theorem.                                                                *)

LEMMA TeardownStep ==
    ASSUME RemovedKinds \cap Lagging = {}, "undeploy" \notin Faults, TypeOK, TeardownInv,
           [Next]_vars
    PROVE  TeardownInv'
<1>1. InstallInv'
    <2>1. CASE UNCHANGED vars
        BY <2>1, HarmlessStep DEF vars, Harmless, install, objects, NothingAdopted
    <2> QED
        BY <2>1, TeardownCalls, InstallationCalls, TroubleKeeps, OthersKeep DEF Next
<1> QED
    BY <1>1, CacheStep DEF TeardownInv

\* An inventory without the finalizer has left nothing: no Secret and no ConfigMap of
\* the ACK controller, no running ACK controller, no AdoptedResource of the operator's,
\* after any number of failed calls, conflicts, restarts and standbys, however old the
\* inventory is that a pass has read. The caches of what it removes are up to date, and
\* the bundle is not uninstalled and installed again.
THEOREM FinalizerGuards ==
    ASSUME RemovedKinds \cap Lagging = {}, "undeploy" \notin Faults PROVE Spec => []NoOrphans
<1>1. TypeOK /\ TeardownInv /\ [Next]_vars => TeardownInv'
    BY TeardownStep
<1>2. TeardownInv => NoOrphans
    BY DEF TeardownInv, InstallInv
<1> QED
    BY <1>1, <1>2, TeardownInit, TypeCorrect, PTL DEF Spec

-----------------------------------------------------------------------------
(* FinalizersServed.                                                           *)

\* An AdoptedResource that waits for the ACK controller is one the cache shows, since
\* DeleteAdopted has seen it there; so the teardown does not go on as long as there is one.
Awaiting(o) == adopted[o] = "deleting"
NothingAwaits == \A o \in Owned : ~Awaiting(o)
Cleared ==
    /\ \A o \in Owned : Awaiting(o) => Seen("adopted")[o] # "none"
    /\ pc \in Unadopted => NothingAwaits

\* Only DeleteAdopted deletes an AdoptedResource, and only one that it has seen.
LEMMA AwaitsSeen ==
    ASSUME TypeOK, [Next]_vars, NEW o \in Owned, adopted'[o] = "deleting",
           adopted[o] # "deleting"
    PROVE  DeleteAdopted /\ Seen("adopted")[o] # "none" /\ cache' = cache
<1> o \in Objects
    BY DEF Owned
<1>1. CASE DeleteAdopted
    <2>1. MyAdoptedResources # {}
        BY <1>1 DEF DeleteAdopted
    <2>2. PICK S \in SUBSET MyAdoptedResources :
            adopted' = [p \in Objects |-> IF p \in S THEN Terminated(adopted[p]) ELSE adopted[p]]
        BY <1>1, <2>1 DEF DeleteAdopted
    <2>3. o \in MyAdoptedResources
        BY <2>2
    <2> QED
        BY <1>1, <2>3 DEF DeleteAdopted, MyAdoptedResources
<1>2. CASE User \/ Cluster
    <2>1. ASSUME NEW p \in Objects,
                 AdoptByUser(p) \/ AckManage(p) \/ AckAdopt(p) \/ AckFinalize(p)
          PROVE  adopted'[o] # "deleting"
        BY <2>1 DEF AdoptByUser, AckManage, AckAdopt, AckFinalize, TypeOK
    <2>2. ASSUME NEW p \in Objects,
                 \/ ProvisionDBInstance(p) \/ AckDelete(p) \/ AckStatus(p) \/ AckCreate(p)
                 \/ CollectSecret(p)
          PROVE  adopted' = adopted
        BY <2>2 DEF ProvisionDBInstance, AckDelete, AckStatus, AckCreate, CollectSecret
    <2>3. CASE \/ CreateInventory \/ DeleteInventory \/ ChangeCredential \/ Deploy \/ Resync
               \/ DeploymentSettles \/ \E k \in Kinds : InformerSync(k)
        BY <2>3 DEF CreateInventory, DeleteInventory, ChangeCredential, Deploy, Resync,
           DeploymentSettles, InformerSync, objects
    <2>4. ASSUME NEW i \in DBIds, AwsCreate(i) \/ AwsBusy(i) \/ AwsDelete(i) \/ AwsSettle(i)
                                  \/ AwsGone(i)
          PROVE  adopted' = adopted
        BY <2>4 DEF AwsCreate, AwsBusy, AwsDelete, AwsSettle, AwsGone, AwsMoves
    <2> QED
        BY <1>2, <2>1, <2>2, <2>3, <2>4 DEF User, Cluster
<1>3. CASE Trouble \/ SetupWithManager \/ UNCHANGED vars
    BY <1>3 DEF Trouble, CallFails, Conflict, Restart, StandbySetup, Undeploy,
       SetupWithManager, vars, objects
<1>4. ASSUME NEW i \in DBIds, CreateAdoptedResource(i) PROVE adopted'[o] # "deleting"
    BY <1>4 DEF CreateAdoptedResource, TypeOK
<1>5. CASE Reconcile /\ ~DeleteAdopted /\ \A i \in DBIds : ~CreateAdoptedResource(i)
    <2>1. adopted' = adopted
        BY <1>5 DEF Reconcile, GetInventory, AddFinalizer, StopController, DeleteSecret,
           DeleteConfigMap, RemoveFinalizer, ValidateAWSParameter, CreateOrUpdateSecret,
           CreateOrUpdateConfigMap, StartController, WaitForController,
           DescribeDBInstances, ListManaged, NoNameLeft, AdoptionRequested, ListAdopted,
           FillConnectionInfo, SkipDBInstance, SetCredentials, ModifyDBInstance,
           SaveDBInstance, AdoptionChecked, SyncInstances, UpdateReadyCondition, objects
    <2> QED
        BY <2>1
<1> QED
    BY <1>1, <1>2, <1>3, <1>4, <1>5 DEF Next

LEMMA ClearedStep == ASSUME TypeOK, Cleared, [Next]_vars PROVE Cleared'
<1>1. ASSUME NEW o \in Owned, Awaiting(o)' PROVE Seen("adopted")'[o] # "none"
    <2>1. CASE Awaiting(o)
        <3>1. Seen("adopted")' = adopted' \/ Seen("adopted")' = Seen("adopted")
            BY CacheFollows DEF Kinds, Stored
        <3> QED
            BY <1>1, <2>1, <3>1 DEF Cleared, Awaiting
    <2>2. CASE ~Awaiting(o)
        <3>1. DeleteAdopted /\ Seen("adopted")[o] # "none" /\ cache' = cache
            BY <1>1, <2>2, AwaitsSeen DEF Awaiting
        <3> QED
            BY <1>1, <3>1 DEF Awaiting, Seen, Stored
    <2> QED
        BY <2>1, <2>2
<1>2. ASSUME pc' \in Unadopted PROVE NothingAwaits'
    <2>1. CASE GetInventory
        <3>1. pc' \in {"idle", "addFinalizer", "validate", "deleteAdopted"}
            BY <2>1, SeenType, FirstCallType DEF GetInventory, Goto, Inventories
        <3> QED
            BY <1>2, <3>1 DEF Unadopted
    <2>2. CASE DeleteAdopted
        <3>1. MyAdoptedResources = {} /\ adopted' = adopted
            BY <1>2, <2>2 DEF DeleteAdopted, Updating, Failed, Finish, Unadopted
        <3> QED
            BY <3>1 DEF MyAdoptedResources, Cleared, NothingAwaits, Awaiting
    <2>3. CASE ~GetInventory /\ ~DeleteAdopted
        <3>1. NothingAwaits
            BY <1>2, <2>3, Enters DEF Cleared
        <3> QED
            BY <2>3, <3>1, AwaitsSeen DEF NothingAwaits, Awaiting
    <2> QED
        BY <2>1, <2>2, <2>3
<1> QED
    BY <1>1, <1>2 DEF Cleared

\* The reconciler scales the Deployment to zero when nothing waits for it any more.
LEMMA ServedStep ==
    ASSUME "standby" \notin Faults, TypeOK, Cleared, [Next]_vars, pc # "setup",
           deployment.replicas > 0, deployment'.present, deployment'.replicas = 0
    PROVE  NothingAwaits
<1>1. CASE StopController
    BY <1>1 DEF StopController, Cleared, Unadopted
<1>2. CASE Reconcile /\ ~StopController
    <2>1. CASE StartController
        BY <2>1, SeenType DEF StartController, Started, Deployments
    <2>2. CASE ~StartController
        <3>1. UNCHANGED deployment
            BY <1>2, <2>2 DEF Reconcile, GetInventory, AddFinalizer, DeleteAdopted,
               DeleteSecret, DeleteConfigMap, RemoveFinalizer, ValidateAWSParameter,
               CreateOrUpdateSecret, CreateOrUpdateConfigMap, WaitForController,
               DescribeDBInstances, ListManaged, CreateAdoptedResource, NoNameLeft,
               AdoptionRequested, ListAdopted, FillConnectionInfo, SkipDBInstance,
               SetCredentials, ModifyDBInstance, SaveDBInstance, AdoptionChecked,
               SyncInstances, UpdateReadyCondition, install
        <3> QED
            BY <3>1
    <2> QED
        BY <2>1, <2>2
<1>3. CASE Trouble
    BY <1>3 DEF Trouble, CallFails, Conflict, Restart, StandbySetup, Undeploy, NoDeployment,
       Fault, install
<1>4. CASE User
    <2>1. CASE Deploy
        <3>1. deployment' = NewDeployment
            BY <2>1 DEF Deploy
        <3> QED
            BY <3>1 DEF NewDeployment
    <2>2. CASE CreateInventory \/ DeleteInventory \/ ChangeCredential
        <3>1. deployment' = deployment
            BY <2>2 DEF CreateInventory, DeleteInventory, ChangeCredential, install
        <3> QED
            BY <3>1
    <2>3. ASSUME NEW o \in Objects, ProvisionDBInstance(o) \/ AdoptByUser(o) \/ AckDelete(o)
          PROVE  deployment' = deployment
        BY <2>3 DEF ProvisionDBInstance, ObjectsChanged, AdoptByUser, AckDelete, install
    <2>4. ASSUME NEW i \in DBIds, AwsCreate(i) \/ AwsBusy(i) \/ AwsDelete(i)
          PROVE  deployment' = deployment
        BY <2>4 DEF AwsCreate, AwsBusy, AwsDelete, AwsMoves, install
    <2> QED
        BY <1>4, <2>1, <2>2, <2>3, <2>4 DEF User
<1>5. CASE Cluster
    <2>1. CASE DeploymentSettles
        BY <2>1 DEF DeploymentSettles, TypeOK, Deployments
    <2>2. CASE ~DeploymentSettles
        <3>1. deployment' = deployment
            BY <1>5, <2>2 DEF Cluster, Resync, InformerSync, AckManage, AckAdopt,
               ObjectsChanged, AckFinalize, AckCreate, AckStatus, CollectSecret, AwsSettle,
               AwsGone, AwsMoves, install
        <3> QED
            BY <3>1
    <2> QED
        BY <2>1, <2>2
<1>6. CASE SetupWithManager \/ UNCHANGED vars
    BY <1>6 DEF SetupWithManager, vars, install
<1> QED
    BY <1>1, <1>2, <1>3, <1>4, <1>5, <1>6 DEF Next

\* A running operator takes the ACK controller away only when no AdoptedResource of
\* the operator's waits for it, deleted by this pass or by any earlier one, whichever
\* caches lag, also when somebody uninstalls the bundle and installs it again. No second
\* replica starts meanwhile: SetupWithManager does not ask.
THEOREM StopsLast ==
    ASSUME "standby" \notin Faults PROVE Spec => FinalizersServed
<1>1. Init => Cleared
    BY DEF Init, Cleared, Awaiting, Unadopted, Owned
<1>2. TypeOK /\ Cleared /\ [Next]_vars => Cleared'
    BY ClearedStep
<1>3. TypeOK /\ Cleared /\ [Next]_vars =>
        [pc # "setup" /\ deployment.replicas > 0
            /\ deployment'.present /\ deployment'.replicas = 0 =>
            \A o \in Owned : adopted[o] # "deleting"]_vars
    BY ServedStep DEF NothingAwaits, Awaiting
<1> QED
    BY <1>1, <1>2, <1>3, TypeCorrect, PTL DEF Spec, FinalizersServed

-----------------------------------------------------------------------------
(* ReadyConsistent.                                                            *)

HasConfig == Installing \ {"validate", "createSecret", "createConfigMap"}

\* What the pass has written of the credentials it has read is still stored, and a
\* condition that says Ready is on its way only over both.
Held ==
    /\ pc \in {"createConfigMap"} \cup HasConfig => cred \in Creds /\ ackSecret = cred
    /\ pc \in HasConfig => ackConfig = cred
    /\ pc = "done" /\ outcome.ready = "True" => ackSecret = ackConfig /\ ackSecret \in Creds

HasSecret == {"createConfigMap"} \cup HasConfig

LEMMA HeldKept ==
    ASSUME Held, UNCHANGED <<ackSecret, ackConfig, cred, outcome>>,
           \/ pc' \notin HasSecret \cup {"done"}
           \/ pc' = pc
           \/ pc \in HasConfig /\ pc' \in HasConfig
    PROVE  Held'
BY DEF Held, HasSecret, HasConfig, Installing

LEMMA HeldEnd ==
    ASSUME Updating \/ Failed \/ Requeue \/ NotReady \/ Ready
    PROVE  pc' = "done" /\ (Held' \/ Ready)
<1>1. pc' = "done" /\ (Ready \/ outcome'.ready # "True")
    BY DEF Updating, Failed, Requeue, NotReady, Ready, Finish
<1> QED
    BY <1>1 DEF Held, HasConfig, Installing

LEMMA HeldCalls ==
    ASSUME {"ackSecret", "ackConfig"} \cap Lagging = {}, TypeOK, Held, Reconcile PROVE Held'
<1>0. Seen("ackSecret") = ackSecret /\ Seen("ackConfig") = ackConfig
    BY DEF Seen, Stored
<1>1. CASE GetInventory
    <2>1. /\ UNCHANGED <<ackSecret, ackConfig, cred, outcome>>
          /\ pc' = IF Seen("inventory").phase = "absent" THEN "idle"
                                                         ELSE FirstCall(Seen("inventory"))
        BY <1>1 DEF GetInventory, Goto, install, scratch
    <2>2. pc' \in {"idle", "addFinalizer", "validate", "deleteAdopted"}
        BY <2>1, SeenType, FirstCallType DEF Inventories
    <2> QED
        BY <2>1, <2>2, HeldKept DEF HasSecret, HasConfig, Installing
<1>2. CASE \/ AddFinalizer \/ DeleteAdopted \/ StopController \/ RemoveFinalizer
           \/ ValidateAWSParameter
    <2>1. \/ Updating \/ Failed \/ NotReady
          \/ UNCHANGED outcome /\ pc' \in {"stop", "deleteSecret", "createSecret"}
        BY <1>2 DEF AddFinalizer, DeleteAdopted, StopController, RemoveFinalizer,
           ValidateAWSParameter, Goto
    <2> QED
        BY <2>1, HeldEnd DEF Updating, Failed, NotReady, Ready, Finish, Held, HasConfig,
           Installing
<1>3. CASE DeleteSecret \/ DeleteConfigMap
    <2>1. Updating \/ Failed \/ pc' \in {"deleteConfigMap", "removeFinalizer"}
        BY <1>3 DEF DeleteSecret, DeleteConfigMap, Goto
    <2> QED
        BY <2>1 DEF Updating, Failed, Finish, Held, HasConfig, Installing
<1>4. CASE CreateOrUpdateSecret
    <2>1. \/ Failed
          \/ pc' = "createConfigMap" /\ UNCHANGED cred /\ cred \in Creds /\ ackSecret' = cred
        BY <1>0, <1>4 DEF CreateOrUpdateSecret, WriteFails, Written, Goto, scratch, TypeOK
    <2> QED
        BY <2>1 DEF Failed, Finish, Held, HasConfig, Installing
<1>5. CASE CreateOrUpdateConfigMap
    <2>1. \/ Failed
          \/ /\ pc' = "start" /\ UNCHANGED <<cred, ackSecret>> /\ pc = "createConfigMap"
             /\ ackConfig' = cred
        BY <1>0, <1>5 DEF CreateOrUpdateConfigMap, WriteFails, Written, Goto, scratch
    <2> QED
        BY <2>1 DEF Failed, Finish, Held, HasConfig, Installing
<1>6. CASE \/ StartController \/ WaitForController \/ DescribeDBInstances \/ ListManaged
           \/ AdoptionRequested \/ ListAdopted \/ ModifyDBInstance \/ SaveDBInstance
           \/ AdoptionChecked
    <2>1. UNCHANGED <<ackSecret, ackConfig>>
        BY <1>6 DEF StartController, WaitForController, DescribeDBInstances, ListManaged,
           AdoptionRequested, ListAdopted, ModifyDBInstance, SaveDBInstance,
           AdoptionChecked, install
    <2>2. \/ Updating \/ Failed \/ Requeue
          \/ UNCHANGED <<cred, outcome>> /\ pc \in HasConfig /\ pc' \in HasConfig
        <3>1. CASE WaitForController
            BY <3>1, SeenType DEF WaitForController, Deployments, Goto, scratch, HasConfig,
               Installing
        <3>2. CASE StartController \/ DescribeDBInstances \/ ListManaged \/ ListAdopted
            BY <3>2 DEF StartController, DescribeDBInstances, ListManaged, ListAdopted,
               Goto, scratch, HasConfig, Installing
        <3>3. CASE AdoptionRequested \/ AdoptionChecked
            BY <3>3 DEF AdoptionRequested, AdoptionChecked, Goto, scratch, HasConfig,
               Installing
        <3>4. CASE ModifyDBInstance \/ SaveDBInstance
            BY <3>4 DEF ModifyDBInstance, SaveDBInstance, Goto, scratch, HasConfig,
               Installing
        <3> QED
            BY <1>6, <3>1, <3>2, <3>3, <3>4
    <2> QED
        BY <2>1, <2>2, HeldKept DEF Updating, Failed, Requeue, Finish, Held, HasConfig,
           Installing
<1>7. ASSUME NEW i \in DBIds, CreateAdoptedResource(i) \/ NoNameLeft(i) PROVE Held'
    <2>1. CASE CreateAdoptedResource(i)
        BY <2>1, HeldKept DEF CreateAdoptedResource, install
    <2>2. CASE NoNameLeft(i)
        BY <2>2 DEF NoNameLeft, Failed, Finish, Held, HasConfig, Installing
    <2> QED
        BY <1>7, <2>1, <2>2
<1>8. ASSUME NEW o \in Objects, FillConnectionInfo(o) \/ SkipDBInstance(o) \/ SetCredentials(o)
      PROVE  Held'
    <2>1. UNCHANGED <<ackSecret, ackConfig>> /\ pc = "secure"
        BY <1>8 DEF FillConnectionInfo, SkipDBInstance, SetCredentials, Handles, install
    <2>2. \/ Updating \/ Failed
          \/ UNCHANGED <<cred, outcome>> /\ pc' \in {"secure", "modify"}
        <3>1. CASE FillConnectionInfo(o)
            BY <2>1, <3>1 DEF FillConnectionInfo
        <3>2. CASE SkipDBInstance(o)
            BY <2>1, <3>2 DEF SkipDBInstance
        <3>3. CASE SetCredentials(o)
            BY <2>1, <3>3 DEF SetCredentials, Goto
        <3> QED
            BY <1>8, <3>1, <3>2, <3>3
    <2> QED
        BY <2>1, <2>2, HeldKept DEF Updating, Failed, Finish, Held, HasConfig, Installing
<1>9. CASE SyncInstances
    <2>1. UNCHANGED <<ackSecret, ackConfig>> /\ pc = "sync" /\ (Ready \/ Updating)
        BY <1>9 DEF SyncInstances, install
    <2> QED
        BY <2>1 DEF Ready, Updating, Finish, Held, HasConfig, Installing
<1>10. CASE UpdateReadyCondition
    <2>1. pc' = "idle"
        BY <1>10 DEF UpdateReadyCondition, EndPass
    <2> QED
        BY <2>1 DEF Held, HasConfig, Installing
<1> QED
    BY <1>1, <1>2, <1>3, <1>4, <1>5, <1>6, <1>7, <1>8, <1>9, <1>10 DEF Reconcile

LEMMA HeldStep ==
    ASSUME {"ackSecret", "ackConfig"} \cap Lagging = {}, TypeOK, Held, [Next]_vars PROVE Held'
<1>1. CASE Reconcile
    BY <1>1, HeldCalls
<1>2. CASE SetupWithManager \/ Restart
    <2>1. pc' \in {"idle", "setup"}
        BY <1>2 DEF SetupWithManager, Restart, Goto
    <2> QED
        BY <2>1 DEF Held, HasConfig, Installing
<1>3. CASE CallFails \/ Conflict
    BY <1>3 DEF CallFails, Conflict, Updating, Failed, Finish, Held, HasConfig, Installing
<1>4. CASE StandbySetup \/ Undeploy \/ UNCHANGED vars
    BY <1>4, HeldKept DEF StandbySetup, Undeploy, scratch, vars, install
<1>5. CASE User \/ Cluster
    <2>1. UNCHANGED <<ackSecret, ackConfig>> /\ UNCHANGED Worker
        <3>1. CASE CreateInventory \/ DeleteInventory \/ ChangeCredential \/ Deploy \/ Resync
                   \/ DeploymentSettles
            BY <3>1 DEF CreateInventory, DeleteInventory, ChangeCredential, Deploy, Resync,
               DeploymentSettles, install, Worker
        <3>2. ASSUME NEW o \in Objects, ProvisionDBInstance(o) \/ AdoptByUser(o) \/ AckDelete(o)
              PROVE  UNCHANGED <<ackSecret, ackConfig>> /\ UNCHANGED Worker
            BY <3>2 DEF ProvisionDBInstance, AdoptByUser, AckDelete, ObjectsChanged, install
        <3>3. ASSUME NEW o \in Objects, \/ AckManage(o) \/ AckAdopt(o) \/ AckFinalize(o)
                                        \/ AckCreate(o) \/ AckStatus(o) \/ CollectSecret(o)
              PROVE  UNCHANGED <<ackSecret, ackConfig>> /\ UNCHANGED Worker
            BY <3>3 DEF AckManage, AckAdopt, AckFinalize, AckCreate, AckStatus,
               CollectSecret, ObjectsChanged, install
        <3>4. ASSUME NEW i \in DBIds, AwsCreate(i) \/ AwsBusy(i) \/ AwsDelete(i)
                                      \/ AwsSettle(i) \/ AwsGone(i)
              PROVE  UNCHANGED <<ackSecret, ackConfig>> /\ UNCHANGED Worker
            BY <3>4 DEF AwsCreate, AwsBusy, AwsDelete, AwsSettle, AwsGone, AwsMoves, install
        <3>5. ASSUME NEW k \in Kinds, InformerSync(k)
              PROVE  UNCHANGED <<ackSecret, ackConfig>> /\ UNCHANGED Worker
            BY <3>5 DEF InformerSync, install
        <3> QED
            BY <1>5, <3>1, <3>2, <3>3, <3>4, <3>5 DEF User, Cluster
    <2> QED
        BY <2>1, HeldKept DEF Worker, scratch
<1> QED
    BY <1>1, <1>2, <1>3, <1>4, <1>5 DEF Next, Trouble

\* ReadyConsistent, of one step: the condition is written by UpdateReadyCondition.
ReadyOver ==
    inventory'.ready = "True" /\ inventory.ready # "True" =>
        ackSecret = ackConfig /\ ackSecret \in Creds

LEMMA ReadyOverStep == ASSUME TypeOK, Held, [Next]_vars PROVE ReadyOver
<1>1. CASE UpdateReadyCondition
    <2>1. CASE copy = inventory
        <3>1. pc = "done" /\ inventory' = [copy EXCEPT !.ready = outcome.ready]
            BY <1>1, <2>1 DEF UpdateReadyCondition
        <3>2. inventory'.ready = outcome.ready
            BY <3>1 DEF TypeOK, Inventories
        <3> QED
            BY <3>1, <3>2 DEF Held, ReadyOver
    <2>2. CASE copy # inventory
        BY <1>1, <2>2 DEF UpdateReadyCondition, ReadyOver
    <2> QED
        BY <2>1, <2>2
<1>2. CASE SyncInstances \/ AddFinalizer
    <2>1. \/ inventory' = inventory
          \/ inventory' = [inventory EXCEPT !.finalizer = TRUE]
          \/ inventory' = [inventory EXCEPT !.instances = {o \in Objects : Seen("dbs")[o].present}]
        BY <1>2 DEF SyncInstances, AddFinalizer
    <2> QED
        BY <2>1 DEF TypeOK, Inventories, ReadyOver
<1>3. CASE RemoveFinalizer \/ CreateInventory \/ DeleteInventory
    <2>1. \/ inventory' = inventory
          \/ inventory'.ready = "None"
          \/ inventory' = [inventory EXCEPT !.phase = "deleting"]
        BY <1>3 DEF RemoveFinalizer, CreateInventory, DeleteInventory, AbsentInventory
    <2> QED
        BY <2>1 DEF TypeOK, Inventories, ReadyOver
<1>4. CASE Reconcile /\ ~UpdateReadyCondition /\ ~SyncInstances /\ ~AddFinalizer
           /\ ~RemoveFinalizer
    <2>1. inventory' = inventory
        BY <1>4 DEF Reconcile, GetInventory, DeleteAdopted, StopController,
           DeleteSecret, DeleteConfigMap, ValidateAWSParameter,
           CreateOrUpdateSecret, CreateOrUpdateConfigMap, StartController,
           WaitForController, DescribeDBInstances, ListManaged, CreateAdoptedResource,
           NoNameLeft, AdoptionRequested, ListAdopted, FillConnectionInfo, SkipDBInstance,
           SetCredentials, ModifyDBInstance, SaveDBInstance, AdoptionChecked
    <2> QED
        BY <2>1 DEF ReadyOver
<1>5. CASE SetupWithManager \/ Trouble \/ UNCHANGED vars
    BY <1>5 DEF SetupWithManager, Trouble, CallFails, Conflict, Restart, StandbySetup,
       Undeploy, vars, ReadyOver
<1>6. CASE (User /\ ~CreateInventory /\ ~DeleteInventory) \/ Cluster
    <2>1. inventory' = inventory
        BY <1>6 DEF User, Cluster, ChangeCredential, Deploy, ProvisionDBInstance,
           AdoptByUser, AckDelete, AwsCreate, AwsBusy, AwsDelete, AwsMoves, ObjectsChanged,
           Resync, InformerSync, DeploymentSettles, AckManage, AckAdopt, AckFinalize,
           AckCreate, AckStatus, CollectSecret, AwsSettle, AwsGone
    <2> QED
        BY <2>1 DEF ReadyOver
<1> QED
    BY <1>1, <1>2, <1>3, <1>4, <1>5, <1>6 DEF Next

\* The inventory becomes Ready only over a Secret and a ConfigMap of the ACK controller
\* that were made from one version of the user's credentials, whatever fails between the
\* two writes and whatever the user does to the credentials meanwhile. The caches of the
\* two are up to date: a stale one can show the content to be right that is not.
THEOREM ReadyOverOne ==
    ASSUME {"ackSecret", "ackConfig"} \cap Lagging = {} PROVE Spec => ReadyConsistent
<1>1. Init => Held
    BY DEF Init, Held, HasConfig, Installing, NoOutcome
<1>2. TypeOK /\ Held /\ [Next]_vars => Held'
    BY HeldStep
<1>3. TypeOK /\ Held /\ [Next]_vars => [ReadyOver]_vars
    BY ReadyOverStep
<1>4. ReadyConsistent <=> [][ReadyOver]_vars
    <2>1. [inventory'.ready = "True" /\ inventory.ready # "True" =>
                ackSecret = ackConfig /\ ackSecret \in Creds]_vars
           <=> [ReadyOver]_vars
        BY DEF ReadyOver
    <2> QED
        BY <2>1, PTL DEF ReadyConsistent
<1> QED
    BY <1>1, <1>2, <1>3, <1>4, TypeCorrect, PTL DEF Spec
=============================================================================
